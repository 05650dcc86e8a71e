# A verification project for ccthread

ccthread is a small C library of threads and synchronisation objects for POSIX
and Windows. This directory holds TLA+ modules that model its concurrent core,
TLC configurations that check them on small instances, and TLAPS proofs of the
properties that matter most for every value of the constants.

Line numbers below are lines of the library's files; `PROJECT.json` maps every
definition to the lines it translates.

## Inventory

| part | files | state it keeps | operations | hard behaviour |
|---|---|---|---|---|
| one-time initialisation | `ccthread.c` 469-497 | one `int`: 0 not done, 1 in progress, 2 done | `ccthread_once` | late callers overwrite the done mark with 1 and must put it back |
| thread lifecycle | `ccthread.c` 71-339 | heap struct: `result`, `detached`, `joined`, `finished`, `cleanup_claimed`, OS handle | `ccthread_create`, wrapper, `join`, `detach`, `exit` | wrapper and detaching thread race to free the struct; store-load reordering; use of freed memory |
| thread identity | `ccthread.c` 91-120, 374-463 | TLS pointer, `tid`, OS handle | `ccthread_self`, `equal`, `gettid` | fields written by three different threads, truncated ids, handles of foreign threads |
| naming | `ccthread.c` 52-67, 503-630 | a function pointer loaded once | `ccthread_set_name` | a name sent to a handle that is closed or not yet there |
| yield, sleep | `ccthread.c` 345-368 | none | one system call each | interrupted sleep |
| spinlock | `ccspinlock.c` | `flag`, `owner_tid`, `recursion` | `create`, `trylock`, `lock`, `unlock`, `destroy` | the owner is read without the lock |
| semaphore | `ccsem.c` | POSIX: mutex, condition variable, `count`; elsewhere a kernel semaphore | `create`, `wait`, `trywait`, `timedwait`, `post`, `destroy` | lost wakeups, timeouts against posts, destroy against a returning poster, limits, deadlines |
| mutex | `ccmutex.c` | an OS mutex and its kind: owner, level | `create`, `trylock`, `lock`, `unlock`, `destroy` | `lock` is a trylock/yield loop |
| condition variable | `cccondvar.c` | an OS condition variable | `wait`, `timedwait`, `signal`, `broadcast` | recursive mutexes, timeouts |
| reader-writer lock | `ccrwlock.c` | an OS rwlock; Windows: `writer_tid` | `rdlock`, `wrlock`, `try*`, `unlock` | `unlock` guesses the mode from a field others write; starvation of writers |
| atomics | `ccatomic.h` | none | release store, acquire load, exchange, pause | what each compiler branch guarantees |

How they interact: everything rests on `ccatomic.h`. The spinlock asks
`ccthread_gettid` who the caller is. `ccthread_set_name` guards its function
pointer with `ccthread_once`. The condition variable works on the native handle
of a mutex. The reader-writer lock asks `ccthread_gettid` on Windows. The
lifecycle, the semaphore and the locks use the operating system's threads,
mutexes and condition variables, which the models describe as those APIs
promise (spurious wakeups included).

What makes each part correct is stated with its module below.

## Modules

| module | what it is |
|---|---|
| `Once` | promise: `func` runs once per round; a call returns only after it |
| `CcOnce` | `ccthread_once`, one action per atomic access; refines `Once` |
| `CcOnce_proofs` | its theorems |
| `ReentrantLock` | promise: one thread at a time, any depth |
| `CcSpinlock` | `ccspinlock.c`, one action per memory access; refines `ReentrantLock` |
| `MCCcSpinlock` | thread identities for TLC |
| `CcSpinlock_proofs` | its theorems |
| `ThreadHandle` | promise: a handle's memory lives until function and client are both through, and goes once |
| `CcThread` | create, wrapper/exit, join, detach; refines `ThreadHandle` |
| `CcThread_proofs` | its theorems |
| `CcSelf` | `CcThread` with foreign threads: self, equal, set_name |
| `CcSelf_proofs` | its theorems |
| `Semaphore` | promise: each call takes effect at one instant; a timed wait gives up only if it has found no token |
| `CcSem` | `ccsem.c` on POSIX; refines `Semaphore` |
| `CcSemKernel` | `CcSem`, or the kernel semaphore of Windows or macOS; refines `Semaphore` |
| `CcSem_proofs` | theorems of both |
| `CcTime` | the arithmetic of sleep and of deadlines |
| `CcTime_proofs` | its theorem |
| `RwLock` | promise: any number of readers, or one writer and nobody else |
| `CcRwlock` | `ccrwlock.c` on POSIX and Windows; refines `RwLock` |
| `MCCcRwlock` | thread ids for TLC |
| `CcRwlock_proofs` | its theorems |
| `CcMutex` | the variables of `ccmutex.c` and the parts its clients' actions are made of |
| `CcCondvar` | the same for `cccondvar.c`, on one `CcMutex` |
| `Fifo` | promise: items are handed out in the order they went in, each to one consumer |
| `CcQueue` | the bounded queue of `examples/cccondvar_basic.c`, composed with `CcCondvar` and `CcMutex`; refines `Fifo` |
| `CcQueue_proofs` | its theorems |

### CcOnce

`once` is the control block; `pc[t]` says where in `ccthread_once` thread `t`
is: `Load` is the test of the while loop, `Exchange` the swap and the branch on
its old value (`Branch`), `FuncReturns`/`Publish` the winner's path, `Restore`
the path that repairs a clobbered done mark. `Rearm` is the assignment of
`CCTHREAD_ONCE_INIT` that `examples/ccthread_once.c` makes between rounds.
`started`, `completed` and `round` are history.

What `func` did travels through the block: `sees` are the threads that see it,
`carried` says whether the value now in the block hands it on. A release store by
a thread that sees it does (`Released`), an exchange passes on what the old value
carried, and an acquire load or exchange takes it over (`Acquire`). With the
`__sync` forms of `ccatomic.h` 38 and 71, whose barriers are on the wrong side,
neither is promised (`Ordered` is FALSE).

* `OneHolder`: a 1 in the block belongs to exactly one caller that is going to
  replace it. This is what makes the unconditional exchange safe.
* `InitialisedOnce`: `func` is entered at most once per round, and nobody
  returns before it is over.
* `EffectsVisible`: whoever returns sees what `func` did, even through a mark that
  others have overwritten and restored meanwhile.
* `EveryCallReturns`: liveness, under weak fairness of every caller.
* `MarkOwned`, `RoundKeeps`: what no step may do. Only the owner of the 1
  replaces it, and within a round nothing is undone (proved, not run).
* `ImplementsOnce`: the refinement.

### CcSpinlock

`flag`, `owner_tid` and `recursion` are the struct. `trylock` reads `owner_tid`
twice, once against 0 (`ReadOwner`) and once against the caller's id
(`CompareOwner`), and both reads race with the owner's writes; each returns *any*
value another thread has written since the reader last synchronised through the
flag (`view`). `Gettid` truncates as the code does. `ccspinlock_create` ignores
the type it is given, so there is one kind of lock.

* `MutualExclusion`, `DepthTracked` (the count is the client's depth, so only
  the last unlock opens the flag), `SomeoneGetsIn` (the flag is never left set
  with nobody behind it), `ImplementsLock`.
* `FieldsOwned`: the plain fields `owner_tid` and `recursion` are written only by
  the thread that has the flag, and nobody else is inside when it does. Nested
  levels are counted without touching the flag; this says they may be.
* `NoSelfDeadlock`, part of the invariant: a holder never spins on itself. For a
  RECURSIVE lock that is the point; of a PLAIN one the docs say the opposite (see
  Divergences below).
* `FreedByHolder`: the flag is freed by its holder only (proved, not run).

All need `TidsDistinct`: no two live threads share a 32-bit id and none has the
id 0. Without the first half exclusion fails (run `spin_tid_collision`). Without
the second a thread with the id 0 never recognises itself, and can be let in
without the lock when the owner clears the field between its two reads.

### CcThread

For each handle a *consumer* (`cpc`: create, then join or detach) and a *worker*
(`wpc`: wrapper or exit) take steps of one access each. `ccthread_exit` and the
return of the function share the same tail in the code and in the model.
`frees` and `closes` count what has been done to the struct and to the OS
handle. `at[h]` is the struct that now lies where the pointer `h` leads: `calloc` may
give the block of a freed struct to another thread. `creator` is what
`ccthread_create` still has to do after the new thread runs. Five constants say
what the build, the memory and the system do:

* `Fenced`: whether a barrier separates a release store from the next load. It
  does where the store is an interlocked exchange (MSVC) or where release and
  acquire are ordered among themselves (AArch64); it does not where both are
  plain moves (GCC and Clang on x86). Stores wait in `pending` until drained.
* `FreedMemory`: a freed struct stays as it is ("intact"), or holds anything and
  may become another thread's live struct ("reused"): what is then read,
  exchanged or freed through the old pointer is that struct.
* `HandleFirst`: whether `pthread_create` stores the handle before the new thread
  runs (glibc) or at any time before it returns.
* `OsMayFail`: whether waiting for, or detaching, the OS thread may fail.
* `EarlyDetach`: the backends on which a thread may detach itself, through
  `ccthread_self`, while its creator is still inside `ccthread_create`. On POSIX
  the creator does not touch the struct afterwards if the handle is stored first;
  on Windows it stores and tests the handle (`AssignHandle`, `TestHandle`) in a
  struct that may be gone, so the runs and the theorems leave it out there
  (`HandleBeforeDetach`).

The variable `backend`, chosen once, says who closes which OS handle and when.

Properties: `FreedAtMostOnce`, `HandleReleasedOnce`, `JoinDelivers` (join
returns what the function returned, and frees after the thread is gone),
`StructOutlivesJoin` (without a published detach no access meets freed memory, and
`ccthread_create` never does), `SelfLive` (a running function finds the struct
behind its TLS pointer, also after a detach, which it may have made itself),
`DetachedReclaimed` and `DetachReclaims` (no leak), `JoinReturns`,
`ImplementsHandle`. The client joins or detaches each handle at most once, as
`ccthread.h` 95-96 asks, so the early ERROR returns of join and detach are
guards here. Under reused memory all this holds of every behaviour in which
neither side of a detach race comes to its load or its exchange only after the
other has freed the struct (`NoLateClaim`); finding 3 is what happens otherwise,
and it can hit any other thread's struct.

### CcSelf

`CcSelf` adds threads the library has not created (`Foreign`) and what the
functions of identity make of the struct. `foreign` is the struct behind such a
thread's TLS pointer. `OsHandle(x)` and `Tid(x)` are what the fields `handle` and
`tid` of `x` stand for at the moment, empty while they have not been written:
`handle` is written by the creator and cleared by a detach on Windows, `tid` is
written by the new thread and, on Windows, by the creator. `Equal` compares one
on POSIX and the other on Windows. `SetName` is the set of threads that may be
renamed, for each way a platform has of doing it (`Namers`), `<<>>` standing for
nobody. A handle or id under which the system does not know the thread, a closed
handle or a `pthread_t` that has not been written, may stand for any thread.

* `EqualMeansSame`: two handles in lawful use (`InHand`) compare equal exactly
  when they stand for the same thread. On POSIX this needs `HandleFirst`: a thread
  that calls `equal` before `pthread_create` has stored its handle compares zeros.
* `NamesLiveThread`: `set_name` on a handle in lawful use never renames another
  thread. The code does not keep it on Windows: between the two statements of
  `ccthread.c` 281-282 the field holds a closed handle (run
  `thread_closed_handle`).
* `NamesSettledThread`: it does keep it wherever the handle field is settled,
  stored and not closed without being cleared.

### CcSem

`mutex`, `count` and the sets of threads by `pc` model the POSIX backend:
`Block` releases the mutex and falls asleep atomically, `SpuriousWakeup`,
`Expire` and `Signal` end a sleep, and a woken thread must get the mutex again
(`WakeUp`, then the loop's test; `GiveUp` after ETIMEDOUT, with no test).
`FailingCalls` says which of `pthread_mutex_lock` and `pthread_cond_wait` may
fail (and of the Windows wait, below); `Plus1` and `Minus1` wrap at `UintMax`. `Destroy` is called by a client
that knows, by counting, that the last token has been taken, while a poster may
still be inside `ccsem_post`.

* `NoLostWakeup` (with the mutex free, tokens never outnumber the
  woken waiters while others sleep, even after the counter has wrapped),
  `NoUseAfterDestroy`, `WaitersServed`.
* `ImplementsSemaphore`: every call takes effect at one instant. A timed wait may
  give up only after it has found the count at 0 in that call (`Looked`); trywait
  only while it is.
* `BoundedCallsReturn`: post, trywait and timedwait always return, once wakeups
  for no reason come to an end (`WakeupsEnd`; a waiter that wakes for ever without
  one could have the mutex whenever another looks).

A wait whose deadline passes reports a timeout without looking at the count
again (`ccsem.c` 257-260), so it may do so while a token is there; no token is
lost by it, which is what `NoLostWakeup` checks. `ccsem.h` 112 promises more (see
Divergences).

### CcSemKernel and CcTime

`CcSemKernel` chooses a platform at the start (`backend`). On POSIX its steps are
those of `CcSem`. On Windows and macOS a call of the library is one call of the
kernel, one step from `entered` to `leave`: `KernelTake`, `KernelDenies`,
`KernelExpires` (the kernel times a wait out only while there is no token for it,
unlike POSIX), `KernelPost`, and on Windows `KernelWaitFails` and the refusal of a
post at `LongMax`. `ccsem_create` clamps a larger initial count without saying so;
`KernelAssumption` keeps to counts that are not. On macOS `dispatch_release` stops
the program if fewer tokens are there than at the start, so `DestroyReturned` is
the only destroy a client may make there. The properties are those of `CcSem`.

`CcTime` is how milliseconds become a `struct timespec`: `Split` for nanosleep and
the relative wait of macOS, `Deadline` for the absolute ones, which two files
compute alike.

* `DeadlineExact`: the deadline is a valid timespec, the clock plus the timeout
  to the nanosecond, and the sum before the carry stays below two seconds, which a
  32-bit `long` holds.

### CcRwlock

`shared` and `exclusive` are the platform's lock, `writer_tid` is the field the
Windows backend adds. `reading` and `writing` are the clients: a thread is in
them from the return of its lock call to its call of unlock. On Windows
`AcquireExclusive` and `SetWriter` are two steps, and so are `TestWriter`,
`ClearWriter` and `ReleaseExclusive`; other threads' unlocks read `writer_tid`
between them. Releasing a mode one does not hold is undefined behaviour of the
platform: `Undefined` lets anything follow. `TidGuarded` and `ReadsAlone` say
that the plain field `writer_tid` has no race (proved, not run). `WritersFirst` says whether the
platform holds new readers back while a writer waits.

* `ReleaseMatches`: unlock gives up the mode its caller has. On Windows it needs
  thread ids other than 0 and nothing more: two threads with the same truncated id do no
  harm, because the field is nonzero only while its writer excludes the other.
* `ReadersOrWriter`, `ImplementsRwLock`: exclusion, as the clients see it.
* `NotStarvedByReaders`: liveness, where the platform holds readers back.

Clients hold the lock once, in one mode. A second read lock by a reader is legal
on POSIX, but waits for ever when a writer has come in between on a platform
that holds readers back; an upgrade waits for ever on every platform.

### CcMutex, CcCondvar and CcQueue

`CcMutex` and `CcCondvar` hold state and parts of actions, and no `Next` of
their own: what a mutex and a condition variable are good for shows only in what
clients do with them. `TakeLevel` is the iteration of the trylock loop of
`ccmutex_lock` that succeeds. `Sleep` is the call of `wait` or `timedwait`: one
level is given up and the caller falls asleep in one step. `WakeEarly` is a
spurious wakeup or a passed deadline. `CcQueue` is the example's client: it
locks, tests in a loop, waits, moves an item, notifies and unlocks; `item` is the
local in which a consumer carries what it took until it returns it. It is
generalised to any number of threads, timed waits, broadcasts, and to callers
that hold a RECURSIVE mutex `Depth` times.

* `NoLostWakeup`: with the mutex free, nobody sleeps beside an item or a slot
  that no woken thread is coming for.
* `AllMoved`: everybody gets all his items through.
* `ImplementsFifo`: the circular buffer is a queue, whoever moves its ends, and
  what a pop returns is the oldest item in it.
* `SleepersReleased`: a sleeper does not own the mutex. It holds at depth one and
  fails at any other (proved both ways, not run).
* `NeverBothAsleep` (producers and consumers never wait for each other) and
  `InOrder` (each producer's items are in the buffer in its order, none twice):
  proved at any depth, not run.

## Runs

| run | instance | shows |
|---|---|---|
| `once` | 3 threads, 2 calls each, 2 rounds | safety, visibility, refinement, every call returns |
| `once_starvation` | 3 threads calling for ever | **violated**: see findings |
| `spin` | 3 threads, depth 2 | safety, refinement, somebody gets in |
| `spin_tid_collision` | equal low bits | **violated** |
| `thread` | 2 handles, 1 foreign thread, both backends, barriers, failures, early self-detach on POSIX | safety, one free and one close, no leak, identity and names, refinement, joins return, detached structs are freed |
| `thread_double_free` | 2 handles, freed memory reused | **violated** |
| `thread_closed_handle` | 1 handle, Windows | **violated** |
| `thread_leak` | no barriers | **violated** |
| `sem` | 3 threads, 2 posts, 3 waits, 3 platforms, a limit of 2, failing calls; 3 ms to a second, 2 ns to a ms | safety, refinement, no stuck waiter, bounded calls return, exact deadlines |
| `rwlock` | 3 threads, both backends, a shared id | safety, refinement, writers get in |
| `rwlock_starvation` | default attributes of glibc, POSIX | **violated** |
| `queue` | 2 producers, 2 consumers, 2 slots, 3 items each, 1 early wakeup | safety, refinement, everybody gets through |

Bounds. Three callers are the fewest for the clobbering chain of `ccthread_once`
(one initialises, one clobbers, one looks), for a stale owner read that involves
a former owner and a present one, and for two sleepers and a poster on the
semaphore; two posts in a row are needed to lose a wakeup. On the reader-writer
lock two readers that overlap and a writer, or two writers with the same id and
a reader, are three. On the queue a notification can go astray only between
threads that wait for the same thing, so there are two on each side, and more
items than slots make both sides wait; one early wakeup (`MaxEarly`) is enough
to take a notified thread's place. Handles are independent of each other, so two
already show any interference the model could have by mistake; one foreign thread
gives `equal` and `set_name` a handle of the other kind. One token and two posts
reach the limit of two and pass it. Deadlines depend on the units only through
whole seconds and a carry, so a second of 6 ns shows every case; the theorem
covers 10^9. Where clients make finitely many calls the system stops, so
deadlock checking is off in those runs.

Fairness is weak fairness of the steps a thread takes inside a call, which is
what a scheduler that runs every runnable thread gives; a function passed in is
assumed to return, a holder to unlock, a store buffer to drain, a deadline to
pass. In `rwlock_starvation` the waiting writer even gets strong fairness
(`WatchfulSpec`): it is shut out although it would notice a free lock, because
there is none. In `queue` a thread at the trylock loop is only weakly fair;
clients make finitely many moves, so the mutex is at last left to it. Calls,
spurious wakeups, failures and the choice between join and detach are never fair.

## Findings

1. `once_starvation`: a caller of an already initialised block may spin for ever,
   because others keep swapping 1 over the done mark just before it looks.
2. `spin_tid_collision`: ownership by a truncated id breaks exclusion where the
   native id is 64 bits wide.
3. `thread_double_free`: the loser of the cleanup race has already been using
   freed memory, and can free it again.
4. `thread_leak`: the release/acquire pair on `detached` and `finished` does not
   prevent both sides from missing the other's flag on x86.
5. `rwlock_starvation`: the lock is not writer-preferring on glibc, where default
   attributes prefer readers; overlapping readers keep a writer out for ever.
6. `thread_closed_handle`: on Windows a thread that names itself while it is being
   detached hands a closed handle to the system, and may rename another thread.

### Divergences no run shows

These follow from a look at the code or are proved; a run would add nothing.

* A PLAIN spinlock lets its holder in again (`ccspinlock.c` 40, 54), where
  `ccmutex.h` 163 promises an error, `ccspinlock.c` 10 says PLAIN ignores the owner
  fields and `examples/ccspinlock_basic.c` 66-68 expects `trylock` to be busy.
  `SpinReenters` proves that it never is.
* A wait on a RECURSIVE mutex held more than once sleeps with the mutex
  (`cccondvar.c` 111), where `ccmutex.h` 299 says "Atomically releases @p mtx and
  blocks". `NestedWaitKeepsMutex` proves it at every depth above one.
* `ccsem_timedwait` may report CCMUTEX_TIMEOUT with tokens there, or after tokens
  have come and gone (`ccsem.c` 257-260), where `ccsem.h` 112 says the count was 0
  for the entire timeout.
* On Windows `set_name` refuses a thread that has been detached and still runs
  (`ccthread.c` 556), where `ccthread.h` 269 says any thread can be named; without
  SetThreadDescription an MSVC build reports CCTHREAD_SUCCESS (545), where
  `ccthread.h` 274-275 says CCTHREAD_ERROR.
* `ccthread_detach` accepts the handle `ccthread_self` returns on a created thread
  (`ccthread.c` 273-276), where `ccthread.h` 196-198 forbids it. On Windows a thread
  that does so before CreateThread has returned leaves its creator to write to a
  struct that may be gone.

## Proofs

Each proof module shows `Init => IInv`, `IInv /\ [Next]_vars => IInv'` and
`IInv => ...` for an inductive invariant that the runs also check, and then the
refinement, step by step. The theorems hold for any finite set of threads and
any bounds. What they assume beyond the types of the constants:

| theorems | assumption | why |
|---|---|---|
| `CcOnce`, `CcTime`, `CcQueue` | none | |
| `CcThread`, `CcSelf` | `HandleBeforeDetach` | a Windows creator stores and tests the handle after the thread has started |
| `CcThread`, `CcSelf` | `[]Undisturbed` | finding 3: holds always where freed memory stays as it is |
| `CcThread`, `CcSelf`, POSIX only with early self-detach | `HandleFirst` (in `ThreadAssumption`) | else the thread detaches an unwritten `pthread_t` |
| `CcThread`: `FencedNeverLeaks` | `Fenced` | finding 4 |
| `CcSem`: invariant, tokens, destroy, refinement | `[]Room` (POSIX alone: `[]Fits`) | `count++` at `UINT_MAX` goes to 0 and `post` reports success |
| `CcSem`: `SemWakes`, `CountIsGuarded`, `WindowsNeverOverflows` | none | |
| `CcSpinlock` | `TidsDistinct` | finding 2, and the id 0 stands for "no owner" |
| `CcRwlock` | `TidsNonzero` | 0 stands for "no writer", on Windows |

* `CcOnce_proofs`: `OnceInvariant`, `OnceSafety` (one holder), `OnceDone`,
  `OnceVisible`, `OnceImplementsPromise`. `OneHolder` is not inductive without
  knowing that whoever may restore or publish does so after completion.
  `OnceKeeps` adds what a step may never do; it holds with the `__sync` forms too.
* `CcSpinlock_proofs`: `SpinInvariant`, and from it `SpinExcludes`, `SpinCounts`,
  `SpinReenters`, `SpinGuards` and `SpinImplementsLock`. The key conjunct: a
  thread's own id is among the values its racy reads may return exactly when it is
  the owner, and then it is the only one; so the second read decides, whatever the
  first has seen. `SpinGuards` makes the read in `trylock` the one race of the two
  plain fields.
* `CcThread_proofs`: the invariant ties `cleanup_claimed` to the one free done or
  pending, and (`NobodyMissed`) orders the two stores and loads, on both backends,
  with barriers and without. `Placed` keeps a pointer on its own struct for as
  long as that has not been freed; with `NoLateClaim` nobody uses a pointer that
  has lost it, which is how the other conjuncts survive blocks that are handed out
  again. `ThreadInvariant`, `FreedOnce`, `ReleasedOnce`, `Delivered`,
  `StructLives`, `SelfLives`, `FencedNeverLeaks`, `ThreadImplementsHandle`.
* `CcSelf_proofs`: `EqualIsIdentity`, `NamesReachTheThread` and `SelfInvariant`,
  from the invariant of `CcThread`, which foreign threads leave alone; any number
  of both kinds of threads.
* `CcSem_proofs`: for POSIX `SemInvariant` and `SemImplementsSemaphore`, for every
  platform `KernelInvariant`, `TokensKept`, `SemOutlivesPosts` and
  `KernelImplementsSemaphore`. They hold of every behaviour in which no post
  finds the counter at its limit, however many posts there are.
  `BoundedInvariant` shows that posts that cannot fill the counter see to that,
  and `WindowsNeverOverflows` that on Windows the kernel does. The key conjunct,
  `WakeupInv`, counts woken waiters, waiters at the test and the poster about to
  signal against the tokens; `PostsInv` is what makes `Destroy` safe.
  `WrapInvariant` is what survives a wrap: every conjunct but the ones about
  tokens and destroy. It gives `SemWakes`: even a counter that has lost tokens
  leaves nobody asleep beside one. `CountIsGuarded` holds with failing calls too: a
  `post` whose lock fails changes nothing.
* `CcTime_proofs`: `ArithmeticIsExact`, `DeadlineIsExact`, for all units, clocks
  and timeouts.
* `CcRwlock_proofs`: `RwlockInvariant`, `UnlockMatches`, `RwlockExcludes`,
  `RwlockImplementsRwLock`, `TidNeverRaces`. The key conjunct says when
  `writer_tid` is nonzero: exactly while a writer holds the exclusive lock, between
  its own two writes.
* `CcQueue_proofs`: `QueueInvariant`, `QueueSafety`, `QueueNeverStuck`,
  `QueueIsGuarded`, `QueueImplementsFifo` and `ProducersInOrder`, for any finite sets of
  producers and consumers, any capacity and any depth at which callers hold the
  mutex. What depends on the depth is who has the mutex during a wait:
  `OneLevelIsReleased` and `NestedWaitKeepsMutex` (at every size), both
  read off `HeldInv`. The key conjunct, `WakeupInv`, counts the threads on their
  way to a test and the one about to notify against what there is to take. The
  refinement reads the sequence off the circular buffer and rests on `RingInv`:
  `tail` is `count` slots past `head`, so a push writes the slot after the last
  item, a pop gives up the first, and no slot in use is touched. Beyond depth one
  `QueueSafety` and `QueueNeverStuck` say little: a sleeper keeps the mutex, so the
  states they speak of, with the mutex free and somebody asleep, do not come.

The assumption `[]Room` is met by every behaviour of run `sem`, and by every
client within the bound of `BoundedInvariant`.

Liveness (`EveryCallReturns`, `SomeoneGetsIn`, `JoinReturns`, `DetachReclaims`,
`WaitersServed`, `BoundedCallsReturn`, `NotStarvedByReaders`, `AllMoved`) is
model-checked only: it rests on fairness, which the proof system does not treat.
Every safety property and refinement of the passing runs is proved.

## Not modelled

* A `func` of `ccthread_once` that calls `ccthread_exit` or `ccthread_once` on the
  same block: it leaves the block at 1 and every later caller spinning. The models
  let `func` return.
* Nested read locks and upgrades: undefined or blocking for ever on one platform
  or another, and nothing `ccmutex.h` describes.
* A thread that joins itself (on Windows it waits for ever), and handles used
  after they have been consumed.
* The clamp of the initial count of a semaphore, and the one timeout (`UINT_MAX`)
  that Windows takes for no timeout at all.
* A failing `pthread_cond_signal`, which makes `post` report an error although the
  count has been incremented: it fails on no valid condition variable.
* Wrap-around of `recursion`: depths stay far below. The POSIX `count` wraps in
  the model; the runs stay below, and of what follows a wrap the theorems show
  `NoLostWakeup` only.
* The fallbacks of `ccatomic.h` for unknown compilers, which are not atomic, and
  for `__sync` beyond what `Ordered` and `Fenced` say of them.
* The text of thread names (15 bytes, UTF-8), signals that interrupt a sleep,
  `yield`, the pause hint, NULL arguments, failure of the create functions of locks
  and semaphores (they return NULL and leave nothing), errors of the platform's
  condition variables under `cccondvar.c`, and the build files.
* The examples that only call each function once.

Next would be: nested readers as a second client of `CcRwlock`, and the memory
order of `CcOnce` for the spinlock's flag, so that what is done under the lock is
shown to be visible to the next holder.
