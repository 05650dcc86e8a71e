------------------------------ MODULE CcThread ------------------------------
(***************************************************************************)
(* The life of a created thread's heap struct (ccthread.c): its consumer,  *)
(* inside ccthread_create and then ccthread_join or ccthread_detach, runs  *)
(* against its worker, inside ccthread_wrapper or ccthread_exit.  A        *)
(* detached struct is freed by whichever side wins cleanup_claimed.  Every *)
(* atomic access is a step; release stores go through a store buffer.      *)
(***************************************************************************)
EXTENDS Naturals

CONSTANTS
  Handles,      \* created threads, each with one consumer
  Results,      \* values a thread function may return
  Null,         \* the one of them calloc leaves in the struct
  Backends,     \* the platforms considered: "POSIX", "WINDOWS"
  Fenced,       \* TRUE: a full barrier follows a release store (MSVC, AArch64
                \* RCsc); FALSE: it is a plain store (GCC and Clang on x86)
  FreedMemory,  \* "intact": a freed struct stays as it is; "reused": it holds
                \* anything, and calloc may hand its block out again
  HandleFirst,  \* TRUE: pthread_create stores the handle before the thread
                \* runs (glibc); FALSE: at some time before it returns
  OsMayFail,    \* TRUE: waiting for or detaching the OS thread may fail
  EarlyDetach   \* backends on which a thread may detach itself while its creator
                \* is still inside ccthread_create

ASSUME ThreadAssumption ==
  /\ Null \in Results
  /\ Backends \subseteq {"POSIX", "WINDOWS"}
  /\ Fenced \in BOOLEAN
  /\ FreedMemory \in {"intact", "reused"}
  /\ HandleFirst \in BOOLEAN /\ OsMayFail \in BOOLEAN
  /\ EarlyDetach \subseteq Backends
  /\ "POSIX" \in EarlyDetach => HandleFirst  \* no detach of an unwritten pthread_t

VARIABLES
  backend,   \* the platform this program was built for
  \* The struct: 0/1 fields as memory holds them, and the OS handle.
  detached, joined, finished, cleanup_claimed, result, handle,
  pending,   \* release stores still in their writer's store buffer
  at,        \* the handle whose struct now lies where each handle points
  creator,   \* what ccthread_create has left to do with each handle
  cpc, wpc,  \* where the consumer and the worker of each handle are
  ret,       \* what the thread function returned or passed to ccthread_exit
  out,       \* what ccthread_join handed to its caller
  frees,     \* history: times the struct has been freed
  closes     \* history: times the OS handle was joined, detached or closed

flags == <<detached, joined, finished, cleanup_claimed>>
struct == <<flags, result, handle>>
memory == <<struct, pending, at>>
history == <<ret, out, frees, closes>>
vars == <<memory, creator, cpc, wpc, history>>
allvars == <<backend, vars>>

ConsumerPC ==
  {"new", "null", "spawn", "ready",
   "wait", "take", "mark", "free", "joined",
   "os_detach", "clear", "store", "load", "claim", "reclaim", "detached"}
WorkerPC ==
  {"none", "start", "func", "result", "store", "load", "claim", "reclaim", "exit",
   "gone"}

TypeOK ==
  /\ backend \in Backends
  /\ detached \in [Handles -> {0, 1}] /\ joined \in [Handles -> {0, 1}]
  /\ finished \in [Handles -> {0, 1}] /\ cleanup_claimed \in [Handles -> {0, 1}]
  /\ result \in [Handles -> Results] /\ ret \in [Handles -> Results]
  /\ out \in [Handles -> Results]
  /\ handle \in [Handles -> {"null", "set"}]
  /\ pending \subseteq Handles \X {"detached", "finished"}
  /\ at \in [Handles -> Handles]
  /\ creator \in [Handles -> {"idle", "assign", "test"}]
  /\ cpc \in [Handles -> ConsumerPC] /\ wpc \in [Handles -> WorkerPC]
  /\ frees \in [Handles -> Nat] /\ closes \in [Handles -> Nat]

\* No struct exists yet; what calloc and create will put in it.
Init ==
  /\ backend \in Backends
  /\ detached = [h \in Handles |-> 0] /\ joined = [h \in Handles |-> 0]
  /\ finished = [h \in Handles |-> 0] /\ cleanup_claimed = [h \in Handles |-> 0]
  /\ handle = [h \in Handles |-> "null"]
  /\ pending = {}
  /\ at = [h \in Handles |-> h]
  /\ creator = [h \in Handles |-> "idle"]
  /\ cpc = [h \in Handles |-> "new"] /\ wpc = [h \in Handles |-> "none"]
  /\ frees = [h \in Handles |-> 0] /\ closes = [h \in Handles |-> 0]
  /\ result = [h \in Handles |-> Null] /\ ret = result /\ out = result

ConsumerGoes(h, from, to) == cpc[h] = from /\ cpc' = [cpc EXCEPT ![h] = to]
WorkerGoes(h, from, to) == wpc[h] = from /\ wpc' = [wpc EXCEPT ![h] = to]
CreatorGoes(h, from, to) == creator[h] = from /\ creator' = [creator EXCEPT ![h] = to]

\* h points to a block that has been freed and may hold anything.
Lost(h) == FreedMemory = "reused" /\ frees[at[h]] > 0

\* What a read of a field of type values may return, and a write to it.  All
\* accesses of a struct go through the pointer h to what is there now.
Read(h, field, values) == IF Lost(h) THEN values ELSE {field[at[h]]}
Write(h, field, value) == [field EXCEPT ![at[h]] = value]

Flag == {0, 1}
OsValue == {"null", "set"}

Free(h) == frees' = [frees EXCEPT ![at[h]] = @ + 1]
Close(h) == closes' = [closes EXCEPT ![at[h]] = @ + 1]

\* A buffered store may be overtaken by its own thread's next load, unless a
\* barrier separates them; an exchange always waits for it.
Drained(h, field) == <<h, field>> \notin pending
Fence(h, field) == Fenced => Drained(h, field)

---------------------------------------------------------------------------
(* ccthread_create.                                                         *)

\* The new struct may take the block of a freed one.
Calloc(h) ==
  /\ ConsumerGoes(h, "new", "spawn")
  /\ \/ UNCHANGED at
     \/ \E g \in Handles :
          Lost(g) /\ at' = [x \in Handles |-> IF at[x] = at[g] THEN h ELSE at[x]]
  /\ UNCHANGED <<struct, pending, creator, wpc, history>>

CallocFails(h) ==
  /\ ConsumerGoes(h, "new", "null")
  /\ UNCHANGED <<memory, creator, wpc, history>>

\* Whether the new thread finds thread->handle already stored.
StoredFirst == HandleFirst /\ backend = "POSIX"

\* pthread_create or CreateThread: the worker runs from here on.
Spawn(h) ==
  /\ ConsumerGoes(h, "spawn", "ready")
  /\ WorkerGoes(h, "none", "start")
  /\ CreatorGoes(h, "idle", "assign")
  /\ handle' = IF StoredFirst THEN Write(h, handle, "set") ELSE handle
  /\ UNCHANGED <<flags, result, pending, at, history>>

SpawnFails(h) ==
  /\ ConsumerGoes(h, "spawn", "null")
  /\ Free(h)
  /\ UNCHANGED <<memory, creator, wpc, ret, out, closes>>

\* pthread_create returns, having stored the handle by now; on Windows the
\* value CreateThread returned is stored by its caller.
AssignHandle(h) ==
  /\ CreatorGoes(h, "assign", IF backend = "WINDOWS" THEN "test" ELSE "idle")
  /\ handle' = IF StoredFirst THEN handle ELSE Write(h, handle, "set")
  /\ UNCHANGED <<flags, result, pending, at, cpc, wpc, history>>

\* if (!thread->handle) free(thread), on Windows.
TestHandle(h) ==
  /\ CreatorGoes(h, "test", "idle")
  /\ \E value \in Read(h, handle, OsValue) :
       IF value = "null" THEN Free(h) ELSE UNCHANGED frees
  /\ UNCHANGED <<memory, cpc, wpc, ret, out, closes>>

---------------------------------------------------------------------------
(* ccthread_wrapper and ccthread_exit.                                      *)

\* Reads func and arg, writes the TLS pointer and tid, enters func.
Start(h) ==
  /\ WorkerGoes(h, "start", "func")
  /\ UNCHANGED <<memory, creator, cpc, history>>

\* func returns v, or calls ccthread_exit(v) at any depth.
FuncReturns(h) ==
  /\ WorkerGoes(h, "func", "result")
  /\ \E v \in Results : ret' = [ret EXCEPT ![h] = v]
  /\ UNCHANGED <<memory, creator, cpc, out, frees, closes>>

StoreResult(h) ==
  /\ WorkerGoes(h, "result", "store")
  /\ result' = Write(h, result, ret[h])
  /\ UNCHANGED <<flags, handle, pending, at, creator, cpc, history>>

StoreFinished(h) ==
  /\ WorkerGoes(h, "store", "load")
  /\ pending' = pending \cup {<<h, "finished">>}
  /\ UNCHANGED <<struct, at, creator, cpc, history>>

\* Mutant: the wrapper reclaims without looking for a detach.
AfterFinishBlind(d) == "claim"

AfterFinish(d) == IF d = 1 THEN "claim" ELSE "exit"

LoadDetached(h) ==
  /\ Fence(h, "finished")
  /\ \E d \in Read(h, detached, Flag) : WorkerGoes(h, "load", AfterFinish(d))
  /\ UNCHANGED <<memory, creator, cpc, history>>

\* Mutant: the value the exchange returned is ignored.
WinsAlways(old) == TRUE

\* Whoever turns cleanup_claimed from 0 to 1 frees the struct.
Wins(old) == old = 0

WorkerClaims(h) ==
  /\ Drained(h, "finished")
  /\ \E old \in Read(h, cleanup_claimed, Flag) :
       WorkerGoes(h, "claim", IF Wins(old) THEN "reclaim" ELSE "exit")
  /\ cleanup_claimed' = Write(h, cleanup_claimed, 1)
  /\ UNCHANGED <<detached, joined, finished, result, handle, pending, at, creator, cpc, history>>

\* if (thread->handle) CloseHandle(thread->handle), on Windows; then free.
WorkerReclaims(h) ==
  /\ WorkerGoes(h, "reclaim", "exit")
  /\ \E value \in Read(h, handle, OsValue) :
       IF backend = "WINDOWS" /\ value = "set" THEN Close(h) ELSE UNCHANGED closes
  /\ Free(h)
  /\ UNCHANGED <<memory, creator, cpc, ret, out>>

\* The thread ends: the system calls it makes empty its store buffer.
Exit(h) ==
  /\ WorkerGoes(h, "exit", "gone")
  /\ Drained(h, "finished")
  /\ UNCHANGED <<memory, creator, cpc, history>>

---------------------------------------------------------------------------
(* ccthread_join and ccthread_detach.  A client that consumes a created     *)
(* handle once passes the joined/detached/is_self test of both.             *)

Consumable(h) == 0 \in Read(h, detached, Flag) /\ 0 \in Read(h, joined, Flag)

Join(h) ==
  /\ ConsumerGoes(h, "ready", "wait")
  /\ creator[h] = "idle"
  /\ Consumable(h)
  /\ UNCHANGED <<memory, creator, wpc, history>>

\* Mutants: a join that trusts the finished flag, or waits on another one.
WaitOverAtFinished(h) == finished[at[h]] = 1
WaitOverAtJoined(h) == joined[at[h]] = 1

\* pthread_join or WaitForSingleObject returns when the OS thread has ended.
WaitOver(h) == wpc[at[h]] = "gone"

\* pthread_join also gives the OS handle back.
Wait(h) ==
  /\ ConsumerGoes(h, "wait", "take")
  /\ WaitOver(h)
  /\ IF backend = "POSIX" THEN Close(h) ELSE UNCHANGED closes
  /\ UNCHANGED <<memory, creator, wpc, ret, out, frees>>

\* Nothing consumed: the caller gets CCTHREAD_ERROR and still has the handle.
WaitFails(h) ==
  /\ OsMayFail
  /\ ConsumerGoes(h, "wait", "ready")
  /\ UNCHANGED <<memory, creator, wpc, history>>

\* *result = thread->result; on Windows CloseHandle and handle = NULL.
TakeResult(h) ==
  /\ ConsumerGoes(h, "take", "mark")
  /\ \E value \in Read(h, result, Results) : out' = [out EXCEPT ![h] = value]
  /\ IF backend = "WINDOWS"
     THEN Close(h) /\ handle' = Write(h, handle, "null")
     ELSE UNCHANGED <<closes, handle>>
  /\ UNCHANGED <<flags, result, pending, at, creator, wpc, ret, frees>>

StoreJoined(h) ==
  /\ ConsumerGoes(h, "mark", "free")
  /\ joined' = Write(h, joined, 1)
  /\ UNCHANGED <<detached, finished, cleanup_claimed, result, handle, pending, at, creator, wpc, history>>

FreeJoined(h) ==
  /\ ConsumerGoes(h, "free", "joined")
  /\ Free(h)
  /\ UNCHANGED <<memory, creator, wpc, ret, out, closes>>

\* By the creator once it has the handle; or by the thread itself, through
\* ccthread_self, as soon as its function runs.
Detach(h) ==
  /\ ConsumerGoes(h, "ready", "os_detach")
  /\ creator[h] = "idle" \/ (backend \in EarlyDetach /\ wpc[h] = "func")
  /\ Consumable(h)
  /\ UNCHANGED <<memory, creator, wpc, history>>

\* Mutant: the handle field is not cleared after CloseHandle.
HandleAfterCloseStale == "set"

HandleAfterClose == "null"

\* pthread_detach or CloseHandle; closing NULL does nothing.
OsDetach(h) ==
  /\ ConsumerGoes(h, "os_detach", IF backend = "WINDOWS" THEN "clear" ELSE "store")
  /\ \E value \in Read(h, handle, OsValue) :
       IF value = "set" THEN Close(h) ELSE UNCHANGED closes
  /\ UNCHANGED <<memory, creator, wpc, ret, out, frees>>

\* On Windows the closed handle stays in the struct until here.
ClearHandle(h) ==
  /\ ConsumerGoes(h, "clear", "store")
  /\ handle' = Write(h, handle, HandleAfterClose)
  /\ UNCHANGED <<flags, result, pending, at, creator, wpc, history>>

\* Only pthread_detach reports failure.
OsDetachFails(h) ==
  /\ OsMayFail /\ backend = "POSIX"
  /\ ConsumerGoes(h, "os_detach", "ready")
  /\ UNCHANGED <<memory, creator, wpc, history>>

StoreDetached(h) ==
  /\ ConsumerGoes(h, "store", "load")
  /\ pending' = pending \cup {<<h, "detached">>}
  /\ UNCHANGED <<struct, at, creator, wpc, history>>

\* Mutants: detach does not look whether the worker has already exited, or
\* claims the struct in any case.
AfterDetachBlind(f) == "detached"
AfterDetachEager(f) == "claim"

AfterDetach(f) == IF f = 1 THEN "claim" ELSE "detached"

LoadFinished(h) ==
  /\ Fence(h, "detached")
  /\ \E f \in Read(h, finished, Flag) : ConsumerGoes(h, "load", AfterDetach(f))
  /\ UNCHANGED <<memory, creator, wpc, history>>

ConsumerClaims(h) ==
  /\ Drained(h, "detached")
  /\ \E old \in Read(h, cleanup_claimed, Flag) :
       ConsumerGoes(h, "claim", IF Wins(old) THEN "reclaim" ELSE "detached")
  /\ cleanup_claimed' = Write(h, cleanup_claimed, 1)
  /\ UNCHANGED <<detached, joined, finished, result, handle, pending, at, creator, wpc, history>>

ConsumerReclaims(h) ==
  /\ ConsumerGoes(h, "reclaim", "detached")
  /\ Free(h)
  /\ UNCHANGED <<memory, creator, wpc, ret, out, closes>>

---------------------------------------------------------------------------
(* The store buffers reach memory.                                          *)

DrainDetached(h) ==
  /\ <<h, "detached">> \in pending
  /\ pending' = pending \ {<<h, "detached">>}
  /\ detached' = Write(h, detached, 1)
  /\ UNCHANGED <<joined, finished, cleanup_claimed, result, handle, at, creator, cpc, wpc, history>>

DrainFinished(h) ==
  /\ <<h, "finished">> \in pending
  /\ pending' = pending \ {<<h, "finished">>}
  /\ finished' = Write(h, finished, 1)
  /\ UNCHANGED <<detached, joined, cleanup_claimed, result, handle, at, creator, cpc, wpc, history>>

Create(h) ==
  \/ Calloc(h) \/ CallocFails(h) \/ Spawn(h) \/ SpawnFails(h)
  \/ AssignHandle(h) \/ TestHandle(h)

Worker(h) ==
  \/ Start(h) \/ FuncReturns(h) \/ StoreResult(h) \/ StoreFinished(h) \/ LoadDetached(h)
  \/ WorkerClaims(h) \/ WorkerReclaims(h) \/ Exit(h)

InJoin(h) ==
  Wait(h) \/ WaitFails(h) \/ TakeResult(h) \/ StoreJoined(h) \/ FreeJoined(h)

InDetach(h) ==
  \/ OsDetach(h) \/ OsDetachFails(h) \/ ClearHandle(h) \/ StoreDetached(h) \/ LoadFinished(h)
  \/ ConsumerClaims(h) \/ ConsumerReclaims(h)

Drain(h) == DrainDetached(h) \/ DrainFinished(h)

Next ==
  /\ \E h \in Handles :
       Create(h) \/ Worker(h) \/ Join(h) \/ InJoin(h) \/ Detach(h) \/ InDetach(h) \/ Drain(h)
  /\ UNCHANGED backend

\* Running threads are scheduled, functions return, buffers drain.  Whether a
\* client joins, detaches or does neither is its own choice, and no wait has
\* to fail.
Fairness ==
  \A h \in Handles :
    /\ WF_vars(Worker(h))
    /\ WF_vars(Wait(h) \/ TakeResult(h) \/ StoreJoined(h) \/ FreeJoined(h) \/ InDetach(h))
    /\ WF_vars(Drain(h))

Spec == Init /\ [][Next]_allvars
FairSpec == Spec /\ Fairness

---------------------------------------------------------------------------
Detaching(h) == cpc[h] \in {"store", "load", "claim", "reclaim", "detached"}

\* The struct of a thread is freed at most once, whichever of the wrapper, the
\* detaching thread and the joining thread gets there (ccthread.c:153-165,
\* 293-300).
FreedAtMostOnce == \A h \in Handles : frees[h] <= 1

\* The OS handle is joined, detached or closed at most once, and exactly once
\* by the time the consumer is through (ccthread.c:158-162, 241-256, 279-290).
HandleReleasedOnce ==
  \A h \in Handles :
    /\ closes[h] <= 1
    /\ cpc[h] \in {"joined", "detached"} => closes[h] = 1

\* A successful join hands over exactly what the function returned, and the
\* struct is freed only after the thread that writes it has ended
\* (ccthread.c:240-264).
JoinDelivers ==
  \A h \in Handles :
    cpc[h] \in {"mark", "free", "joined"} => out[h] = ret[h] /\ wpc[h] = "gone"

\* Where an access to the struct comes next.
ConsumerTouches(h) == cpc[h] \in {"ready", "wait", "take", "mark", "free",
                                  "os_detach", "clear", "store", "load", "claim",
                                  "reclaim"}
CreatorTouches(h) == creator[h] = "test" \/ (creator[h] = "assign" /\ ~StoredFirst)
WorkerTouches(h) == wpc[h] \in {"start", "result", "store", "load", "claim", "reclaim"}

\* As long as the client has not published a detach, both sides find the
\* struct allocated whenever they are about to use it, and so does
\* ccthread_create in any case (ccthread.c:198-226, 239-265).
StructOutlivesJoin ==
  \A h \in Handles :
    /\ ~Detaching(h) /\ (ConsumerTouches(h) \/ WorkerTouches(h)) => frees[h] = 0
    /\ CreatorTouches(h) => frees[h] = 0

\* A thread's own struct is there as long as its function runs: what
\* ccthread_self returned is good until the function ends, even when the thread
\* has detached itself before its creator returned (ccthread.c:138, 292-303, 378).
SelfLive == \A h \in Handles : wpc[h] = "func" => frees[h] = 0

\* When detach has returned, the thread has ended and every store has reached
\* memory, somebody has freed the struct: the two flag tests cannot both miss
\* (ccthread.c:153, 296).
DetachedReclaimed ==
  \A h \in Handles :
    /\ cpc[h] = "detached" /\ wpc[h] = "gone"
    /\ Drained(h, "detached") /\ Drained(h, "finished")
    => frees[h] = 1

\* A join returns once the thread's function is over: with the result, or
\* with an error and the handle still the caller's (ccthread.c:239-265).
JoinReturns == \A h \in Handles : (cpc[h] = "wait") ~> (cpc[h] \in {"joined", "ready"})

\* A detached thread's struct is freed once its function is over
\* (ccthread.c:152-165, 292-303).
DetachReclaims == \A h \in Handles : (cpc[h] = "store") ~> (frees[h] = 1)

\* The inductive strengthening, handle by handle.
Started(h) == cpc[h] \notin {"new", "null", "spawn"}
Published(h) == Detaching(h) /\ cpc[h] # "store"
HasFinished(h) == wpc[h] \in {"load", "claim", "reclaim", "exit", "gone"}

\* Who has got how far, and what the flags in memory or in flight say of it.
Progress(h) ==
  /\ wpc[h] # "none" <=> Started(h)
  /\ detached[h] = 1 <=> Published(h) /\ Drained(h, "detached")
  /\ finished[h] = 1 <=> HasFinished(h) /\ Drained(h, "finished")
  /\ ~Drained(h, "detached") => Published(h)
  /\ ~Drained(h, "finished") => HasFinished(h)
  /\ wpc[h] \in {"claim", "reclaim"} => detached[h] = 1
  /\ wpc[h] = "gone" => Drained(h, "finished")
  /\ cpc[h] \in {"claim", "reclaim"} => finished[h] = 1
  /\ cpc[h] \in {"take", "mark", "free", "joined"} => wpc[h] = "gone"

\* cleanup_claimed stands for exactly one free, done or about to be done.
ClaimedOnce(h) ==
  /\ cleanup_claimed[h] = 1 => detached[h] = 1 /\ finished[h] = 1
  /\ cpc[h] = "reclaim" => wpc[h] # "reclaim" /\ frees[h] = 0
  /\ wpc[h] = "reclaim" => frees[h] = 0
  /\ cpc[h] = "reclaim" \/ wpc[h] = "reclaim" => cleanup_claimed[h] = 1
  /\ Started(h) /\ cpc[h] # "joined" /\ cleanup_claimed[h] = 0 => frees[h] = 0
  /\ cleanup_claimed[h] = 1 /\ cpc[h] # "reclaim" /\ wpc[h] # "reclaim" => frees[h] = 1
  /\ cpc[h] = "joined" => frees[h] = 1
  /\ cpc[h] \in {"new", "spawn"} => frees[h] = 0
  /\ cpc[h] = "null" => frees[h] <= 1

Values(h) ==
  /\ HasFinished(h) \/ wpc[h] = "store" => result[h] = ret[h]
  /\ cpc[h] \in {"mark", "free", "joined"} => out[h] = ret[h]
  /\ cpc[h] = "clear" => backend = "WINDOWS"
  /\ closes[h] =
       IF cpc[h] \in {"clear", "mark", "free", "joined"} \/ Detaching(h)
          \/ (cpc[h] = "take" /\ backend = "POSIX")
       THEN 1 ELSE 0

\* Who has written the OS handle.
HandleStored(h) ==
  /\ backend = "WINDOWS" /\ Detaching(h) => handle[h] = "null"
  /\ ~Started(h) => handle[h] = "null"
  /\ StoredFirst /\ Started(h) => handle[h] = "set"
  /\ creator[h] # "idle" => cpc[h] = "ready" \/ (StoredFirst /\ Started(h))
  /\ creator[h] = "test" => backend = "WINDOWS" /\ handle[h] = "set"
  /\ creator[h] = "assign" /\ backend = "WINDOWS" => handle[h] = "null"
  /\ creator[h] = "idle" /\ cpc[h] \in {"ready", "wait", "os_detach"} => handle[h] = "set"

\* With barriers, neither side can miss the other's flag.
NobodyMissed(h) ==
  /\ wpc[h] \in {"claim", "reclaim", "exit", "gone"} => finished[h] = 1
  /\ cpc[h] \in {"claim", "reclaim", "detached"} => detached[h] = 1
  /\ wpc[h] \in {"exit", "gone"} /\ cpc[h] = "detached" => cleanup_claimed[h] = 1

HandleInv(h) ==
  /\ Progress(h) /\ ClaimedOnce(h) /\ Values(h) /\ HandleStored(h)
  /\ Fenced => NobodyMissed(h)

\* A pointer leads to its own struct as long as that has not been freed.
Placed(h) == FreedMemory = "intact" \/ frees[h] = 0 => at[h] = h

IInv == TypeOK /\ \A h \in Handles : Placed(h) /\ HandleInv(h)

\* Neither side of a detach race comes to its load or its exchange only after
\* the other one has freed the struct; else the code is safe only if freed
\* memory keeps what was in it.
NoLateClaim ==
  \A h \in Handles :
    frees[h] > 0 => cpc[h] \notin {"load", "claim"} /\ wpc[h] \notin {"load", "claim"}

Undisturbed == FreedMemory = "intact" \/ NoLateClaim

\* Windows stores the handle only after CreateThread has started the thread.
HandleBeforeDetach == "WINDOWS" \notin EarlyDetach

---------------------------------------------------------------------------
\* What each thread, client and struct are to the promise.
ThreadIs(h) ==
  CASE wpc[h] = "none" -> "none"
    [] HasFinished(h) -> "done"
    [] OTHER -> "running"
ClientIs(h) ==
  CASE ~Started(h) -> "none"
    [] cpc[h] = "joined" -> "joined"
    [] Published(h) -> "detached"
    [] OTHER -> "owns"
StructIs(h) ==
  IF frees[h] # 0 THEN "reclaimed"
  ELSE IF cpc[h] \in {"new", "null"} THEN "none" ELSE "live"

ThreadMap == [h \in Handles |-> ThreadIs(h)]
ClientMap == [h \in Handles |-> ClientIs(h)]
StructMap == [h \in Handles |-> StructIs(h)]

Promise ==
  INSTANCE ThreadHandle WITH thread <- ThreadMap, client <- ClientMap, struct <- StructMap

\* The code keeps the promise of ThreadHandle (ccthread.c:125-304).
ImplementsHandle == Promise!Spec
=============================================================================
