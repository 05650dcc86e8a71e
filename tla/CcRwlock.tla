------------------------------ MODULE CcRwlock ------------------------------
(***************************************************************************)
(* ccrwlock.c: a reader-writer lock with one unlock for both modes.  On    *)
(* POSIX the operating system knows what the caller holds; on Windows      *)
(* SRWLOCK does not, so the writer leaves its thread id in writer_tid and  *)
(* unlock guesses the mode from it, outside of any lock but this one.      *)
(***************************************************************************)
EXTENDS Naturals

CONSTANTS
  Threads,
  NoThread,
  Tid,           \* ccthread_gettid of each thread
  Backends,      \* the platforms considered
  WritersFirst   \* TRUE: the platform holds new readers back while a writer
                 \* waits; FALSE: it lets them in (glibc's default attributes)

ASSUME RwlockAssumption ==
  /\ NoThread \notin Threads
  /\ Tid \in [Threads -> Nat]
  /\ Backends \subseteq {"POSIX", "WINDOWS"}
  /\ WritersFirst \in BOOLEAN

\* The id 0 stands for "no writer" where writer_tid is looked at, on Windows.
\* Ids need not be distinct.
TidsNonzero == "WINDOWS" \in Backends => \A t \in Threads : Tid[t] # 0

VARIABLES
  backend,
  shared,      \* the platform's lock: threads granted shared ownership
  exclusive,   \* the thread granted exclusive ownership, or NoThread
  writer_tid,
  pc,
  reading,     \* threads whose rdlock has returned and that have not unlocked
  writing      \* the same for wrlock

platform == <<shared, exclusive>>
client == <<reading, writing>>
vars == <<backend, platform, writer_tid, pc, client>>

PC == {"idle", "rdlock", "tryrdlock", "wrlock", "trywrlock", "set_writer",
       "unlock", "clear_writer", "release_exclusive", "release_shared"}

TypeOK ==
  /\ backend \in Backends
  /\ shared \subseteq Threads
  /\ exclusive \in Threads \cup {NoThread}
  /\ writer_tid \in Nat
  /\ pc \in [Threads -> PC]
  /\ reading \subseteq Threads /\ writing \subseteq Threads

\* calloc and InitializeSRWLock or pthread_rwlock_init.
Init ==
  /\ backend \in Backends
  /\ shared = {} /\ exclusive = NoThread
  /\ writer_tid = 0
  /\ pc = [t \in Threads |-> "idle"]
  /\ reading = {} /\ writing = {}

Goto(t, from, to) == pc[t] = from /\ pc' = [pc EXCEPT ![t] = to]

---------------------------------------------------------------------------
(* A client takes the lock only when it holds it in neither mode.           *)

Call(t) ==
  /\ t \notin reading \cup writing
  /\ \E op \in {"rdlock", "tryrdlock", "wrlock", "trywrlock"} : Goto(t, "idle", op)
  /\ UNCHANGED <<backend, platform, writer_tid, client>>

\* Mutant: the lock is made with attributes that prefer readers.
ReadersNeverYield == FALSE

\* The lock is made with default attributes: the platform decides.
ReadersYield == WritersFirst /\ \E u \in Threads : pc[u] = "wrlock"

\* Whether the platform grants shared, or exclusive, ownership now.
GrantsShared == exclusive = NoThread /\ ~ReadersYield
GrantsExclusive == exclusive = NoThread /\ shared = {}

\* rdlock returns CCMUTEX_SUCCESS.
Rdlock(t) ==
  /\ GrantsShared
  /\ \E op \in {"rdlock", "tryrdlock"} : Goto(t, op, "idle")
  /\ shared' = shared \cup {t}
  /\ reading' = reading \cup {t}
  /\ UNCHANGED <<backend, exclusive, writer_tid, writing>>

TryrdlockFails(t) ==
  /\ ~GrantsShared
  /\ Goto(t, "tryrdlock", "idle")
  /\ UNCHANGED <<backend, platform, writer_tid, client>>

\* pthread_rwlock_rdlock and pthread_rwlock_tryrdlock report an error of their
\* own although the lock is free for readers: too many of them (EAGAIN).
RdlockFails(t) ==
  /\ backend = "POSIX"
  /\ \E op \in {"rdlock", "tryrdlock"} : Goto(t, op, "idle")
  /\ UNCHANGED <<backend, platform, writer_tid, client>>

\* The platform's part of wrlock and trywrlock; on POSIX they return here.
AcquireExclusive(t) ==
  /\ GrantsExclusive
  /\ exclusive' = t
  /\ \E op \in {"wrlock", "trywrlock"} :
       Goto(t, op, IF backend = "WINDOWS" THEN "set_writer" ELSE "idle")
  /\ writing' = IF backend = "WINDOWS" THEN writing ELSE writing \cup {t}
  /\ UNCHANGED <<backend, shared, writer_tid, reading>>

\* rw->writer_tid = ccthread_gettid(NULL), and return.
SetWriter(t) ==
  /\ Goto(t, "set_writer", "idle")
  /\ writer_tid' = Tid[t]
  /\ writing' = writing \cup {t}
  /\ UNCHANGED <<backend, platform, reading>>

\* Mutant: trywrlock goes on after the platform has refused.
RefusedGoesOn == "set_writer"

\* return CCMUTEX_ERROR
Refused == "idle"

TrywrlockFails(t) ==
  /\ ~GrantsExclusive
  /\ Goto(t, "trywrlock", Refused)
  /\ UNCHANGED <<backend, platform, writer_tid, client>>

---------------------------------------------------------------------------
(* ccrwlock_unlock, called by a thread that holds the lock in some mode.    *)

Unlock(t) ==
  /\ t \in reading \cup writing
  /\ Goto(t, "idle", "unlock")
  /\ reading' = reading \ {t}
  /\ writing' = writing \ {t}
  /\ UNCHANGED <<backend, platform, writer_tid>>

\* rw->writer_tid && rw->writer_tid == ccthread_gettid(NULL)
IsWriter(t) == writer_tid # 0 /\ writer_tid = Tid[t]

\* Mutant: the exclusive lock is given up before writer_tid is cleared.
AfterReleasesFirst(step) ==
  CASE step = "unlock" -> "release_exclusive"
    [] step = "release_exclusive" -> "clear_writer"
    [] step = "clear_writer" -> "idle"

\* The order of the writer's steps in unlock on Windows.
After(step) ==
  CASE step = "unlock" -> "clear_writer"
    [] step = "clear_writer" -> "release_exclusive"
    [] step = "release_exclusive" -> "idle"

TestWriter(t) ==
  /\ backend = "WINDOWS"
  /\ Goto(t, "unlock", IF IsWriter(t) THEN After("unlock") ELSE "release_shared")
  /\ UNCHANGED <<backend, platform, writer_tid, client>>

\* Mutant: the writer's id is left behind.
NoWriterStale == writer_tid

NoWriter == 0

ClearWriter(t) ==
  /\ Goto(t, "clear_writer", After("clear_writer"))
  /\ writer_tid' = NoWriter
  /\ UNCHANGED <<backend, platform, client>>

\* Releasing a mode one does not hold is undefined: anything may follow.
Undefined ==
  /\ shared' \in SUBSET Threads
  /\ exclusive' \in Threads \cup {NoThread}

GiveUpExclusive(t) ==
  IF exclusive = t THEN exclusive' = NoThread /\ UNCHANGED shared ELSE Undefined
GiveUpShared(t) ==
  IF t \in shared THEN shared' = shared \ {t} /\ UNCHANGED exclusive ELSE Undefined

ReleaseExclusive(t) ==
  /\ Goto(t, "release_exclusive", After("release_exclusive"))
  /\ GiveUpExclusive(t)
  /\ UNCHANGED <<backend, writer_tid, client>>

ReleaseShared(t) ==
  /\ Goto(t, "release_shared", "idle")
  /\ GiveUpShared(t)
  /\ UNCHANGED <<backend, writer_tid, client>>

\* pthread_rwlock_unlock: the platform knows the mode.
OsUnlock(t) ==
  /\ backend = "POSIX"
  /\ Goto(t, "unlock", "idle")
  /\ IF exclusive = t THEN GiveUpExclusive(t) ELSE GiveUpShared(t)
  /\ UNCHANGED <<backend, writer_tid, client>>

Step(t) ==
  \/ Rdlock(t) \/ TryrdlockFails(t) \/ AcquireExclusive(t) \/ SetWriter(t) \/ TrywrlockFails(t)
  \/ Unlock(t) \/ TestWriter(t) \/ ClearWriter(t) \/ ReleaseExclusive(t) \/ ReleaseShared(t)
  \/ OsUnlock(t)

Next == \E t \in Threads : Call(t) \/ RdlockFails(t) \/ Step(t)

\* A thread that can go on does, and a holder unlocks.
Fairness == \A t \in Threads : WF_vars(Step(t))

Spec == Init /\ [][Next]_vars
FairSpec == Spec /\ Fairness

\* Even a writer that is sure to notice when the lock is free again and again.
WatchfulSpec == FairSpec /\ \A t \in Threads : SF_vars(AcquireExclusive(t))

---------------------------------------------------------------------------
\* Unlock gives up the mode the caller has, although on Windows all it looks
\* at is a field that other threads write (ccrwlock.c:169-178).
ReleaseMatches ==
  \A t \in Threads :
    /\ pc[t] = "release_exclusive" => exclusive = t
    /\ pc[t] = "release_shared" => t \in shared

\* No reader is inside together with a writer, and no two writers are, from
\* the return of the lock call to the call of unlock (ccmutex.h:204-234).
ReadersOrWriter ==
  /\ writing # {} => reading = {}
  /\ \A t, u \in writing : t = u

\* writer_tid is a plain field.  Only the thread that has the lock exclusively,
\* and keeps it in that step, writes it, and while a thread is about to read it
\* in unlock no other is about to write it (ccrwlock.c:119-126, 169-178).
TidGuarded ==
  writer_tid' # writer_tid => \E t \in Threads : exclusive = t /\ exclusive' = t
ReadsAlone ==
  \A t, u \in Threads :
    pc[t] = "unlock" /\ pc[u] \in {"set_writer", "clear_writer"} => t = u

\* A waiting writer is not starved by a stream of readers (ccrwlock.c:6).
NotStarvedByReaders == (\E t \in Threads : pc[t] = "wrlock") ~> (writing # {})

\* The inductive strengthening.
HoldsExclusive(t) ==
  \/ t \in writing
  \/ pc[t] \in {"set_writer", "clear_writer", "release_exclusive"}
HoldsShared(t) == t \in reading \/ pc[t] = "release_shared"

ThreadInv(t) ==
  /\ exclusive = t => HoldsExclusive(t) \/ pc[t] = "unlock"
  /\ HoldsExclusive(t) => exclusive = t
  /\ t \in shared => HoldsShared(t) \/ pc[t] = "unlock"
  /\ HoldsShared(t) => t \in shared
  /\ pc[t] = "unlock" => exclusive = t \/ t \in shared
  /\ t \in reading \cup writing => pc[t] = "idle"
  /\ backend = "POSIX" =>
       pc[t] \notin {"set_writer", "clear_writer", "release_exclusive", "release_shared"}
  /\ backend = "WINDOWS" /\ exclusive = t =>
       writer_tid = IF pc[t] \in {"set_writer", "release_exclusive"} THEN 0 ELSE Tid[t]

IInv ==
  /\ TypeOK
  /\ exclusive # NoThread => shared = {}
  /\ exclusive = NoThread => writer_tid = 0
  /\ backend = "POSIX" => writer_tid = 0
  /\ \A t \in Threads : ThreadInv(t)

---------------------------------------------------------------------------
Promise == INSTANCE RwLock

\* ccrwlock.c implements a reader-writer lock.
ImplementsRwLock == Promise!Spec
=============================================================================
