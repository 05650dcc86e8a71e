---------------------------- MODULE CcSpinlock ----------------------------
(***************************************************************************)
(* ccspinlock.c: a test-and-set lock whose owner field lets the holder in  *)
(* again.  trylock reads owner_tid twice without holding the lock, plain   *)
(* reads that race with the holder's plain writes: each may return any     *)
(* value another thread has written since this one last synchronised with  *)
(* the lock or wrote the field itself (view).  ccspinlock_create ignores   *)
(* the type it is asked for: every lock is recursive.                      *)
(***************************************************************************)
EXTENDS Naturals

CONSTANTS
  Threads,
  NativeId,  \* the OS's identity of each thread: a 64-bit id or a pointer
  TidSpace,  \* the values of uint32_t: ccthread_gettid keeps NativeId % TidSpace
  MaxDepth   \* bound: levels a client nests

ASSUME SpinlockAssumption ==
  /\ NativeId \in [Threads -> Nat]
  /\ TidSpace \in Nat \ {0}
  /\ MaxDepth \in Nat \ {0}

\* (uint32_t)tid, of the calling thread.
Gettid(t) == NativeId[t] % TidSpace

\* No two live threads share a 32-bit id, and none has the id 0, which stands for
\* "no owner".
TidsDistinct ==
  /\ \A t, u \in Threads : Gettid(t) = Gettid(u) => t = u
  /\ \A t \in Threads : Gettid(t) # 0

VARIABLES
  flag,       \* 0 free, 1 locked
  owner_tid,
  recursion,
  view,       \* the values a racy read of owner_tid by each thread may return
  pc,
  blocking,   \* threads whose current attempt is ccspinlock_lock, not trylock
  depth       \* levels each thread has acquired and not given up

lock == <<flag, owner_tid, recursion, view>>
vars == <<lock, pc, blocking, depth>>

PC == {"idle", "read", "compare", "reenter", "exchange", "owner",
       "recursion", "unlock", "clear", "release"}

TypeOK ==
  /\ flag \in {0, 1}
  /\ owner_tid \in Nat
  /\ recursion \in Nat
  /\ view \in [Threads -> SUBSET Nat]
  /\ pc \in [Threads -> PC]
  /\ blocking \subseteq Threads
  /\ depth \in [Threads -> Nat]

\* calloc zeroes the struct; the type argument is discarded.
Init ==
  /\ flag = 0
  /\ owner_tid = 0
  /\ recursion = 0
  /\ view = [t \in Threads |-> {0}]
  /\ pc = [t \in Threads |-> "idle"]
  /\ blocking = {}
  /\ depth = [t \in Threads |-> 0]

Goto(t, from, to) == pc[t] = from /\ pc' = [pc EXCEPT ![t] = to]

\* A plain store: the writer sees its own value, the others may see it.
WriteOwner(t, tid) ==
  /\ owner_tid' = tid
  /\ view' = [u \in Threads |-> IF u = t THEN {tid} ELSE view[u] \cup {tid}]

Lock(t) ==
  /\ Goto(t, "idle", "read")
  /\ depth[t] < MaxDepth
  /\ blocking' = blocking \cup {t}
  /\ UNCHANGED <<lock, depth>>

Trylock(t) ==
  /\ Goto(t, "idle", "read")
  /\ depth[t] < MaxDepth
  /\ blocking' = blocking \ {t}
  /\ UNCHANGED <<lock, depth>>

\* spin->owner_tid: nobody has it, or somebody has.
ReadOwner(t) ==
  /\ \E tid \in view[t] : Goto(t, "read", IF tid = 0 THEN "exchange" ELSE "compare")
  /\ UNCHANGED <<lock, blocking, depth>>

\* Mutants: any owner lets the caller in; the owner is never recognised.
OwnsAny(t, tid) == tid # 0
OwnsNever(t, tid) == FALSE

Owns(t, tid) == tid = Gettid(t)

\* The second read of the field: spin->owner_tid == ccthread_gettid(NULL).
CompareOwner(t) ==
  /\ \E tid \in view[t] :
       Goto(t, "compare", IF Owns(t, tid) THEN "reenter" ELSE "exchange")
  /\ UNCHANGED <<lock, blocking, depth>>

Reenter(t) ==
  /\ Goto(t, "reenter", "idle")
  /\ recursion' = recursion + 1
  /\ depth' = [depth EXCEPT ![t] = @ + 1]
  /\ UNCHANGED <<flag, owner_tid, view, blocking>>

\* The acquiring exchange that finds 0 sees everything the last holder wrote.
\* A failed one sends ccspinlock_lock back to try again; trylock gives up.
Exchange(t) ==
  /\ flag' = 1
  /\ \/ /\ flag = 0
        /\ Goto(t, "exchange", "owner")
        /\ view' = [view EXCEPT ![t] = {owner_tid}]
     \/ /\ flag = 1
        /\ Goto(t, "exchange", IF t \in blocking THEN "read" ELSE "idle")
        /\ UNCHANGED view
  /\ UNCHANGED <<owner_tid, recursion, blocking, depth>>

SetOwner(t) ==
  /\ Goto(t, "owner", "recursion")
  /\ WriteOwner(t, Gettid(t))
  /\ UNCHANGED <<flag, recursion, blocking, depth>>

SetRecursion(t) ==
  /\ Goto(t, "recursion", "idle")
  /\ recursion' = 1
  /\ depth' = [depth EXCEPT ![t] = @ + 1]
  /\ UNCHANGED <<flag, owner_tid, view, blocking>>

\* The precondition of the API: the caller holds the lock.
Unlock(t) ==
  /\ Goto(t, "idle", "unlock")
  /\ depth[t] > 0
  /\ depth' = [depth EXCEPT ![t] = @ - 1]
  /\ UNCHANGED <<lock, blocking>>

\* Mutants: the flag is freed one level early, or one level late.
NestedEarly == recursion > 2
NestedLate == recursion > 0

Nested == recursion > 1

UnlockNested(t) ==
  /\ Goto(t, "unlock", "idle")
  /\ Nested
  /\ recursion' = recursion - 1
  /\ UNCHANGED <<flag, owner_tid, view, blocking, depth>>

UnlockLast(t) ==
  /\ Goto(t, "unlock", "clear")
  /\ ~Nested
  /\ WriteOwner(t, 0)
  /\ UNCHANGED <<flag, recursion, blocking, depth>>

ClearRecursion(t) ==
  /\ Goto(t, "clear", "release")
  /\ recursion' = 0
  /\ UNCHANGED <<flag, owner_tid, view, blocking, depth>>

Release(t) ==
  /\ Goto(t, "release", "idle")
  /\ flag' = 0
  /\ UNCHANGED <<owner_tid, recursion, view, blocking, depth>>

Call(t) == Lock(t) \/ Trylock(t)

Step(t) ==
  \/ ReadOwner(t) \/ CompareOwner(t) \/ Reenter(t)
  \/ Exchange(t) \/ SetOwner(t) \/ SetRecursion(t)
  \/ Unlock(t) \/ UnlockNested(t) \/ UnlockLast(t) \/ ClearRecursion(t) \/ Release(t)

Next == \E t \in Threads : Call(t) \/ Step(t)

\* A thread inside a call keeps running, and a holder gives the lock back.
Fairness == \A t \in Threads : WF_vars(Step(t))

Spec == Init /\ [][Next]_vars
FairSpec == Spec /\ Fairness

---------------------------------------------------------------------------
\* A thread that has taken the flag and not yet given it back.
Acquiring(t) == pc[t] \in {"owner", "recursion"}
Releasing(t) == pc[t] \in {"unlock", "clear", "release"}
Holds(t) == depth[t] > 0 \/ Acquiring(t) \/ Releasing(t) \/ pc[t] = "reenter"

\* Two threads are never inside the lock at once, although the owner test of
\* trylock reads the field without synchronising (ccspinlock.c:53-64).
MutualExclusion ==
  \A t, u \in Threads : Holds(t) /\ Holds(u) => t = u

\* The re-entry count is the number of levels the client holds, so the last
\* unlock, and only the last, frees the flag (ccspinlock.c:92-101).
DepthTracked ==
  \A t \in Threads : depth[t] > 0 /\ pc[t] = "idle" =>
    flag = 1 /\ owner_tid = Gettid(t) /\ recursion = depth[t]

\* A holder that locks again never spins on its own flag, whatever type the lock
\* was asked for (ccspinlock.c:40, 54).
NoSelfDeadlock ==
  \A t \in Threads : depth[t] > 0 => pc[t] # "exchange"

\* While a thread spins in ccspinlock_lock some thread gets in: the flag is
\* never left set with nobody behind it (ccspinlock.c:73-81, 92-101).
SomeoneGetsIn ==
  (\E t \in blocking : pc[t] \in {"read", "compare", "exchange"}) ~> (\E t \in Threads : depth[t] > 0)

\* owner_tid and recursion are plain fields: only the thread that has the flag,
\* and still has it after the step, writes them, and every other thread is
\* outside of the lock (ccspinlock.c:54-64, 92-101).
FieldsGuarded ==
  owner_tid' # owner_tid \/ recursion' # recursion =>
    \E t \in Threads :
      flag = 1 /\ flag' = 1 /\ Holds(t) /\ \A u \in Threads \ {t} : ~Holds(u) /\ ~Holds(u)'

\* FieldsGuarded of every step: the counting of nested levels without the flag's
\* protocol never meets another thread's (ccspinlock.c:54-64, 92-101).
FieldsOwned == [][FieldsGuarded]_vars

\* The flag is freed by its holder only, when that has given up every level.
FreedByHolder ==
  flag = 1 /\ flag' = 0 =>
    \E t \in Threads : Holds(t) /\ depth[t] = 0 /\ ~Holds(t)'

\* The inductive strengthening: a thread reads its own id exactly when it is the
\* owner, whatever else the racy reads may return.
IInv ==
  /\ TypeOK
  /\ MutualExclusion
  /\ NoSelfDeadlock
  /\ flag = 1 <=> \E t \in Threads : Holds(t)
  /\ flag = 0 => owner_tid = 0
  /\ \A t \in Threads :
       /\ pc[t] = "reenter" => depth[t] > 0
       /\ Acquiring(t) \/ pc[t] \in {"clear", "release"} => depth[t] = 0
       /\ pc[t] \in {"owner", "clear", "release"} => owner_tid = 0
       /\ pc[t] = "recursion" => owner_tid = Gettid(t)
       /\ pc[t] = "unlock" => recursion = depth[t] + 1 /\ owner_tid = Gettid(t)
       /\ depth[t] > 0 => owner_tid = Gettid(t)
       /\ depth[t] > 0 /\ ~Releasing(t) => recursion = depth[t]
       /\ IF owner_tid = Gettid(t)
          THEN view[t] = {Gettid(t)}
          ELSE Gettid(t) \notin view[t]

---------------------------------------------------------------------------
Promise == INSTANCE ReentrantLock

\* The spinlock implements a reentrant lock.
ImplementsLock == Promise!Spec
===========================================================================
