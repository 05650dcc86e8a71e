------------------------- MODULE CcSpinlock_proofs -------------------------
(* Proofs about the recursive spinlock: for any number of threads and any   *)
(* depth, provided the 32-bit ids of live threads are distinct and not 0.   *)
(* Gettid is never expanded: only TidsDistinct is used of it.               *)
EXTENDS CcSpinlock, TLAPS

(* A thread id is a natural number.                                         *)
LEMMA GettidType == ASSUME NEW t \in Threads PROVE Gettid(t) \in Nat
  BY SpinlockAssumption DEF Gettid

(* The invariant holds when the lock has been created.                      *)
LEMMA InitIInv == TidsDistinct /\ Init => IInv
  BY GettidType DEF TidsDistinct, Init, IInv, TypeOK, MutualExclusion,
     NoSelfDeadlock, Holds, Acquiring, Releasing, PC

(* One step per action.  The racy reads are harmless because a thread's own *)
(* id is in its view exactly when it is the current owner.                  *)
LEMMA StepIInv == TidsDistinct /\ IInv /\ [Next]_vars => IInv'
<1> SUFFICES ASSUME TidsDistinct, IInv, [Next]_vars PROVE IInv'
  OBVIOUS
<1> USE GettidType
<1> USE DEF TidsDistinct, IInv, TypeOK, MutualExclusion, NoSelfDeadlock, Holds,
            Acquiring, Releasing, PC, Goto, lock
<1>1. ASSUME NEW t \in Threads, Lock(t) PROVE IInv'
  BY <1>1 DEF Lock
<1>2. ASSUME NEW t \in Threads, Trylock(t) PROVE IInv'
  BY <1>2 DEF Trylock
<1>3. ASSUME NEW t \in Threads, ReadOwner(t) PROVE IInv'
  BY <1>3 DEF ReadOwner
<1>4. ASSUME NEW t \in Threads, CompareOwner(t) PROVE IInv'
  BY <1>4 DEF CompareOwner, Owns
<1>5. ASSUME NEW t \in Threads, Reenter(t) PROVE IInv'
  BY <1>5 DEF Reenter
<1>6. ASSUME NEW t \in Threads, Exchange(t) PROVE IInv'
  BY <1>6 DEF Exchange
<1>7. ASSUME NEW t \in Threads, SetOwner(t) PROVE IInv'
  BY <1>7 DEF SetOwner, WriteOwner
<1>8. ASSUME NEW t \in Threads, SetRecursion(t) PROVE IInv'
  BY <1>8 DEF SetRecursion
<1>9. ASSUME NEW t \in Threads, Unlock(t) PROVE IInv'
  BY <1>9 DEF Unlock
<1>10. ASSUME NEW t \in Threads, UnlockNested(t) PROVE IInv'
  BY <1>10 DEF UnlockNested, Nested
<1>11. ASSUME NEW t \in Threads, UnlockLast(t) PROVE IInv'
  BY <1>11 DEF UnlockLast, Nested, WriteOwner
<1>12. ASSUME NEW t \in Threads, ClearRecursion(t) PROVE IInv'
  BY <1>12 DEF ClearRecursion
<1>13. ASSUME NEW t \in Threads, Release(t) PROVE IInv'
  BY <1>13 DEF Release
<1>14. CASE UNCHANGED vars
  BY <1>14 DEF vars
<1>15. QED
  BY <1>1, <1>2, <1>3, <1>4, <1>5, <1>6, <1>7, <1>8, <1>9, <1>10, <1>11, <1>12, <1>13, <1>14
     DEF Next, Call, Step

(* The strengthening is an invariant of the recursive spinlock.             *)
THEOREM SpinInvariant == ASSUME TidsDistinct PROVE Spec => []IInv
<1>1. IInv /\ [Next]_vars => IInv'
  BY StepIInv
<1>2. QED
  BY <1>1, InitIInv, PTL DEF Spec

(* What the strengthening says to clients.                                  *)
LEMMA IInvSafe == IInv => MutualExclusion /\ DepthTracked
  BY DEF IInv, DepthTracked, Holds, Releasing, TypeOK

(* Two threads are never inside the lock, in spite of the racy reads of the *)
(* owner (ccspinlock.c:53-66).                                              *)
THEOREM SpinExcludes == ASSUME TidsDistinct PROVE Spec => []MutualExclusion
  BY IInvSafe, SpinInvariant, PTL

(* The re-entry count is the depth the client has (ccspinlock.c:54-103).    *)
THEOREM SpinCounts == ASSUME TidsDistinct PROVE Spec => []DepthTracked
  BY IInvSafe, SpinInvariant, PTL

(* A holder never spins on its own flag: it is let in again, also by a lock *)
(* that was created as PLAIN (ccspinlock.c:40, 53-57).                      *)
THEOREM SpinReenters == ASSUME TidsDistinct PROVE Spec => []NoSelfDeadlock
<1>1. IInv => NoSelfDeadlock
  BY DEF IInv
<1>2. QED
  BY <1>1, SpinInvariant, PTL

(* Nobody writes the plain fields but the one thread that has the flag, and *)
(* nobody else frees it (ccspinlock.c:54-64, 92-101).                       *)
THEOREM SpinGuards ==
  ASSUME TidsDistinct PROVE Spec => FieldsOwned /\ [][FreedByHolder]_vars
<1>1. IInv /\ IInv' /\ [Next]_vars => [FieldsGuarded]_vars
  <2> SUFFICES ASSUME IInv, IInv', [Next]_vars,
                      owner_tid' # owner_tid \/ recursion' # recursion
               PROVE  \E t \in Threads :
                        /\ flag = 1 /\ flag' = 1 /\ Holds(t)
                        /\ \A u \in Threads \ {t} : ~Holds(u) /\ ~Holds(u)'
    BY DEF FieldsGuarded
  <2>1. PICK t \in Threads :
          \/ Reenter(t) \/ SetOwner(t) \/ SetRecursion(t)
          \/ UnlockNested(t) \/ UnlockLast(t) \/ ClearRecursion(t)
    BY DEF Next, Call, Step, Lock, Trylock, ReadOwner, CompareOwner, Exchange, Unlock, Release, lock, vars
  <2>2. Holds(t)
    BY <2>1 DEF Reenter, SetOwner, SetRecursion, UnlockNested, UnlockLast, ClearRecursion,
       Goto, Holds, Acquiring, Releasing
  <2>3. Holds(t)'
    BY <2>1 DEF Reenter, SetOwner, SetRecursion, UnlockNested, UnlockLast, ClearRecursion,
       Goto, Holds, Acquiring, Releasing, IInv, TypeOK, Nested
  <2>4. flag = 1 /\ flag' = 1
    BY <2>2, <2>3 DEF IInv
  <2>5. \A u \in Threads \ {t} : ~Holds(u) /\ ~Holds(u)'
    BY <2>2, <2>3 DEF IInv, MutualExclusion
  <2>6. QED
    BY <2>2, <2>4, <2>5
<1>2. IInv /\ IInv' /\ [Next]_vars => [FreedByHolder]_vars
  <2> SUFFICES ASSUME IInv, IInv', [Next]_vars, flag = 1, flag' = 0
               PROVE  \E t \in Threads : Holds(t) /\ depth[t] = 0 /\ ~Holds(t)'
    BY DEF FreedByHolder
  <2>1. PICK t \in Threads : Release(t)
    BY DEF Next, Call, Step, Lock, Trylock, ReadOwner, CompareOwner, Exchange, Unlock, Reenter, SetOwner,
       SetRecursion, UnlockNested, UnlockLast, ClearRecursion, lock, vars
  <2>2. Holds(t) /\ depth[t] = 0
    BY <2>1 DEF IInv, Release, Goto, Holds, Releasing
  <2>3. ~Holds(t)'
    BY DEF IInv
  <2>4. QED
    BY <2>2, <2>3
<1>3. QED
  BY <1>1, <1>2, SpinInvariant, PTL DEF Spec, FieldsOwned

(* Every step of the spinlock is a step of the abstract reentrant lock or   *)
(* leaves the depths alone.                                                 *)
LEMMA StepPromise == IInv /\ [Next]_vars => [Promise!Next]_depth
<1> SUFFICES ASSUME IInv, [Next]_vars PROVE [Promise!Next]_depth
  OBVIOUS
<1> USE DEF lock, Promise!Next
<1>1. ASSUME NEW t \in Threads, Reenter(t) \/ SetRecursion(t) PROVE Promise!Acquire(t)
  <2>1. \A u \in Threads \ {t} : depth[u] = 0
    BY <1>1 DEF Reenter, SetRecursion, Goto, IInv, TypeOK, MutualExclusion, Holds, Acquiring
  <2>2. QED
    BY <1>1, <2>1 DEF Reenter, SetRecursion, Promise!Acquire
<1>2. ASSUME NEW t \in Threads, Unlock(t) PROVE Promise!Release(t)
  BY <1>2 DEF Unlock, Promise!Release
<1>3. ASSUME NEW t \in Threads, Call(t) PROVE UNCHANGED depth
  BY <1>3 DEF Call, Lock, Trylock
<1>4. ASSUME NEW t \in Threads, ReadOwner(t) \/ CompareOwner(t) \/ Exchange(t) \/ SetOwner(t)
      PROVE  UNCHANGED depth
  BY <1>4 DEF ReadOwner, CompareOwner, Exchange, SetOwner
<1>5. ASSUME NEW t \in Threads,
             UnlockNested(t) \/ UnlockLast(t) \/ ClearRecursion(t) \/ Release(t)
      PROVE  UNCHANGED depth
  BY <1>5 DEF UnlockNested, UnlockLast, ClearRecursion, Release
<1>6. CASE UNCHANGED vars
  BY <1>6 DEF vars
<1>7. QED
  BY <1>1, <1>2, <1>3, <1>4, <1>5, <1>6 DEF Next, Step

(* The recursive spinlock implements the abstract reentrant lock.           *)
THEOREM SpinImplementsLock == ASSUME TidsDistinct PROVE Spec => ImplementsLock
<1>1. Init => Promise!Init
  BY DEF Init, Promise!Init
<1>2. Spec => []IInv
  BY SpinInvariant
<1>3. QED
  BY <1>1, <1>2, StepPromise, PTL DEF Spec, ImplementsLock, Promise!Spec
===========================================================================
