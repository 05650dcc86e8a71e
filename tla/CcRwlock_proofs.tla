-------------------------- MODULE CcRwlock_proofs --------------------------
(* Proofs about the reader-writer lock, for every set of threads, on both   *)
(* platforms, whatever thread ids are, as long as on Windows none is 0.      *)
EXTENDS CcRwlock, TLAPS

(* A fresh lock is held by nobody.                                          *)
LEMMA InitIInv == Init => IInv
  BY RwlockAssumption DEF Init, IInv, TypeOK, PC, ThreadInv, HoldsExclusive, HoldsShared

(* One step per action.                                                     *)
LEMMA StepIInv == TidsNonzero /\ IInv /\ [Next]_vars => IInv'
<1> SUFFICES ASSUME TidsNonzero, IInv, [Next]_vars PROVE IInv'
  OBVIOUS
<1> USE RwlockAssumption
<1> USE DEF IInv, TypeOK, PC, ThreadInv, HoldsExclusive, HoldsShared, Goto, platform, client
<1>1. ASSUME NEW t \in Threads, Call(t) PROVE IInv'
  BY <1>1 DEF Call
<1>2. ASSUME NEW t \in Threads, Rdlock(t) PROVE IInv'
  BY <1>2 DEF Rdlock, GrantsShared
<1>3. ASSUME NEW t \in Threads, TryrdlockFails(t) \/ RdlockFails(t) \/ TrywrlockFails(t)
      PROVE IInv'
  BY <1>3 DEF TryrdlockFails, RdlockFails, TrywrlockFails, Refused
<1>4. ASSUME NEW t \in Threads, AcquireExclusive(t) PROVE IInv'
  BY <1>4 DEF AcquireExclusive, GrantsExclusive
<1>5. ASSUME NEW t \in Threads, SetWriter(t) PROVE IInv'
  BY <1>5 DEF SetWriter
<1>6. ASSUME NEW t \in Threads, Unlock(t) PROVE IInv'
  BY <1>6 DEF Unlock
<1>7. ASSUME NEW t \in Threads, TestWriter(t) PROVE IInv'
  BY <1>7 DEF TestWriter, IsWriter, After, TidsNonzero
<1>8. ASSUME NEW t \in Threads, ClearWriter(t) PROVE IInv'
  BY <1>8 DEF ClearWriter, NoWriter, After
<1>9. ASSUME NEW t \in Threads, ReleaseExclusive(t) PROVE IInv'
  BY <1>9 DEF ReleaseExclusive, GiveUpExclusive, After
<1>10. ASSUME NEW t \in Threads, ReleaseShared(t) PROVE IInv'
  BY <1>10 DEF ReleaseShared, GiveUpShared
<1>11. ASSUME NEW t \in Threads, OsUnlock(t) PROVE IInv'
  BY <1>11 DEF OsUnlock, GiveUpExclusive, GiveUpShared
<1>12. CASE UNCHANGED vars
  BY <1>12 DEF vars
<1> QED
  BY <1>1, <1>2, <1>3, <1>4, <1>5, <1>6, <1>7, <1>8, <1>9, <1>10, <1>11, <1>12 DEF Next, Step

(* The inductive invariant IInv of module CcRwlock holds: writer_tid is the *)
(* id of the thread that holds the lock exclusively, or 0.                  *)
THEOREM RwlockInvariant ==
  ASSUME TidsNonzero PROVE Spec => []IInv
<1>1. IInv /\ [Next]_vars => IInv'
  BY StepIInv
<1> QED
  BY InitIInv, <1>1, PTL DEF Spec

(* What the strengthening says to clients.                                  *)
LEMMA IInvSafe == IInv => ReleaseMatches /\ ReadersOrWriter
  BY RwlockAssumption
  DEF IInv, TypeOK, ThreadInv, HoldsExclusive, HoldsShared, ReleaseMatches, ReadersOrWriter

(* Unlock releases the mode the caller holds (ccrwlock.c:169-178): what it  *)
(* relies on is that ids are not 0, not that they are distinct.             *)
THEOREM UnlockMatches == ASSUME TidsNonzero PROVE Spec => []ReleaseMatches
  BY IInvSafe, RwlockInvariant, PTL

(* Clients see readers or one writer.                                       *)
THEOREM RwlockExcludes == ASSUME TidsNonzero PROVE Spec => []ReadersOrWriter
  BY IInvSafe, RwlockInvariant, PTL

(* Nothing races for writer_tid (ccrwlock.c:119-126, 169-178).              *)
THEOREM TidNeverRaces ==
  ASSUME TidsNonzero PROVE Spec => [][TidGuarded]_vars /\ []ReadsAlone
<1>1. IInv /\ [Next]_vars => [TidGuarded]_vars
  <2> SUFFICES ASSUME IInv, [Next]_vars, writer_tid' # writer_tid
               PROVE  \E t \in Threads : exclusive = t /\ exclusive' = t
    BY DEF TidGuarded
  <2>1. PICK t \in Threads : SetWriter(t) \/ ClearWriter(t)
    BY DEF Next, Step, Call, Rdlock, TryrdlockFails, RdlockFails, AcquireExclusive,
       TrywrlockFails, Unlock, TestWriter, ReleaseExclusive, ReleaseShared, OsUnlock, vars
  <2>2. exclusive = t /\ exclusive' = t
    BY <2>1 DEF IInv, ThreadInv, HoldsExclusive, SetWriter, ClearWriter, Goto, platform
  <2>3. QED
    BY <2>2
<1>2. IInv => ReadsAlone
  <2> SUFFICES ASSUME IInv, NEW t \in Threads, NEW u \in Threads,
                      pc[t] = "unlock", pc[u] \in {"set_writer", "clear_writer"}
               PROVE  t = u
    BY DEF ReadsAlone
  <2>1. exclusive = u /\ shared = {}
    BY RwlockAssumption DEF IInv, ThreadInv, HoldsExclusive
  <2>2. exclusive = t
    BY <2>1 DEF IInv, ThreadInv
  <2>3. QED
    BY <2>1, <2>2
<1>3. QED
  BY <1>1, <1>2, RwlockInvariant, PTL DEF Spec

(* Every step is a step of the abstract lock or leaves it alone.            *)
LEMMA StepPromise == IInv /\ [Next]_vars => [Promise!Next]_(Promise!vars)
<1> SUFFICES ASSUME IInv, [Next]_vars PROVE [Promise!Next]_(Promise!vars)
  OBVIOUS
<1> USE RwlockAssumption
<1> USE DEF IInv, TypeOK, ThreadInv, HoldsExclusive, HoldsShared, Goto, client, Promise!vars
<1>1. ASSUME NEW t \in Threads, Rdlock(t) PROVE Promise!Read(t)
  BY <1>1 DEF Rdlock, GrantsShared, Promise!Read
<1>2. ASSUME NEW t \in Threads, AcquireExclusive(t)
      PROVE  Promise!Write(t) \/ UNCHANGED Promise!vars
  BY <1>2 DEF AcquireExclusive, GrantsExclusive, Promise!Write
<1>3. ASSUME NEW t \in Threads, SetWriter(t) PROVE Promise!Write(t)
  BY <1>3 DEF SetWriter, Promise!Write
<1>4. ASSUME NEW t \in Threads, Unlock(t) PROVE Promise!Release(t)
  BY <1>4 DEF Unlock, Promise!Release
<1>5. ASSUME NEW t \in Threads,
             Call(t) \/ RdlockFails(t) \/ TryrdlockFails(t) \/ TrywrlockFails(t)
             \/ TestWriter(t) \/ ClearWriter(t) \/ ReleaseExclusive(t)
             \/ ReleaseShared(t) \/ OsUnlock(t)
      PROVE  UNCHANGED Promise!vars
  BY <1>5 DEF Call, RdlockFails, TryrdlockFails, TrywrlockFails, TestWriter, ClearWriter,
     ReleaseExclusive, ReleaseShared, OsUnlock
<1>6. CASE UNCHANGED vars
  BY <1>6 DEF vars
<1> QED
  BY <1>1, <1>2, <1>3, <1>4, <1>5, <1>6 DEF Next, Step, Promise!Next

(* ccrwlock.c implements the reader-writer lock of module RwLock.           *)
THEOREM RwlockImplementsRwLock ==
  ASSUME TidsNonzero PROVE Spec => ImplementsRwLock
<1>1. Init => Promise!Init
  BY DEF Init, Promise!Init
<1>2. IInv /\ [Next]_vars => [Promise!Next]_(Promise!vars)
  BY StepPromise
<1> QED
  BY RwlockInvariant, <1>1, <1>2, PTL DEF Spec, ImplementsRwLock, Promise!Spec
=============================================================================
