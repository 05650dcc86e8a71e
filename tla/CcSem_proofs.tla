--------------------------- MODULE CcSem_proofs ---------------------------
(* Proofs about the semaphore, on POSIX first and then on every platform,   *)
(* for every finite set of threads and every bound under which the counter  *)
(* cannot wrap.                                                             *)
EXTENDS CcSemKernel, FiniteSetTheorems, TLAPS

(* One step in or out of a finite set of threads, counted.                  *)
LEMMA CountStep ==
  ASSUME NEW S \in SUBSET Threads, NEW t \in Threads
  PROVE  /\ Cardinality(S) \in Nat
         /\ t \in S => Cardinality(S \ {t}) = Cardinality(S) - 1 /\ Cardinality(S) > 0
         /\ t \notin S => Cardinality(S \cup {t}) = Cardinality(S) + 1
<1>1. IsFiniteSet(S)
  BY SemAssumption, FS_Subset
<1>2. t \in S => Cardinality(S) # 0
  BY <1>1, FS_EmptySet
<1>3. QED
  BY <1>1, <1>2, FS_CardinalityType, FS_AddElement, FS_RemoveElement

(* What holds of types and of control whatever the counter does, a wrap     *)
(* included.                                                                *)
AnyCount == count \in Nat /\ ControlOK /\ \A t \in Threads : Placed(t)

LEMMA StepAnyCount == AnyCount /\ [Next]_vars => AnyCount'
<1> SUFFICES ASSUME AnyCount, [Next]_vars PROVE AnyCount'
  OBVIOUS
<1> USE SemAssumption DEF AnyCount, ControlOK, Placed, InCritical, PC, Waits, Goto, Settle,
        calls, history
<1>1. ASSUME NEW t \in Threads, Wait(t) \/ Post(t) PROVE AnyCount'
  BY <1>1 DEF Wait, Post, Begin
<1>2. ASSUME NEW t \in Threads, LockMutex(t) \/ LockFails(t) \/ Leave(t) PROVE AnyCount'
  BY <1>2 DEF LockMutex, Acquire, LockFails, Leave
<1>3. ASSUME NEW t \in Threads, Take(t) PROVE AnyCount'
  BY <1>3 DEF Take, Testing, Sufficient, Minus1
<1>4. ASSUME NEW t \in Threads, Deny(t) \/ Block(t) \/ CondWaitFails(t) PROVE AnyCount'
  BY <1>4 DEF Deny, Block, CondWaitFails, Testing, Sufficient
<1>5. ASSUME NEW t \in Threads, SpuriousWakeup(t) \/ Expire(t) PROVE AnyCount'
  BY <1>5 DEF SpuriousWakeup, Expire, MayExpire
<1>6. ASSUME NEW t \in Threads, WakeUp(t) \/ GiveUp(t) PROVE AnyCount'
  BY <1>6 DEF WakeUp, GiveUp, Acquire
<1>7. ASSUME NEW t \in Threads, Increment(t) PROVE AnyCount'
  BY <1>7 DEF Increment, After, Plus1
<1>8. ASSUME NEW t \in Threads, Signal(t) PROVE AnyCount'
  BY <1>8 DEF Signal, After, Reachable, Blocked
<1>9. ASSUME NEW t \in Threads, Unlock(t) PROVE AnyCount'
  BY <1>9 DEF Unlock, OwnerAfterUnlock, After
<1>10. CASE Destroy \/ UNCHANGED vars
  BY <1>10 DEF Destroy, vars
<1>11. QED
  BY <1>1, <1>2, <1>3, <1>4, <1>5, <1>6, <1>7, <1>8, <1>9, <1>10 DEF Next, Step

(* No poster has the mutex and a counter at its limit.                      *)
Fits == count = UintMax => \A t \in Threads : pc[t] # "increment"

(* Types, tokens and control: everything but the two counting conjuncts.    *)
BaseInv == TypeOK /\ TokensConserved /\ \A t \in Threads : ControlInv(t)

LEMMA BaseIsAnyCount == BaseInv => AnyCount
  BY SemAssumption DEF BaseInv, TypeOK, AnyCount, ControlInv

(* The client finds every poster past its last access when it destroys.     *)
LEMMA DestroyIsLast ==
  ASSUME IInv, posted = posts, NEW t \in Threads, op[t] \in {"none", "post"}
  PROVE  t \notin Underway /\ pc[t] \in {"idle", "leave", "signal", "unlock"}
<1>1. Underway \in SUBSET Threads
  BY DEF Underway
<1>2. ASSUME t \in Underway PROVE Cardinality(Underway) \in Nat /\ Cardinality(Underway) > 0
  BY <1>1, <1>2, CountStep
<1>3. t \notin Underway
  BY <1>2 DEF IInv, TypeOK, ControlOK, PostsInv
<1>4. QED
  BY <1>3 DEF IInv, TypeOK, ControlOK, ControlInv, Placed, PC, Waits, Underway

(* Where the counter does not wrap every token is accounted for, and it is  *)
(* the poster's last access to the semaphore that makes destroying safe.    *)
LEMMA StepBase == Fits /\ IInv /\ [Next]_vars => BaseInv'
<1> SUFFICES ASSUME Fits, IInv, [Next]_vars PROVE BaseInv'
  OBVIOUS
<1>1. AnyCount'
  BY BaseIsAnyCount, StepAnyCount DEF IInv, BaseInv
<1>2. /\ count' \in 0..UintMax /\ TokensConserved'
      /\ \A t \in Threads : op'[t] = "post" /\ pc'[t] \in {"signal", "unlock"} => count' > 0
      /\ sem' = "destroyed" => \A t \in Threads : pc'[t] \in {"idle", "leave"}
  <2> USE SemAssumption DEF Fits, IInv, TypeOK, ControlOK, TokensConserved, ControlInv, Placed,
          InCritical, PC, Waits, Goto, Settle, calls, history
  <2> DEFINE Goal ==
        /\ count' \in 0..UintMax /\ TokensConserved'
        /\ \A t \in Threads : op'[t] = "post" /\ pc'[t] \in {"signal", "unlock"} => count' > 0
        /\ sem' = "destroyed" => \A t \in Threads : pc'[t] \in {"idle", "leave"}
  <2>1. ASSUME NEW t \in Threads, Wait(t) \/ Post(t) PROVE Goal
    BY <2>1 DEF Wait, Post, Begin
  <2>2. ASSUME NEW t \in Threads, LockMutex(t) \/ LockFails(t) \/ Leave(t) PROVE Goal
    BY <2>2 DEF LockMutex, Acquire, LockFails, Leave
  <2>3. ASSUME NEW t \in Threads, Take(t) PROVE Goal
    BY <2>3 DEF Take, Testing, Sufficient, Minus1
  <2>4. ASSUME NEW t \in Threads, Deny(t) \/ Block(t) \/ CondWaitFails(t) PROVE Goal
    BY <2>4 DEF Deny, Block, CondWaitFails, Testing, Sufficient
  <2>5. ASSUME NEW t \in Threads, SpuriousWakeup(t) \/ Expire(t) PROVE Goal
    BY <2>5 DEF SpuriousWakeup, Expire, MayExpire
  <2>6. ASSUME NEW t \in Threads, WakeUp(t) \/ GiveUp(t) PROVE Goal
    BY <2>6 DEF WakeUp, GiveUp, Acquire
  <2>7. ASSUME NEW t \in Threads, Increment(t) PROVE Goal
    BY <2>7 DEF Increment, After, Plus1
  <2>8. ASSUME NEW t \in Threads, Signal(t) PROVE Goal
    BY <2>8 DEF Signal, After, Reachable, Blocked
  <2>9. ASSUME NEW t \in Threads, Unlock(t) PROVE Goal
    BY <2>9 DEF Unlock, OwnerAfterUnlock, After
  <2>10. ASSUME Destroy PROVE Goal
    <3>1. \A t \in Threads : pc[t] \in {"idle", "leave", "signal", "unlock"}
      BY <2>10, DestroyIsLast DEF Destroy
    <3>2. QED
      BY <2>10, <3>1 DEF Destroy
  <2>11. CASE UNCHANGED vars
    BY <2>11 DEF vars
  <2>12. QED
    BY <2>1, <2>2, <2>3, <2>4, <2>5, <2>6, <2>7, <2>8, <2>9, <2>10, <2>11 DEF Next, Step
<1>3. QED
  BY <1>1, <1>2 DEF AnyCount, BaseInv, TypeOK, ControlInv

(* The posts under way stay counted: only Post, Increment and Leave   *)
(* change them.                                                             *)
LEMMA StepPosts == IInv /\ [Next]_vars => PostsInv'
<1> SUFFICES ASSUME IInv, [Next]_vars PROVE PostsInv'
  OBVIOUS
<1> USE DEF IInv, TypeOK, ControlOK, PostsInv, ControlInv, Placed, PC, Waits, Goto, Settle, calls, history
<1>1. Underway \in SUBSET Threads
  BY DEF Underway
<1>2. ASSUME NEW t \in Threads, Post(t) PROVE PostsInv'
  <2>1. t \notin Underway /\ Underway' = Underway \cup {t}
    BY <1>2 DEF Post, Begin, Underway
  <2>2. Cardinality(Underway') = Cardinality(Underway) + 1 /\ Cardinality(Underway) \in Nat
    BY <1>1, <2>1, CountStep
  <2>3. posts' = posts + 1 /\ posts < MaxPosts /\ posted' = posted
    BY <1>2 DEF Post, Begin
  <2>4. QED
    BY <2>2, <2>3, SemAssumption
<1>3. ASSUME NEW t \in Threads, Increment(t) PROVE PostsInv'
  <2>1. t \in Underway /\ Underway' = Underway \ {t}
    BY <1>3 DEF Increment, After, Underway
  <2>2. QED
    BY <1>1, <1>3, <2>1, CountStep DEF Increment
<1>4. ASSUME NEW t \in Threads, Leave(t) PROVE PostsInv'
  <2>1. Underway' = Underway \ {t}
    BY <1>4 DEF Leave, Underway
  <2>2. CASE t \in Underway
    BY <1>1, <1>4, <2>1, <2>2, CountStep DEF Leave
  <2>3. CASE t \notin Underway
    <3>1. Underway \ {t} = Underway
      BY <2>3
    <3>2. QED
      BY <1>4, <2>1, <3>1 DEF Leave
  <2>4. QED
    BY <2>2, <2>3
<1>5. ASSUME NEW t \in Threads, Wait(t) PROVE PostsInv'
  <2>1. Underway' = Underway
    BY <1>5 DEF Wait, Begin, Underway
  <2>2. QED
    BY <1>5, <2>1 DEF Wait, Begin
<1>6. ASSUME NEW t \in Threads, LockMutex(t) \/ LockFails(t) PROVE PostsInv'
  <2>1. Underway' = Underway
    BY <1>6 DEF LockMutex, Acquire, LockFails, Underway
  <2>2. QED
    BY <1>6, <2>1 DEF LockMutex, Acquire, LockFails
<1>7. ASSUME NEW t \in Threads,
             Take(t) \/ Deny(t) \/ Block(t) \/ CondWaitFails(t)
      PROVE  PostsInv'
  <2>1. Underway' = Underway
    BY <1>7 DEF Take, Deny, Block, CondWaitFails, Testing, Underway
  <2>2. QED
    BY <1>7, <2>1 DEF Take, Deny, Block, CondWaitFails
<1>8. ASSUME NEW t \in Threads,
             SpuriousWakeup(t) \/ Expire(t) \/ WakeUp(t) \/ GiveUp(t)
      PROVE  PostsInv'
  <2>1. Underway' = Underway
    BY <1>8 DEF SpuriousWakeup, Expire, WakeUp, GiveUp, Acquire, Underway
  <2>2. QED
    BY <1>8, <2>1 DEF SpuriousWakeup, Expire, WakeUp, GiveUp, Acquire
<1>9. ASSUME NEW t \in Threads, Signal(t) \/ Unlock(t) PROVE PostsInv'
  <2>1. Underway' = Underway
    BY <1>9 DEF Signal, Unlock, After, Reachable, Blocked, Underway
  <2>2. QED
    BY <1>9, <2>1 DEF Signal, Unlock
<1>10. CASE Destroy \/ UNCHANGED vars
  <2>1. Underway' = Underway
    BY <1>10 DEF Destroy, vars, Underway
  <2>2. QED
    BY <1>10, <2>1 DEF Destroy, vars
<1>11. QED
  BY <1>2, <1>3, <1>4, <1>5, <1>6, <1>7, <1>8, <1>9, <1>10 DEF Next, Step

(* Why no wakeup is lost: a token appears together with a poster that is    *)
(* about to signal, the signal turns a sleeper into a taker, and a taker    *)
(* gives up its place only by taking a token or by finding none.  A counter *)
(* that wraps owes nothing to anybody.                                      *)
LEMMA StepWakeup == AnyCount /\ WakeupInv /\ [Next]_vars => WakeupInv'
<1> SUFFICES ASSUME AnyCount, WakeupInv, [Next]_vars PROVE WakeupInv'
  OBVIOUS
<1> USE SemAssumption
<1> USE DEF AnyCount, ControlOK, WakeupInv, Placed, InCritical, PC, Waits, Goto, calls, history
<1>1. Takers \in SUBSET Threads /\ Cardinality(Takers) \in Nat
  <2>1. Takers \in SUBSET Threads
    BY DEF Takers
  <2>2. Cardinality(Takers) \in Nat
    BY <2>1, SemAssumption, FS_Subset, FS_CardinalityType
  <2>3. QED
    BY <2>1, <2>2
<1>2. ASSUME NEW t \in Threads, LockMutex(t) PROVE WakeupInv'
  <2>1. Blocked' = Blocked /\ Signalling' = Signalling /\ count' = count
    BY <1>2 DEF LockMutex, Acquire, Blocked, Signalling
  <2>2. t \notin Takers /\ (Takers' = Takers \cup {t} \/ Takers' = Takers)
    BY <1>2 DEF LockMutex, Acquire, Takers
  <2>3. Cardinality(Takers') \in Nat /\ Cardinality(Takers') >= Cardinality(Takers)
    BY <1>1, <2>2, CountStep
  <2>4. QED
    BY <1>1, <2>1, <2>3
<1>3. ASSUME NEW t \in Threads, SpuriousWakeup(t) PROVE WakeupInv'
  <2>1. Blocked' \subseteq Blocked /\ Signalling' = Signalling /\ count' = count
    BY <1>3 DEF SpuriousWakeup, Blocked, Signalling
  <2>2. t \notin Takers /\ Takers' = Takers \cup {t}
    BY <1>3 DEF SpuriousWakeup, Takers
  <2>3. Cardinality(Takers') = Cardinality(Takers) + 1
    BY <1>1, <2>2, CountStep
  <2>4. QED
    BY <1>1, <2>1, <2>3
<1>4. ASSUME NEW t \in Threads, Take(t) PROVE WakeupInv'
  <2>1. Blocked' = Blocked /\ Signalling' = Signalling
    BY <1>4 DEF Take, Testing, Blocked, Signalling
  <2>2. t \in Takers /\ Takers' = Takers \ {t}
    BY <1>4 DEF Take, Testing, Takers
  <2>3. Cardinality(Takers') = Cardinality(Takers) - 1
    BY <1>1, <2>2, CountStep
  <2>4. count' = count - 1
    BY <1>4 DEF Take, Sufficient, Minus1
  <2>5. QED
    BY <1>1, <2>1, <2>3, <2>4
<1>5. ASSUME NEW t \in Threads, Deny(t) \/ Block(t) \/ CondWaitFails(t) PROVE WakeupInv'
  <2>1. count' = 0
    BY <1>5 DEF Deny, Block, CondWaitFails, Sufficient
  <2>2. Takers' \in SUBSET Threads
    BY DEF Takers
  <2>3. Cardinality(Takers') \in Nat
    BY <1>5, <2>2, CountStep
  <2>4. QED
    BY <2>1, <2>3
<1>6. ASSUME NEW t \in Threads, Increment(t) PROVE WakeupInv'
  <2>1. Blocked' = Blocked /\ Takers' = Takers
    BY <1>6 DEF Increment, After, Blocked, Takers
  <2>2. Signalling = {}
    BY <1>6 DEF Increment, Signalling
  <2>3. t \in Signalling'
    BY <1>6 DEF Increment, After, Signalling
  <2>4. count' <= count + 1
    BY <1>6 DEF Increment, Plus1
  <2>5. count' \in Nat
    BY <1>6 DEF Increment, Plus1
  <2>6. QED
    BY <1>1, <2>1, <2>2, <2>3, <2>4, <2>5
<1>7. ASSUME NEW t \in Threads, Signal(t) PROVE WakeupInv'
  <2>1. CASE Blocked = {}
    <3>1. Blocked' = {}
      BY <1>7, <2>1 DEF Signal, After, Reachable, Blocked
    <3>2. QED
      BY <3>1
  <2>2. CASE Blocked # {}
    <3>1. PICK w \in Blocked : pc' = [pc EXCEPT ![t] = "unlock", ![w] = "woken"]
      BY <1>7, <2>2 DEF Signal, After, Reachable
    <3>2. w \in Threads /\ w \notin Takers /\ Takers' = Takers \cup {w}
      BY <1>7, <3>1 DEF Signal, Blocked, Takers
    <3>3. Cardinality(Takers') = Cardinality(Takers) + 1
      BY <1>1, <3>2, CountStep
    <3>4. count' = count
      BY <1>7 DEF Signal
    <3>5. QED
      BY <1>1, <2>2, <3>3, <3>4
  <2>3. QED
    BY <2>1, <2>2
<1>8. ASSUME NEW t \in Threads,
             \/ Wait(t) \/ Post(t) \/ LockFails(t) \/ Leave(t)
             \/ Expire(t) \/ WakeUp(t) \/ GiveUp(t) \/ Unlock(t)
      PROVE  WakeupInv'
  <2>1. Blocked' \subseteq Blocked
    BY <1>8 DEF Wait, Post, Begin, LockFails, Leave, Expire, WakeUp, GiveUp, Acquire,
       Unlock, After, Blocked
  <2>2. Takers' = Takers
    BY <1>8 DEF Wait, Post, Begin, LockFails, Leave, Expire, WakeUp, GiveUp, Acquire,
       Unlock, After, Takers
  <2>3. Signalling' = Signalling
    BY <1>8 DEF Wait, Post, Begin, LockFails, Leave, Expire, WakeUp, GiveUp, Acquire,
       Unlock, After, Signalling
  <2>4. count' = count
    BY <1>8 DEF Wait, Post, Begin, LockFails, Leave, Expire, WakeUp, GiveUp, Acquire,
       Unlock
  <2>5. QED
    BY <2>1, <2>2, <2>3, <2>4
<1>9. CASE Destroy \/ UNCHANGED vars
  <2>1. UNCHANGED <<Blocked, Takers, Signalling, count>>
    BY <1>9 DEF Destroy, vars, Blocked, Takers, Signalling
  <2>2. QED
    BY <2>1
<1>10. QED
  BY <1>2, <1>3, <1>4, <1>5, <1>6, <1>7, <1>8, <1>9 DEF Next, Step

(* Before the first call.                                                   *)
LEMMA InitIInv == Init => IInv
<1> SUFFICES ASSUME Init PROVE IInv
  OBVIOUS
<1> USE SemAssumption DEF Init
<1>1. TypeOK /\ TokensConserved
  BY DEF TypeOK, ControlOK, TokensConserved, PC
<1>2. \A t \in Threads : ControlInv(t)
  BY DEF ControlInv, Placed, InCritical
<1>3. Underway = {} /\ Blocked = {}
  BY DEF Underway, Blocked
<1>4. PostsInv /\ WakeupInv
  BY <1>3, FS_EmptySet DEF PostsInv, WakeupInv
<1>5. QED
  BY <1>1, <1>2, <1>4 DEF IInv

LEMMA StepIInv == Fits /\ IInv /\ [Next]_vars => IInv'
  BY StepBase, StepPosts, StepWakeup, BaseIsAnyCount DEF IInv, BaseInv

(* Within the bound on posts the counter cannot be at its limit while a     *)
(* post is under way.                                                       *)
LEMMA BoundFits ==
  ASSUME NoOverflow, IInv, NEW t \in Threads,
         op[t] = "post", pc[t] \in {"entered", "increment"}, outcome[t] # "SUCCESS"
  PROVE  count # UintMax
<1>1. Underway \in SUBSET Threads /\ t \in Underway
  BY DEF Underway
<1>2. Cardinality(Underway) \in Nat /\ Cardinality(Underway) > 0
  BY <1>1, CountStep
<1>3. posted < MaxPosts
  BY <1>2, SemAssumption DEF IInv, TypeOK, ControlOK, PostsInv
<1>4. QED
  BY <1>3, SemAssumption DEF NoOverflow, IInv, TypeOK, ControlOK, TokensConserved

LEMMA NoOverflowFits == NoOverflow /\ IInv => Fits
<1> SUFFICES ASSUME NoOverflow, IInv, NEW t \in Threads, pc[t] = "increment"
             PROVE  count # UintMax
  BY DEF Fits
<1>1. op[t] = "post" /\ outcome[t] # "SUCCESS"
  BY DEF IInv, TypeOK, ControlOK, ControlInv, Placed, PC
<1>2. QED
  BY <1>1, BoundFits

(* The strengthening is an invariant of the semaphore on POSIX for as long  *)
(* as no post finds the counter at its limit.                               *)
THEOREM SemInvariant == Spec /\ []Fits => []IInv
  BY InitIInv, StepIInv, PTL DEF Spec

(* What the strengthening says to clients.                                  *)
LEMMA AnyCountWakes == AnyCount /\ WakeupInv => NoLostWakeup
<1> SUFFICES ASSUME AnyCount, WakeupInv PROVE NoLostWakeup
  OBVIOUS
<1>1. ASSUME mutex = NoThread PROVE Takers = Woken /\ Signalling = {}
  BY <1>1, SemAssumption
     DEF AnyCount, Placed, InCritical, Takers, Woken, Signalling
<1>2. Woken \in SUBSET Threads
  BY DEF Woken
<1>3. Cardinality(Woken) \in Nat
  BY <1>2, SemAssumption, FS_Subset, FS_CardinalityType
<1>4. QED
  BY <1>1, <1>3 DEF AnyCount, WakeupInv, NoLostWakeup

LEMMA IInvSafe == IInv => NoUseAfterDestroy
  BY DEF IInv, ControlInv, NoUseAfterDestroy

(* Each call takes effect at one step: Increment, Take, Deny, GiveUp or a   *)
(* failure; every other step is the beginning, the return or silent.        *)
LEMMA StepPromise ==
  Fits /\ IInv /\ IInv' /\ [Next]_vars => [Promise!Next]_(Promise!vars)
<1> SUFFICES ASSUME Fits, IInv, IInv', [Next]_vars
             PROVE [Promise!Next]_(Promise!vars)
  OBVIOUS
<1> USE DEF IInv, TypeOK, ControlOK, ControlInv, Placed, PC, Waits, Goto, Settle, calls, history,
            Promise!Waits, Promise!Pending, Promise!EndsWith, Promise!vars, Looked
<1>1. ASSUME NEW t \in Threads, Wait(t) \/ Post(t) PROVE Promise!Begin(t)
  BY <1>1 DEF Wait, Post, Begin, Promise!Begin
<1>2. ASSUME NEW t \in Threads, Take(t) PROVE Promise!Take(t)
  BY <1>2, SemAssumption DEF Take, Testing, Sufficient, Minus1, Promise!Take
<1>3. ASSUME NEW t \in Threads, Increment(t) PROVE Promise!Put(t)
  <2>1. count' = count + 1
    BY <1>3, SemAssumption DEF Fits, Increment, Plus1
  <2>2. QED
    BY <1>3, <2>1 DEF Increment, After, Promise!Put
<1>4. ASSUME NEW t \in Threads, Deny(t) \/ GiveUp(t) PROVE Promise!Deny(t)
  BY <1>4 DEF Deny, Testing, Sufficient, GiveUp, Acquire, Promise!Deny
<1>5. ASSUME NEW t \in Threads, LockFails(t) \/ CondWaitFails(t) PROVE Promise!Fail(t)
  BY <1>5 DEF LockFails, CondWaitFails, Testing, Promise!Fail
<1>6. ASSUME NEW t \in Threads, Leave(t) \/ Unlock(t) PROVE Promise!Return(t)
  BY <1>6 DEF Leave, Unlock, After, Promise!Return
<1>7. ASSUME NEW t \in Threads, LockMutex(t) \/ SpuriousWakeup(t)
                                \/ Expire(t) \/ WakeUp(t) \/ Signal(t)
      PROVE  UNCHANGED Promise!vars
  BY <1>7 DEF LockMutex, SpuriousWakeup, Expire, MayExpire, WakeUp, Acquire, Signal, After,
     Reachable, Blocked
<1>8. ASSUME NEW t \in Threads, Block(t) PROVE Promise!Look(t) \/ UNCHANGED Promise!vars
  <2>1. CASE op[t] = "timedwait"
    BY <1>8, <2>1 DEF Block, Testing, Sufficient, Promise!Look
  <2>2. CASE op[t] # "timedwait"
    BY <1>8, <2>2 DEF Block, Testing
  <2>3. QED
    BY <2>1, <2>2
<1>9. CASE Destroy \/ UNCHANGED vars
  BY <1>9 DEF Destroy, vars
<1>10. QED
  BY <1>1, <1>2, <1>3, <1>4, <1>5, <1>6, <1>7, <1>8, <1>9 DEF Next, Step, Promise!Next

(* ccsem.c on POSIX implements the abstract semaphore.                      *)
THEOREM SemImplementsSemaphore == Spec /\ []Fits => ImplementsSemaphore
<1>1. Init => Promise!Init
  BY DEF Init, Promise!Init, Looked
<1>2. Fits /\ IInv /\ IInv' /\ [Next]_vars => [Promise!Next]_(Promise!vars)
  BY StepPromise
<1>3. QED
  BY <1>1, <1>2, SemInvariant, PTL DEF Spec, ImplementsSemaphore, Promise!Spec

(* The steps of CcSem that the platforms share, or that are POSIX's.        *)
PosixNext == [Next]_vars /\ UNCHANGED backend
KernelNext ==
  /\ backend # "POSIX" /\ UNCHANGED backend
  /\ (\E t \in Threads : KernelStep(t) \/ KernelExpires(t)) \/ Destroy \/ DestroyReturned

LEMMA KernelCases == [KNext]_kvars => PosixNext \/ KernelNext
<1> SUFFICES ASSUME [KNext]_kvars PROVE PosixNext \/ KernelNext
  OBVIOUS
<1>1. ASSUME NEW t \in Threads, (Wait(t) \/ Post(t) \/ SpuriousWakeup(t)) /\ UNCHANGED backend
      PROVE  PosixNext
  BY <1>1 DEF PosixNext, Next
<1>2. ASSUME NEW t \in Threads, KStep(t) \/ KExpire(t) PROVE PosixNext \/ KernelNext
  BY <1>2 DEF KStep, KExpire, PosixNext, KernelNext, Next
<1>3. ASSUME KDestroy PROVE PosixNext \/ KernelNext
  BY <1>3 DEF KDestroy, PosixNext, KernelNext, Next
<1>4. CASE UNCHANGED kvars
  BY <1>4 DEF kvars, PosixNext
<1>5. QED
  BY <1>1, <1>2, <1>3, <1>4 DEF KNext

(* Nobody gets into the mutex or the condition variable of a platform that  *)
(* has none.                                                                *)
LEMMA KernelStays == AnyCount /\ InKernel /\ [KNext]_kvars => InKernel'
<1> SUFFICES ASSUME AnyCount, InKernel, [KNext]_kvars, backend # "POSIX", NEW u \in Threads
             PROVE pc'[u] \in {"idle", "entered", "leave"}
  BY DEF InKernel, KNext, KStep, KExpire, KDestroy, kvars
<1> USE DEF AnyCount, InKernel, ControlOK, Goto
<1>1. ASSUME NEW t \in Threads, Wait(t) \/ Post(t) \/ SpuriousWakeup(t)
      PROVE  pc'[u] \in {"idle", "entered", "leave"}
  BY <1>1 DEF Wait, Post, Begin, SpuriousWakeup
<1>2. ASSUME NEW t \in Threads, KernelStep(t) \/ KernelExpires(t)
      PROVE  pc'[u] \in {"idle", "entered", "leave"}
  BY <1>2 DEF KernelStep, KernelTake, KernelDenies, KernelWaitFails, KernelPost, Leave,
     KernelExpires, Ends
<1>3. ASSUME Destroy \/ DestroyReturned \/ UNCHANGED kvars
      PROVE  pc'[u] \in {"idle", "entered", "leave"}
  BY <1>3 DEF Destroy, DestroyReturned, kvars, vars
<1>4. QED
  BY <1>1, <1>2, <1>3 DEF KNext, KStep, KExpire, KDestroy

(* One call of the kernel keeps types and control, wherever the count is.   *)
LEMMA KernelAnyCount == AnyCount /\ InKernel /\ KernelNext => AnyCount'
<1> SUFFICES ASSUME AnyCount, InKernel, KernelNext PROVE AnyCount'
  OBVIOUS
<1>1. ASSUME NEW t \in Threads, Leave(t) PROVE AnyCount'
  BY <1>1, StepAnyCount DEF Next, Step
<1> USE DEF AnyCount, ControlOK, Placed, InCritical, PC, Waits, Goto, Settle, Ends, calls, history
<1>2. \A t \in Threads : mutex # t
  BY DEF InKernel, KernelNext
<1>3. ASSUME NEW t \in Threads,
             KernelTake(t) \/ KernelDenies(t) \/ KernelExpires(t) \/ KernelWaitFails(t)
      PROVE  AnyCount'
  BY <1>2, <1>3 DEF KernelTake, KernelDenies, KernelExpires, MayExpire, KernelWaitFails
<1>4. ASSUME NEW t \in Threads, KernelPost(t) PROVE AnyCount'
  BY <1>2, <1>4 DEF KernelPost, Reported
<1>5. ASSUME Destroy \/ DestroyReturned PROVE AnyCount'
  BY <1>5 DEF Destroy, DestroyReturned
<1>6. QED
  BY <1>1, <1>3, <1>4, <1>5 DEF KernelNext, KernelStep

(* A call of the kernel accounts for its token, and a post that is settled  *)
(* leaves the posts under way.                                              *)
LEMMA StepKernel == Room /\ KInv /\ [KNext]_kvars /\ KernelNext => KInv'
<1> SUFFICES ASSUME Room, KInv, [KNext]_kvars, KernelNext PROVE KInv'
  OBVIOUS
<1>1. Underway \in SUBSET Threads
  BY DEF Underway
<1>2. AnyCount /\ InKernel
  BY BaseIsAnyCount DEF KInv, IInv, BaseInv
<1>3. AnyCount' /\ InKernel'
  BY <1>2, KernelStays, KernelAnyCount
<1> DEFINE Accounts ==
      /\ count \in 0..UintMax /\ TokensConserved /\ PostsInv
      /\ sem = "destroyed" => \A t \in Threads : pc[t] \in {"idle", "leave"}
<1>4. Accounts'
  <2> USE SemAssumption
  <2> USE DEF KInv, IInv, TypeOK, ControlOK, TokensConserved, ControlInv, PostsInv,
          Goto, Settle, Ends, calls, history
  <2>1. ASSUME NEW t \in Threads,
               KernelTake(t) \/ KernelDenies(t) \/ KernelExpires(t) \/ KernelWaitFails(t)
        PROVE  Accounts'
    <3>1. Underway' = Underway
      BY <2>1 DEF KernelTake, KernelDenies, KernelExpires, MayExpire, KernelWaitFails, Underway, Waits
    <3>2. UNCHANGED <<posted, posts>> /\ sem' = sem /\ sem = "live"
      BY <2>1 DEF KernelTake, KernelDenies, KernelExpires, KernelWaitFails
    <3>3. count' \in 0..UintMax /\ TokensConserved'
      BY <2>1 DEF KernelTake, KernelDenies, KernelExpires, KernelWaitFails
    <3>4. QED
      BY <3>1, <3>2, <3>3
  <2>2. ASSUME NEW t \in Threads, KernelPost(t), Releases PROVE Accounts'
    <3>1. t \in Underway /\ Underway' = Underway \ {t}
      BY <2>2 DEF KernelPost, Reported, Underway, Placed
    <3>2. PostsInv' /\ sem' = sem /\ sem = "live"
      BY <1>1, <2>2, <3>1, CountStep DEF KernelPost
    <3>3. count # UintMax
      BY <2>2, KernelAssumption DEF KernelPost, Releases, Room, Adding, InKernel, KernelNext
    <3>4. QED
      BY <2>2, <3>2, <3>3 DEF KernelPost
  <2>3. ASSUME NEW t \in Threads, KernelPost(t), ~Releases PROVE Accounts'
    <3>1. Underway' = Underway
      BY <2>3 DEF KernelPost, Reported, Underway, Placed
    <3>2. QED
      BY <2>3, <3>1 DEF KernelPost
  <2>4. ASSUME NEW t \in Threads, Leave(t) PROVE Accounts'
    <3>1. PostsInv'
      BY <2>4, StepPosts DEF Next, Step
    <3>2. QED
      BY <2>4, <3>1 DEF Leave
  <2>5. ASSUME Destroy \/ DestroyReturned PROVE Accounts'
    <3>1. \A t \in Threads : pc[t] \in {"idle", "leave"}
      BY <1>2, <2>5, DestroyIsLast DEF Destroy, DestroyReturned, InKernel, KernelNext
    <3>2. Underway' = Underway
      BY <2>5 DEF Destroy, DestroyReturned, Underway
    <3>3. QED
      BY <2>5, <3>1, <3>2 DEF Destroy, DestroyReturned
  <2>6. QED
    BY <2>1, <2>2, <2>3, <2>4, <2>5 DEF KernelNext, KernelStep
<1>5. \A t \in Threads : ControlInv(t)'
  BY <1>3, <1>4 DEF AnyCount, InKernel, KernelNext, ControlInv
<1>6. WakeupInv'
  BY <1>3 DEF InKernel, KernelNext, WakeupInv, Blocked
<1>7. QED
  BY <1>3, <1>4, <1>5, <1>6 DEF KInv, IInv, TypeOK, AnyCount

LEMMA StepKInv == Room /\ KInv /\ [KNext]_kvars => KInv'
<1> SUFFICES ASSUME Room, KInv, [KNext]_kvars PROVE KInv'
  OBVIOUS
<1>1. CASE PosixNext
  <2>1. Fits
    BY DEF Room, Adding, Fits
  <2>2. IInv'
    BY <1>1, <2>1, StepIInv DEF KInv, PosixNext
  <2>3. InKernel'
    BY KernelStays, BaseIsAnyCount DEF KInv, IInv, BaseInv
  <2>4. QED
    BY <2>2, <2>3 DEF KInv
<1>2. CASE KernelNext
  BY <1>2, StepKernel
<1>3. QED
  BY <1>1, <1>2, KernelCases

LEMMA InitKInv == KInit => KInv
  BY InitIInv DEF KInit, KInv, InKernel, Init

(* The bound on posts sees to it that there is room for all of them.        *)
LEMMA NoOverflowRoom == NoOverflow /\ KInv => Room
<1> SUFFICES ASSUME NoOverflow, KInv, NEW t \in Threads, Adding(t) PROVE count # UintMax
  BY DEF Room
<1>1. op[t] = "post" /\ pc[t] \in {"entered", "increment"} /\ outcome[t] # "SUCCESS"
  BY DEF Adding, KInv, IInv, TypeOK, ControlOK, ControlInv, Placed, PC
<1>2. QED
  BY <1>1, BoundFits DEF KInv

(* The strengthening is an invariant on every platform, for any number of   *)
(* posts, for as long as none finds the counter at its limit.               *)
THEOREM KernelInvariant == KSpec /\ []Room => []KInv
  BY InitKInv, StepKInv, PTL DEF KSpec

(* So it is when the posts there are cannot fill the counter.               *)
THEOREM BoundedInvariant == ASSUME NoOverflow PROVE KSpec => []KInv /\ []Room
<1>1. KInv /\ [KNext]_kvars => KInv'
  BY NoOverflowRoom, StepKInv
<1>2. QED
  BY <1>1, InitKInv, NoOverflowRoom, PTL DEF KSpec

(* On Windows nothing has to be assumed of the clients: the kernel refuses  *)
(* a token beyond its limit, and the count stays within it.                 *)
THEOREM WindowsNeverOverflows ==
  KSpec /\ backend = "WINDOWS" => [](KInv /\ count <= LongMax)
<1> DEFINE Inv == backend = "WINDOWS" /\ KInv /\ count <= LongMax
<1>1. KInit /\ backend = "WINDOWS" => Inv
  BY InitKInv, KernelAssumption, SemAssumption DEF KInit, Init
<1>2. Inv /\ [KNext]_kvars => Inv'
  <2> SUFFICES ASSUME Inv, [KNext]_kvars PROVE Inv'
    OBVIOUS
  <2>1. \A t \in Threads : ~Adding(t)
    BY DEF Inv, KInv, InKernel, Adding
  <2>2. KInv'
    BY <2>1, StepKInv DEF Room
  <2>3. backend' = backend
    BY DEF KNext, KStep, KExpire, KDestroy, kvars
  <2>4. count' <= LongMax
    <3> USE KernelAssumption, SemAssumption DEF KInv, IInv, TypeOK
    <3>1. ASSUME NEW t \in Threads, Wait(t) \/ Post(t) \/ SpuriousWakeup(t)
          PROVE  count' <= LongMax
      BY <3>1 DEF Wait, Post, Begin, SpuriousWakeup
    <3>2. ASSUME NEW t \in Threads, KernelStep(t) \/ KernelExpires(t)
          PROVE  count' <= LongMax
      BY <3>2 DEF KernelStep, KernelTake, KernelDenies, KernelWaitFails, KernelPost, Releases,
         Leave, KernelExpires
    <3>3. ASSUME Destroy \/ UNCHANGED kvars PROVE count' <= LongMax
      BY <3>3 DEF Destroy, kvars, vars
    <3>4. QED
      BY <3>1, <3>2, <3>3 DEF KNext, KStep, KExpire, KDestroy
  <2>5. QED
    BY <2>2, <2>3, <2>4
<1>3. QED
  BY <1>1, <1>2, PTL DEF KSpec

(* What holds even when the counter has wrapped.                            *)
WrapInv == AnyCount /\ WakeupInv /\ InKernel

THEOREM WrapInvariant == KSpec => []WrapInv
<1>1. KInit => WrapInv
  BY InitKInv, BaseIsAnyCount DEF KInv, IInv, BaseInv, WrapInv
<1>2. WrapInv /\ [KNext]_kvars => WrapInv'
  <2> SUFFICES ASSUME WrapInv, [KNext]_kvars PROVE WrapInv'
    OBVIOUS
  <2>1. InKernel'
    BY KernelStays DEF WrapInv
  <2>2. CASE PosixNext
    BY <2>1, <2>2, StepAnyCount, StepWakeup DEF WrapInv, PosixNext
  <2>3. CASE KernelNext
    <3>1. Blocked' = {}
      BY <2>1, <2>3 DEF InKernel, KernelNext, Blocked
    <3>2. QED
      BY <2>1, <2>3, <3>1, KernelAnyCount DEF WrapInv, WakeupInv
  <2>4. QED
    BY <2>2, <2>3, KernelCases
<1>3. QED
  BY <1>1, <1>2, PTL DEF KSpec

(* No sleeper is left behind with a token that nobody is coming for, also   *)
(* when the counter has wrapped.                                            *)
THEOREM SemWakes == KSpec => []NoLostWakeup
<1>1. WrapInv => NoLostWakeup
  BY AnyCountWakes DEF WrapInv
<1>2. QED
  BY <1>1, WrapInvariant, PTL

(* The counter of POSIX is a plain unsigned int: only a thread that has the *)
(* mutex, and keeps it in that step, changes it (ccsem.c:156-166, 299-304). *)
CountUnderMutex ==
  backend = "POSIX" /\ count' # count => \E t \in Threads : mutex = t /\ mutex' = t

THEOREM CountIsGuarded == KSpec => [][CountUnderMutex]_kvars
<1>1. WrapInv /\ [KNext]_kvars => [CountUnderMutex]_kvars
  <2> SUFFICES ASSUME WrapInv, [KNext]_kvars, backend = "POSIX", count' # count
               PROVE  \E t \in Threads : mutex = t /\ mutex' = t
    BY DEF CountUnderMutex
  <2>1. PICK t \in Threads : Take(t) \/ Increment(t)
    BY DEF KNext, KStep, KExpire, KDestroy, kvars, vars, Step, Wait, Post, Begin, SpuriousWakeup,
       Expire, Destroy, LockMutex, LockFails, Leave, Deny, Block, CondWaitFails, WakeUp, GiveUp,
       Acquire, Signal, Unlock
  <2>2. mutex = t /\ mutex' = t
    BY <2>1 DEF WrapInv, AnyCount, Placed, InCritical, Take, Testing, Increment, Goto
  <2>3. QED
    BY <2>2
<1>2. QED
  BY <1>1, WrapInvariant, PTL DEF KSpec

(* A client that destroys the semaphore when all tokens are accounted for   *)
(* does not pull it from under a poster (ccsem.c:301-304).                  *)
THEOREM SemOutlivesPosts == KSpec /\ []Room => []NoUseAfterDestroy
  BY IInvSafe, KernelInvariant, PTL DEF KInv

(* Tokens are conserved on every platform.                                  *)
THEOREM TokensKept == KSpec /\ []Room => []TokensConserved
<1>1. KInv => TokensConserved
  BY DEF KInv, IInv
<1>2. QED
  BY <1>1, KernelInvariant, PTL

(* ccsem.c implements the abstract semaphore on all its platforms.          *)
THEOREM KernelImplementsSemaphore == KSpec /\ []Room => ImplementsSemaphore
<1>1. KInit => Promise!Init
  BY DEF KInit, Init, Promise!Init, Looked
<1>2. Room /\ KInv /\ KInv' /\ [KNext]_kvars => [Promise!Next]_(Promise!vars)
  <2> SUFFICES ASSUME Room, KInv, KInv', [KNext]_kvars PROVE [Promise!Next]_(Promise!vars)
    OBVIOUS
  <2>1. CASE PosixNext
    BY <2>1, StepPromise DEF KInv, PosixNext, Room, Adding, Fits
  <2>2. CASE KernelNext
    <3> USE SemAssumption
    <3> USE DEF KInv, IInv, TypeOK, ControlOK, ControlInv, Placed, PC, Waits, Goto, Settle, Ends, calls, history,
                Promise!Waits, Promise!Pending, Promise!EndsWith, Promise!vars, Looked, InKernel
    <3>0. Looked = {} /\ Looked' = {}
      BY <2>2 DEF KernelNext
    <3>1. ASSUME NEW t \in Threads, KernelTake(t) PROVE Promise!Take(t)
      BY <3>1, <3>0 DEF KernelTake, Promise!Take
    <3>2. ASSUME NEW t \in Threads, KernelDenies(t) \/ KernelExpires(t) PROVE Promise!Deny(t)
      BY <3>2, <3>0 DEF KernelDenies, KernelExpires, MayExpire, Promise!Deny
    <3>3. ASSUME NEW t \in Threads, KernelWaitFails(t) PROVE Promise!Fail(t)
      BY <3>3, <3>0 DEF KernelWaitFails, Promise!Fail
    <3>4. ASSUME NEW t \in Threads, KernelPost(t) PROVE Promise!Put(t) \/ Promise!Fail(t)
      BY <3>4, <3>0 DEF KernelPost, Reported, Promise!Put, Promise!Fail
    <3>5. ASSUME NEW t \in Threads, Leave(t) PROVE Promise!Return(t)
      BY <3>5, <3>0 DEF Leave, Promise!Return
    <3>6. ASSUME Destroy \/ DestroyReturned PROVE UNCHANGED Promise!vars
      BY <3>6, <3>0 DEF Destroy, DestroyReturned
    <3>7. QED
      BY <2>2, <3>1, <3>2, <3>3, <3>4, <3>5, <3>6 DEF KernelNext, KernelStep, Promise!Next
  <2>3. QED
    BY <2>1, <2>2, KernelCases
<1>3. QED
  BY <1>1, <1>2, KernelInvariant, PTL DEF KSpec, ImplementsSemaphore, Promise!Spec
===========================================================================
