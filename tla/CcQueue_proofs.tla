--------------------------- MODULE CcQueue_proofs ---------------------------
(* Proofs about the bounded queue on a ccmutex and two cccondvars, for      *)
(* every finite set of producers and consumers, every capacity, and however *)
(* many levels of the mutex a caller holds.                                 *)
EXTENDS CcQueue, FiniteSetTheorems, SequenceTheorems, TLAPS

(* One step in or out of a finite set of threads, counted.                  *)
LEMMA CountStep ==
  ASSUME NEW S \in SUBSET Threads, NEW t \in Threads
  PROVE  /\ Cardinality(S) \in Nat
         /\ t \in S => Cardinality(S \ {t}) = Cardinality(S) - 1 /\ Cardinality(S) > 0
         /\ t \notin S => Cardinality(S \cup {t}) = Cardinality(S) + 1
<1>1. IsFiniteSet(S)
  BY QueueAssumption, FS_Subset
<1>2. t \in S => Cardinality(S) # 0
  BY <1>1, FS_EmptySet
<1>3. QED
  BY <1>1, <1>2, FS_CardinalityType, FS_AddElement, FS_RemoveElement

(* The indices stay numbers.                                                *)
LEMMA SuccessorType == \A i \in Nat : Successor(i) \in Nat
  BY QueueAssumption DEF Successor

(* Types, the mutex and who is where: everything but the ring and the       *)
(* counting conjunct.                                                       *)
BaseInv == TypeOK /\ LevelInv /\ \A t \in Threads : HeldInv(t)

(* One step per action.                                                     *)
LEMMA StepBase == BaseInv /\ [Next]_vars => BaseInv'
<1> SUFFICES ASSUME BaseInv, [Next]_vars PROVE BaseInv'
  OBVIOUS
<1> USE QueueAssumption, MutexAssumption, SuccessorType
<1> USE DEF BaseInv, TypeOK, MutexTypeOK, CondTypeOK, LevelInv, HeldInv, PC, Awaits,
            Goto, mutex, queue
<1>1. ASSUME NEW t \in Threads, Lock(t) PROVE BaseInv'
  BY <1>1 DEF Lock, TakeLevel, Grants
<1>2. ASSUME NEW t \in Threads, Wait(t) PROVE BaseInv'
  BY <1>2 DEF Wait, Sleep, GiveLevel
<1>3. ASSUME NEW t \in Threads, WokenEarly(t) PROVE BaseInv'
  BY <1>3 DEF WokenEarly, WakeEarly
<1>4. ASSUME NEW t \in Threads, WaitReturns(t) PROVE BaseInv'
  BY <1>4 DEF WaitReturns, TakeLevel, Grants
<1>5. ASSUME NEW t \in Threads, Push(t) PROVE BaseInv'
  BY <1>5 DEF Push, Full
<1>6. ASSUME NEW t \in Threads, Pop(t) PROVE BaseInv'
  BY <1>6 DEF Pop, Empty
<1>7. ASSUME NEW t \in Threads, Notify(t) PROVE BaseInv'
  BY <1>7 DEF Notify, Signal, Broadcast, Notifies
<1>8. ASSUME NEW t \in Threads, Unlock(t) PROVE BaseInv'
  BY <1>8 DEF Unlock, GiveLevel
<1>9. CASE UNCHANGED vars
  BY <1>9 DEF vars
<1>10. QED
  BY <1>1, <1>2, <1>3, <1>4, <1>5, <1>6, <1>7, <1>8, <1>9 DEF Next, Step

(* Why nobody is left asleep: an item, or a slot, appears together with a   *)
(* thread that is about to notify, the notification turns a sleeper into a  *)
(* taker, and a taker gives up its place only by taking one or finding none.*)
LEMMA StepWakeup ==
  ASSUME NEW c \in Conds, BaseInv, WakeupInv(c), [Next]_vars
  PROVE  WakeupInv(c)'
<1> USE QueueAssumption, MutexAssumption
<1> USE DEF BaseInv, TypeOK, MutexTypeOK, CondTypeOK, LevelInv, HeldInv, WakeupInv, PC, Awaits,
            Notifies, Goto, mutex, queue
<1>1. Takers(c) \in SUBSET Threads /\ Cardinality(Takers(c)) \in Nat
  <2>1. Takers(c) \in SUBSET Threads
    BY DEF Takers
  <2>2. QED
    BY <2>1, FS_Subset, FS_CardinalityType
<1>2. Available(c) \in Nat
  BY DEF Available
<1>3. ASSUME NEW t \in Threads, Lock(t) PROVE WakeupInv(c)'
  <2>1. asleep' = asleep /\ Notifying(c)' = Notifying(c) /\ Available(c)' = Available(c)
    BY <1>3 DEF Lock, Notifying, Available
  <2>2. Takers(c)' = Takers(c) \/ (t \notin Takers(c) /\ Takers(c)' = Takers(c) \cup {t})
    BY <1>3 DEF Lock, Takers, Woken
  <2>3. Cardinality(Takers(c)') \in Nat /\ Cardinality(Takers(c)') >= Cardinality(Takers(c))
    BY <1>1, <2>2, CountStep
  <2>4. QED
    BY <1>1, <1>2, <2>1, <2>3
<1>4. ASSUME NEW t \in Threads, Wait(t) PROVE WakeupInv(c)'
  <2>1. CASE Awaits(t) = c
    <3>1. Available(c)' = 0
      BY <1>4, <2>1 DEF Wait, Blocked, Full, Empty, Available
    <3>2. Takers(c)' \in SUBSET Threads
      BY DEF Takers
    <3>3. Cardinality(Takers(c)') \in Nat
      BY <3>2, FS_Subset, FS_CardinalityType
    <3>4. QED
      BY <3>1, <3>3
  <2>2. CASE Awaits(t) # c
    <3>1. asleep'[c] = asleep[c]
      BY <1>4, <2>2 DEF Wait, Sleep
    <3>2. Notifying(c)' = Notifying(c) /\ Available(c)' = Available(c)
      BY <1>4 DEF Wait, Notifying, Available
    <3>3. Takers(c)' = Takers(c)
      BY <1>4, <2>2, <3>1 DEF Wait, Takers, Woken
    <3>4. QED
      BY <3>1, <3>2, <3>3
  <2>3. QED
    BY <2>1, <2>2
<1>5. ASSUME NEW t \in Threads, WokenEarly(t) PROVE WakeupInv(c)'
  <2>1. asleep'[c] \subseteq asleep[c] /\ Notifying(c)' = Notifying(c) /\ Available(c)' = Available(c)
    BY <1>5 DEF WokenEarly, WakeEarly, Notifying, Available
  <2>2. Takers(c)' = Takers(c) \/ (t \notin Takers(c) /\ Takers(c)' = Takers(c) \cup {t})
    BY <1>5 DEF WokenEarly, WakeEarly, Takers, Woken
  <2>3. Cardinality(Takers(c)') \in Nat /\ Cardinality(Takers(c)') >= Cardinality(Takers(c))
    BY <1>1, <2>2, CountStep
  <2>4. QED
    BY <1>1, <1>2, <2>1, <2>3
<1>6. ASSUME NEW t \in Threads, Push(t) \/ Pop(t) PROVE WakeupInv(c)'
  <2>1. asleep' = asleep
    BY <1>6 DEF Push, Pop
  <2>2. CASE Awaits(t) = c
    <3>1. t \in Takers(c) /\ Takers(c)' = Takers(c) \ {t}
      BY <1>6, <2>2 DEF Push, Pop, Takers, Woken
    <3>2. Cardinality(Takers(c)') = Cardinality(Takers(c)) - 1
      BY <1>1, <3>1, CountStep
    <3>3. Available(c)' = Available(c) - 1
      BY <1>6, <2>2 DEF Push, Pop, Available
    <3>4. Notifying(c)' = Notifying(c)
      BY <1>6, <2>2 DEF Push, Pop, Notifying
    <3>5. QED
      BY <1>1, <1>2, <2>1, <3>2, <3>3, <3>4
  <2>3. CASE Awaits(t) # c
    <3>1. Takers(c)' = Takers(c)
      BY <1>6, <2>3 DEF Push, Pop, Takers, Woken
    <3>2. Available(c)' = Available(c) + 1
      BY <1>6, <2>3 DEF Push, Pop, Available
    <3>3. Notifying(c) = {} /\ t \in Notifying(c)'
      BY <1>6, <2>3 DEF Push, Pop, Notifying
    <3>4. QED
      BY <1>1, <1>2, <2>1, <3>1, <3>2, <3>3
  <2>4. QED
    BY <2>2, <2>3
<1>7. ASSUME NEW t \in Threads, Notify(t) PROVE WakeupInv(c)'
  <2>1. Available(c)' = Available(c)
    BY <1>7 DEF Notify, Available
  <2>2. CASE Notifies(t) # c
    <3>1. asleep'[c] = asleep[c]
      BY <1>7, <2>2 DEF Notify, Signal, Broadcast
    <3>2. Takers(c)' = Takers(c) /\ Notifying(c)' = Notifying(c)
      BY <1>7, <2>2, <3>1 DEF Notify, Takers, Woken, Notifying
    <3>3. QED
      BY <2>1, <3>1, <3>2
  <2>3. CASE Notifies(t) = c
    <3>1. CASE asleep'[c] = {}
      BY <3>1
    <3>2. CASE asleep'[c] # {}
      <4>1. PICK w \in asleep[c] : asleep' = [asleep EXCEPT ![c] = @ \ {w}]
        BY <1>7, <2>3, <3>2 DEF Notify, Signal, Broadcast
      <4>2. w \in Threads /\ w \notin Takers(c) /\ Takers(c)' = Takers(c) \cup {w}
        BY <1>7, <4>1 DEF Notify, Takers, Woken
      <4>3. Cardinality(Takers(c)') = Cardinality(Takers(c)) + 1
        BY <1>1, <4>2, CountStep
      <4>4. QED
        BY <1>1, <1>2, <2>1, <4>1, <4>3
    <3>3. QED
      BY <3>1, <3>2
  <2>4. QED
    BY <2>2, <2>3
<1>8. ASSUME NEW t \in Threads, WaitReturns(t) \/ Unlock(t) PROVE WakeupInv(c)'
  <2>1. asleep' = asleep /\ Available(c)' = Available(c)
    BY <1>8 DEF WaitReturns, Unlock, Available
  <2>2. Takers(c)' = Takers(c) /\ Notifying(c)' = Notifying(c)
    BY <1>8 DEF WaitReturns, Unlock, Takers, Woken, Notifying
  <2>3. QED
    BY <2>1, <2>2
<1>9. CASE UNCHANGED vars
  BY <1>9 DEF vars, Takers, Woken, Notifying, Available
<1>10. QED
  BY <1>3, <1>4, <1>5, <1>6, <1>7, <1>8, <1>9 DEF Next, Step

(* An index that has run at most once around the buffer.                    *)
Wrapped(x) == IF x < Capacity THEN x ELSE x - Capacity

LEMMA Around ==
  ASSUME NEW x \in Nat, x < 2 * Capacity
  PROVE  x % Capacity = Wrapped(x)
<1> USE QueueAssumption DEF Wrapped
<1> DEFINE q == x \div Capacity
           r == x % Capacity
<1>1. q \in Nat /\ r \in 0..(Capacity - 1) /\ x = Capacity * q + r
  OBVIOUS
<1> HIDE DEF q, r
<1>2. q = 0 \/ q = 1 \/ q >= 2
  BY <1>1
<1>3. CASE q = 0
  <2>1. x = r
    BY <1>1, <1>3
  <2>2. QED
    BY <1>1, <2>1 DEF r
<1>4. CASE q = 1
  <2>1. x = Capacity + r
    BY <1>1, <1>4
  <2>2. QED
    BY <1>1, <2>1 DEF r
<1>5. CASE q >= 2
  <2>1. Capacity * q >= Capacity * 2
    BY <1>1, <1>5
  <2>2. QED
    BY <1>1, <2>1
<1>6. QED
  BY <1>2, <1>3, <1>4, <1>5

LEMMA InitRing == Init => RingInv
<1> SUFFICES ASSUME Init PROVE RingInv
  OBVIOUS
<1> USE QueueAssumption DEF Init
<1>1. (head + count) % Capacity = 0
  BY Around
<1>2. QED
  BY <1>1 DEF RingInv, Slots

(* Where tail is, in plain arithmetic.                                      *)
LEMMA Ends ==
  ASSUME TypeOK, RingInv
  PROVE  /\ head < Capacity /\ tail < Capacity /\ count <= Capacity
         /\ tail = IF head + count < Capacity THEN head + count ELSE head + count - Capacity
         /\ Successor(head) = IF head + 1 < Capacity THEN head + 1 ELSE 0
         /\ Successor(tail) = IF tail + 1 < Capacity THEN tail + 1 ELSE 0
<1>1. /\ Capacity \in Nat /\ head \in Nat /\ tail \in Nat /\ count \in Nat
      /\ head < Capacity /\ tail < Capacity /\ count <= Capacity
      /\ tail = (head + count) % Capacity
  BY QueueAssumption DEF TypeOK, RingInv, Slots
<1>2. head + count \in Nat /\ head + count < 2 * Capacity
  BY <1>1
<1>3. (head + count) % Capacity = Wrapped(head + count)
  BY <1>2, Around
<1>4. ASSUME NEW i \in Nat, i < Capacity
      PROVE  Successor(i) = IF i + 1 < Capacity THEN i + 1 ELSE 0
  <2>1. i + 1 \in Nat /\ i + 1 < 2 * Capacity
    BY <1>1, <1>4
  <2>2. (i + 1) % Capacity = Wrapped(i + 1)
    BY <2>1, Around
  <2>4. i + 1 < Capacity \/ i + 1 = Capacity
    BY <1>1, <1>4
  <2>5. QED
    BY <1>1, <2>2, <2>4 DEF Successor, Wrapped
<1>5. QED
  BY <1>1, <1>3, <1>4 DEF Wrapped

(* Each index of the ring, counted from head.                               *)
LEMMA Slot ==
  ASSUME TypeOK, RingInv, NEW i \in 1..Capacity
  PROVE  (head + i - 1) % Capacity = Wrapped(head + i - 1)
<1>1. head \in Nat /\ head < Capacity /\ Capacity \in Nat
  BY QueueAssumption DEF TypeOK, RingInv, Slots
<1>2. head + i - 1 \in Nat /\ head + i - 1 < 2 * Capacity
  BY <1>1
<1>3. QED
  BY <1>2, Around

(* A thread that leaves the test has an item left to move, and its item is  *)
(* one of Items.                                                            *)
LEMMA StepRing == TypeOK /\ RingInv /\ [Next]_vars => RingInv'
<1> SUFFICES ASSUME TypeOK, RingInv, [Next]_vars PROVE RingInv'
  OBVIOUS
<1>1. TypeOK /\ Capacity \in Nat /\ Moves \in Nat
  BY QueueAssumption
<1>2. ASSUME NEW t \in Threads, Push(t) PROVE RingInv'
  <2>1. head' = head /\ tail' = Successor(tail) /\ count' = count + 1 /\ count < Capacity
    BY <1>1, <1>2 DEF Push, Full, TypeOK
  <2>2. head \in Nat /\ count \in Nat
    BY <1>1 DEF TypeOK
  <2>3. head' + count' \in Nat /\ head' + count' < 2 * Capacity
    BY <1>1, <2>1, <2>2, Ends
  <2>4. (head' + count') % Capacity = Wrapped(head' + count')
    BY <2>3, Around
  <2>5. tail' = Wrapped(head' + count')
    BY <1>1, <2>1, <2>2, Ends DEF Wrapped
  <2>6. tail' \in Slots
    <3>1. tail \in Nat /\ tail < Capacity
      BY <1>1, QueueAssumption DEF TypeOK, RingInv, Slots
    <3>2. Successor(tail) = IF tail + 1 < Capacity THEN tail + 1 ELSE 0
      BY <1>1, Ends
    <3>3. QED
      BY <1>1, <2>1, <3>1, <3>2, QueueAssumption DEF Slots
  <2>7. moved[t] \in 0..Moves /\ <<t, moved[t]>> \in Items
    BY <1>1, <1>2 DEF Push, Goto, TypeOK, RingInv, Items
  <2>8. buf' \in [Slots -> Items \cup {<<>>}] /\ item' \in [Consumers -> Items \cup {<<>>}]
    BY <1>2, <2>7 DEF Push, RingInv
  <2>9. \A u \in Threads : pc'[u] \in {"test", "wait"} => moved'[u] < Moves
    BY <1>1, <1>2 DEF Push, Goto, TypeOK, RingInv
  <2>10. QED
    BY <2>1, <2>4, <2>5, <2>6, <2>8, <2>9 DEF RingInv
<1>3. ASSUME NEW t \in Threads, Pop(t) PROVE RingInv'
  <2>1. head' = Successor(head) /\ tail' = tail /\ count' = count - 1 /\ count > 0
    BY <1>1, <1>3 DEF Pop, Empty, TypeOK
  <2>2. head \in Nat /\ count \in Nat
    BY <1>1 DEF TypeOK
  <2>3. head' + count' \in Nat /\ head' + count' < 2 * Capacity
    BY <1>1, <2>1, <2>2, Ends
  <2>4. (head' + count') % Capacity = Wrapped(head' + count')
    BY <2>3, Around
  <2>5. tail' = Wrapped(head' + count')
    BY <1>1, <2>1, <2>2, Ends DEF Wrapped
  <2>6. head' \in Slots
    <3>1. head \in Nat /\ head < Capacity
      BY <1>1, QueueAssumption DEF TypeOK, RingInv, Slots
    <3>2. Successor(head) = IF head + 1 < Capacity THEN head + 1 ELSE 0
      BY <1>1, Ends
    <3>3. QED
      BY <1>1, <2>1, <3>1, <3>2, QueueAssumption DEF Slots
  <2>7. buf' = buf /\ item' \in [Consumers -> Items \cup {<<>>}]
    <3>1. head \in Slots /\ buf[head] \in Items \cup {<<>>}
      BY DEF RingInv
    <3>2. QED
      BY <1>3, <3>1 DEF Pop, First, RingInv
  <2>8. \A u \in Threads : pc'[u] \in {"test", "wait"} => moved'[u] < Moves
    BY <1>1, <1>3 DEF Pop, Goto, TypeOK, RingInv
  <2>9. QED
    BY <2>1, <2>4, <2>5, <2>6, <2>7, <2>8 DEF RingInv
<1>4. ASSUME NEW t \in Threads,
             Lock(t) \/ Wait(t) \/ WaitReturns(t) \/ Notify(t) \/ Unlock(t) \/ WokenEarly(t)
      PROVE  RingInv'
  <2>1. UNCHANGED queue /\ UNCHANGED moved
    BY <1>4 DEF Lock, Wait, WaitReturns, Notify, Unlock, WokenEarly
  <2>2. \A u \in Threads : pc'[u] \in {"test", "wait"} => moved[u] < Moves
    BY <1>1, <1>4
       DEF Lock, Wait, WaitReturns, Notify, Unlock, WokenEarly, Goto, TypeOK, RingInv
  <2>3. item' \in [Consumers -> Items \cup {<<>>}]
    BY <1>4 DEF Lock, Wait, WaitReturns, Notify, Unlock, WokenEarly, RingInv
  <2>4. QED
    BY <2>1, <2>2, <2>3 DEF RingInv, queue
<1>5. CASE UNCHANGED vars
  BY <1>5 DEF vars, queue, RingInv
<1>6. QED
  BY <1>2, <1>3, <1>4, <1>5 DEF Next, Step

(* A queue that has just been made.                                         *)
LEMMA InitIInv == Init => IInv
<1> SUFFICES ASSUME Init PROVE IInv
  OBVIOUS
<1> USE QueueAssumption, MutexAssumption DEF Init, MutexInit, CondInit
<1>1. TypeOK
  BY DEF TypeOK, MutexTypeOK, CondTypeOK, PC, Slots
<1>2. LevelInv /\ \A t \in Threads : HeldInv(t)
  BY DEF LevelInv, HeldInv
<1>3. RingInv
  BY InitRing
<1>4. QED
  BY <1>1, <1>2, <1>3 DEF IInv, WakeupInv

(* The strengthening is an invariant of the queue, however many levels of   *)
(* the mutex its callers hold.                                              *)
THEOREM QueueInvariant == Spec => []IInv
<1>1. IInv /\ [Next]_vars => IInv'
  BY StepBase, StepRing, StepWakeup DEF IInv, BaseInv
<1>2. QED
  BY <1>1, InitIInv, PTL DEF Spec

(* When the mutex is free, all who count as takers have been woken.         *)
LEMMA FreeMutex ==
  ASSUME IInv, owner = NoThread, NEW c \in Conds
  PROVE  Takers(c) = Woken(c) /\ Notifying(c) = {} /\ Cardinality(Woken(c)) \in Nat
<1>1. Takers(c) = Woken(c) /\ Notifying(c) = {}
  BY MutexAssumption DEF IInv, HeldInv, Takers, Woken, Notifying
<1>2. Woken(c) \in SUBSET Threads
  BY DEF Woken
<1>3. QED
  BY <1>1, <1>2, QueueAssumption, FS_Subset, FS_CardinalityType

(* No wakeup is lost: when the mutex is free, nobody sleeps beside an item, *)
(* or a slot, that no woken thread is coming for (cccondvar.c:93-113).      *)
THEOREM QueueSafety == Spec => []NoLostWakeup
<1>1. ASSUME IInv, NEW c \in Conds, owner = NoThread, asleep[c] # {}
      PROVE  Available(c) <= Cardinality(Woken(c))
  BY <1>1, FreeMutex, QueueAssumption DEF IInv, TypeOK, WakeupInv, Available
<1>2. IInv => NoLostWakeup
  BY <1>1 DEF NoLostWakeup
<1>3. QED
  BY <1>2, QueueInvariant, PTL

(* Producers and consumers are never asleep on each other: that would take  *)
(* a queue that is full and empty.                                          *)
THEOREM QueueNeverStuck == Spec => []NeverBothAsleep
<1>1. ASSUME IInv, owner = NoThread, \A c \in Conds : Woken(c) = {}
      PROVE  \E c \in Conds : asleep[c] = {}
  <2>1. SUFFICES ASSUME \A c \in Conds : asleep[c] # {} PROVE FALSE
    OBVIOUS
  <2>2. ASSUME NEW c \in Conds PROVE Available(c) <= 0
    <3>1. Cardinality(Woken(c)) = 0
      BY <1>1, FS_EmptySet
    <3>2. QED
      BY <1>1, <2>1, <3>1, FreeMutex DEF IInv, WakeupInv
  <2>3. Available("not_empty") <= 0 /\ Available("not_full") <= 0
    BY <2>2, QueueAssumption
  <2>4. QED
    BY <1>1, <2>3, QueueAssumption DEF IInv, TypeOK, Available
<1>2. IInv => NeverBothAsleep
  BY <1>1 DEF NeverBothAsleep
<1>3. QED
  BY <1>2, QueueInvariant, PTL

(* A caller that holds one level has released the mutex when it is asleep   *)
(* in a wait (ccmutex.h:299).                                               *)
THEOREM OneLevelIsReleased == ASSUME Depth = 1 PROVE Spec => []SleepersReleased
<1>1. IInv => SleepersReleased
  BY MutexAssumption DEF IInv, TypeOK, CondTypeOK, HeldInv, SleepersReleased
<1>2. QED
  BY <1>1, QueueInvariant, PTL

(* One that holds more keeps the mutex all through its wait: it can be      *)
(* notified by nobody (cccondvar.c:93-113).                                 *)
THEOREM NestedWaitKeepsMutex ==
  ASSUME Depth > 1
  PROVE  Spec => [](\A t \in Threads : pc[t] = "wait" => owner = t)
<1>1. IInv => \A t \in Threads : pc[t] = "wait" => owner = t
  BY QueueAssumption DEF IInv, HeldInv
<1>2. QED
  BY <1>1, QueueInvariant, PTL

(* The buffer and its indices are plain memory: only the thread that has    *)
(* the mutex, and keeps it in that step, changes them                       *)
(* (examples/cccondvar_basic.c:52-75).                                      *)
QueueUnderMutex == queue' # queue => \E t \in Threads : owner = t /\ owner' = t

THEOREM QueueIsGuarded == Spec => [][QueueUnderMutex]_vars
<1>1. IInv /\ [Next]_vars => [QueueUnderMutex]_vars
  <2> SUFFICES ASSUME IInv, [Next]_vars, queue' # queue
               PROVE  \E t \in Threads : owner = t /\ owner' = t
    BY DEF QueueUnderMutex
  <2>1. PICK t \in Threads : Push(t) \/ Pop(t)
    BY DEF Next, Step, Lock, Wait, WaitReturns, Notify, Unlock, WokenEarly, vars
  <2>2. owner = t /\ owner' = t
    BY <2>1 DEF IInv, HeldInv, Push, Pop, Goto, mutex
  <2>3. QED
    BY <2>2
<1>2. QED
  BY <1>1, QueueInvariant, PTL DEF Spec

(* The buffer, read from head, is the sequence of what it holds.            *)
ContentIs ==
  /\ Content \in Seq(Items \cup {<<>>})
  /\ Len(Content) = count
  /\ \A i \in 1..count : Content[i] = buf[Wrapped(head + i - 1)]

LEMMA ContentRead == TypeOK /\ RingInv => ContentIs
<1> SUFFICES ASSUME TypeOK, RingInv PROVE ContentIs
  OBVIOUS
<1>1. count \in Nat /\ head \in Nat /\ Capacity \in Nat /\ count <= Capacity
  BY QueueAssumption DEF TypeOK
<1>2. ASSUME NEW i \in 1..count
      PROVE  /\ Content[i] = buf[Wrapped(head + i - 1)]
             /\ (head + i - 1) % Capacity = Wrapped(head + i - 1)
             /\ buf[Wrapped(head + i - 1)] \in Items \cup {<<>>}
  <2>1. i \in 1..Capacity
    BY <1>1, <1>2
  <2>2. (head + i - 1) % Capacity = Wrapped(head + i - 1)
    BY <2>1, Slot
  <2>3. Wrapped(head + i - 1) \in Slots
    BY <1>1, <2>1, Ends DEF Wrapped, Slots
  <2>4. Content[i] = buf[(head + i - 1) % Capacity]
    BY <1>2 DEF Content
  <2>5. QED
    BY <2>2, <2>3, <2>4 DEF RingInv
<1>3. Content \in [1..count -> Items \cup {<<>>}]
  BY <1>2 DEF Content
<1>4. Content \in Seq(Items \cup {<<>>})
  BY <1>1, <1>3, SeqDef
<1>5. Len(Content) = count
  BY <1>1, <1>3, <1>4
<1>6. QED
  BY <1>2, <1>4, <1>5 DEF ContentIs

LEMMA ContentReadNext == (TypeOK /\ RingInv)' => ContentIs'
  BY ContentRead, PTL

(* Push writes the slot after the last, and every other slot keeps its      *)
(* place in the sequence.                                                   *)
LEMMA PushAppends ==
  ASSUME TypeOK, RingInv, TypeOK', RingInv', NEW t \in Threads, Push(t)
  PROVE  /\ <<t, moved[t]>> \in Items /\ Len(Content) < Capacity
         /\ count' = count + 1
         /\ Content' = Append(Content, <<t, moved[t]>>)
         /\ Content'[count + 1] = <<t, moved[t]>>
         /\ \A i \in 1..count : Content'[i] = Content[i]
<1>1. TypeOK /\ TypeOK' /\ Capacity \in Nat
  BY QueueAssumption
<1>2. ContentIs /\ ContentIs'
  BY <1>1, ContentRead, ContentReadNext
<1>3. count \in Nat /\ head \in Nat /\ tail \in Nat /\ count <= Capacity
  BY <1>1 DEF TypeOK
<1> DEFINE x == <<t, moved[t]>>
<1>4. head' = head /\ count' = count + 1 /\ count < Capacity
  BY <1>1 DEF Push, Full, TypeOK
<1>5. buf' = [buf EXCEPT ![tail] = x]
  BY DEF Push
<1>6. x \in Items
  BY <1>1 DEF Push, Goto, TypeOK, RingInv, Items
<1>7. tail = Wrapped(head + count) /\ tail \in Slots /\ buf \in [Slots -> Items \cup {<<>>}]
  <2>1. tail = IF head + count < Capacity THEN head + count ELSE head + count - Capacity
    BY <1>1, Ends
  <2>2. tail = Wrapped(head + count)
    BY <1>3, <2>1, QueueAssumption DEF Wrapped
  <2>3. tail \in Slots /\ buf \in [Slots -> Items \cup {<<>>}]
    BY DEF RingInv
  <2>4. QED
    BY <2>2, <2>3
<1> HIDE DEF x
<1>8. /\ Append(Content, x) \in Seq(Items \cup {<<>>})
      /\ Len(Append(Content, x)) = count + 1
      /\ \A i \in 1..count : Append(Content, x)[i] = Content[i]
      /\ Append(Content, x)[count + 1] = x
  <2>1. /\ Content \in Seq(Items \cup {<<>>}) /\ x \in Items \cup {<<>>}
        /\ Len(Content) = count
    BY <1>2, <1>6 DEF ContentIs
  <2> DEFINE s == Content
             S == Items \cup {<<>>}
  <2> HIDE DEF s, S
  <2>2. s \in Seq(S) /\ x \in S /\ Len(s) = count
    BY <2>1 DEF s, S
  <2>3. /\ Append(s, x) \in Seq(S) /\ Len(Append(s, x)) = count + 1
        /\ \A i \in 1..count : Append(s, x)[i] = s[i]
        /\ Append(s, x)[count + 1] = x
    BY <2>2, AppendProperties
  <2>4. QED
    BY <2>3 DEF s, S
<1>9. ASSUME NEW i \in 1..count PROVE Content'[i] = Append(Content, x)[i]
  <2>1. Content'[i] = buf'[Wrapped(head + i - 1)]
    BY <1>2, <1>3, <1>4, <1>9 DEF ContentIs, Wrapped
  <2>2. Wrapped(head + i - 1) # tail
    BY <1>1, <1>3, <1>4, <1>7, <1>9, Ends DEF Wrapped
  <2>3. Wrapped(head + i - 1) \in Slots
    BY <1>1, <1>3, <1>9, Ends DEF Wrapped, Slots
  <2>4. buf'[Wrapped(head + i - 1)] = buf[Wrapped(head + i - 1)]
    BY <1>5, <1>7, <2>2, <2>3
  <2>5. QED
    BY <1>2, <1>8, <1>9, <2>1, <2>4 DEF ContentIs
<1>10. Content'[count + 1] = x
  <2>1. Content'[count + 1] = buf'[Wrapped(head' + (count + 1) - 1)]
    BY <1>2, <1>3, <1>4 DEF ContentIs
  <2>2. head' + (count + 1) - 1 = head + count
    BY <1>3, <1>4
  <2>3. QED
    BY <1>5, <1>7, <2>1, <2>2
<1>11. Content' = Append(Content, x)
  <2>1. \A i \in 1..(count + 1) : Content'[i] = Append(Content, x)[i]
    BY <1>3, <1>8, <1>9, <1>10
  <2>2. Content' \in Seq(Items \cup {<<>>}) /\ Len(Content') = count + 1
    BY <1>2, <1>4 DEF ContentIs
  <2>3. QED
    BY <1>8, <2>1, <2>2, SeqEqual
<1>12. Len(Content) < Capacity
  BY <1>2, <1>4 DEF ContentIs
<1>13. QED
  BY <1>4, <1>6, <1>8, <1>9, <1>10, <1>11, <1>12 DEF x

(* Pop gives up the first slot, and every other one moves up by one place.  *)
LEMMA PopTails ==
  ASSUME TypeOK, RingInv, TypeOK', RingInv', NEW t \in Threads, Pop(t)
  PROVE  /\ Content # <<>> /\ Content' = Tail(Content)
         /\ item' = [item EXCEPT ![t] = Head(Content)]
         /\ count' = count - 1
         /\ \A i \in 1..(count - 1) : Content'[i] = Content[i + 1]
<1>1. TypeOK /\ TypeOK' /\ Capacity \in Nat
  BY QueueAssumption
<1>2. ContentIs /\ ContentIs'
  BY <1>1, ContentRead, ContentReadNext
<1>3. count \in Nat /\ head \in Nat /\ tail \in Nat /\ count <= Capacity
  BY <1>1 DEF TypeOK
<1>4. head' = Successor(head) /\ count' = count - 1 /\ count > 0 /\ buf' = buf
  BY <1>1 DEF Pop, Empty, TypeOK
<1>5. Content # <<>>
  BY <1>2, <1>4, EmptySeq DEF ContentIs
<1>6. /\ Tail(Content) \in Seq(Items \cup {<<>>})
      /\ Len(Tail(Content)) = count - 1
      /\ \A i \in 1..(count - 1) : Tail(Content)[i] = Content[i + 1]
  BY <1>2, <1>5, HeadTailProperties DEF ContentIs
<1>7. ASSUME NEW i \in 1..(count - 1) PROVE Content'[i] = Tail(Content)[i]
  <2>1. Content'[i] = buf[Wrapped(Successor(head) + i - 1)]
    <3>1. Content'[i] = buf'[Wrapped(head' + i - 1)]
      BY <1>2, <1>4, <1>7 DEF ContentIs
    <3>2. QED
      BY <1>4, <3>1
  <2>2. i + 1 \in 1..count /\ head + (i + 1) - 1 = head + i
    BY <1>3, <1>7
  <2>3. Content[i + 1] = buf[Wrapped(head + (i + 1) - 1)]
    BY <1>2, <2>2 DEF ContentIs
  <2>4. Wrapped(Successor(head) + i - 1) = Wrapped(head + i)
    BY <1>1, <1>3, <1>7, Ends DEF Wrapped
  <2>5. QED
    BY <1>6, <1>7, <2>1, <2>2, <2>3, <2>4
<1>8. Content' = Tail(Content)
  <2>1. Content' \in Seq(Items \cup {<<>>}) /\ Len(Content') = count - 1
    BY <1>2, <1>4 DEF ContentIs
  <2>2. QED
    BY <1>6, <1>7, <2>1, SeqEqual
<1>9. buf[head] = Head(Content)
  <2>1. 1 \in 1..count /\ head + 1 - 1 = head /\ head < Capacity
    BY <1>1, <1>3, <1>4, Ends
  <2>2. Content[1] = buf[Wrapped(head)]
    BY <1>2, <2>1 DEF ContentIs
  <2>3. QED
    BY <1>2, <2>1, <2>2, <1>5, HeadTailProperties DEF ContentIs, Wrapped
<1>10. QED
  BY <1>4, <1>5, <1>6, <1>7, <1>8, <1>9 DEF Pop, First

(* Every other step leaves the buffer as it is.                             *)
LEMMA OthersKeepContent ==
  ASSUME [Next]_vars, \A t \in Threads : ~Push(t) /\ ~Pop(t)
  PROVE  UNCHANGED <<Content, count, moved>>
<1>1. ASSUME NEW t \in Threads,
             Lock(t) \/ Wait(t) \/ WaitReturns(t) \/ Notify(t) \/ Unlock(t) \/ WokenEarly(t)
      PROVE  UNCHANGED <<Content, count, moved>>
  BY <1>1 DEF Lock, Wait, WaitReturns, Notify, Unlock, WokenEarly, Content, queue
<1>2. CASE UNCHANGED vars
  BY <1>2 DEF vars, queue, Content
<1>3. QED
  BY <1>1, <1>2 DEF Next, Step

(* Every step is a step of the abstract queue or silent.                    *)
LEMMA StepPromise ==
  IInv /\ IInv' /\ [Next]_vars => [Promise!Next]_(Promise!vars)
<1> SUFFICES ASSUME IInv, IInv', [Next]_vars PROVE [Promise!Next]_(Promise!vars)
  OBVIOUS
<1>1. TypeOK /\ TypeOK' /\ RingInv /\ RingInv'
  BY DEF IInv
<1>2. ASSUME NEW t \in Threads, Push(t) PROVE Promise!Next
  <2>1. UNCHANGED item
    BY <1>2 DEF Push
  <2>2. QED
    BY <1>1, <1>2, <2>1, PushAppends DEF Promise!Next, Promise!Push
<1>3. ASSUME NEW t \in Threads, Pop(t) PROVE Promise!Next
  <2>1. t \in Consumers
    BY <1>3 DEF Pop
  <2>2. QED
    BY <1>1, <1>3, <2>1, PopTails DEF Promise!Next, Promise!Pop
<1>4. CASE \A t \in Threads : ~Push(t) /\ ~Pop(t)
  <2>1. UNCHANGED Content
    BY <1>4, OthersKeepContent
  <2>2. ASSUME NEW t \in Threads, Unlock(t) PROVE Promise!Next \/ UNCHANGED item
    <3>1. CASE UNCHANGED item
      BY <3>1
    <3>2. CASE item' # item
      <4>1. t \in Consumers /\ item' = [item EXCEPT ![t] = <<>>]
        BY <2>2, <3>2 DEF Unlock
      <4>2. item[t] # <<>>
        BY <1>1, <3>2, <4>1 DEF RingInv
      <4>3. QED
        BY <2>1, <4>1, <4>2 DEF Promise!Next, Promise!Return
    <3>3. QED
      BY <3>1, <3>2
  <2>3. ASSUME NEW t \in Threads,
               Lock(t) \/ Wait(t) \/ WaitReturns(t) \/ Notify(t) \/ WokenEarly(t)
        PROVE  UNCHANGED item
    BY <2>3 DEF Lock, Wait, WaitReturns, Notify, WokenEarly
  <2>4. CASE UNCHANGED vars
    BY <2>1, <2>4 DEF vars, Promise!vars
  <2>5. QED
    BY <1>4, <2>1, <2>2, <2>3, <2>4 DEF Next, Step, Promise!vars
<1>5. QED
  BY <1>2, <1>3, <1>4

(* Items come out of the circular buffer in the order they went in, each    *)
(* once, for every capacity and any number of producers and consumers.      *)
THEOREM QueueImplementsFifo == Spec => ImplementsFifo
<1>1. Init => Promise!Init
  <2> SUFFICES ASSUME Init PROVE Content = <<>>
    BY DEF Promise!Init, Init
  <2>1. TypeOK /\ RingInv /\ count = 0
    BY InitIInv DEF IInv, Init
  <2>2. QED
    BY <2>1, ContentRead, EmptySeq DEF ContentIs
<1>2. IInv /\ IInv' /\ [Next]_vars => [Promise!Next]_(Promise!vars)
  BY StepPromise
<1>3. QED
  BY <1>1, <1>2, QueueInvariant, PTL DEF Spec, ImplementsFifo, Promise!Spec

(* What a producer pushes is new, and behind all it has pushed before.      *)
LEMMA StepOrder == IInv /\ IInv' /\ InOrder /\ [Next]_vars => InOrder'
<1> SUFFICES ASSUME IInv, IInv', InOrder, [Next]_vars PROVE InOrder'
  OBVIOUS
<1>1. /\ TypeOK /\ TypeOK' /\ RingInv /\ RingInv'
      /\ count \in Nat /\ moved \in [Threads -> Nat]
  BY DEF IInv, TypeOK
<1>2. \A x \in Items : x[1] \in Threads \ Consumers /\ x[2] \in Nat
  BY DEF Items
<1>3. ASSUME NEW t \in Threads, Push(t) PROVE InOrder'
  <2> DEFINE x == <<t, moved[t]>>
  <2>1. /\ x \in Items /\ count' = count + 1 /\ Content'[count + 1] = x
        /\ \A i \in 1..count : Content'[i] = Content[i]
    BY <1>1, <1>3, PushAppends
  <2>2. x[1] = t /\ x[2] = moved[t]
    OBVIOUS
  <2> HIDE DEF x
  <2>3. moved' = [moved EXCEPT ![t] = @ + 1]
    BY <1>3 DEF Push
  <2>4. \A u \in Threads : moved[u] <= moved'[u]
    BY <1>1, <2>3
  <2>5. ASSUME NEW i \in 1..count, NEW j \in 1..(i - 1)
        PROVE  j \in 1..count
    BY <1>1
  <2>6. ASSUME NEW i \in 1..count
        PROVE  /\ Content'[i] \in Items /\ Content'[i][2] < moved'[Content'[i][1]]
               /\ \A j \in 1..(i - 1) :
                    Content'[i][1] = Content'[j][1] => Content'[j][2] < Content'[i][2]
    <3>1. Content'[i] = Content[i] /\ \A j \in 1..(i - 1) : Content'[j] = Content[j]
      BY <2>1, <2>5
    <3>2. Content[i] \in Items /\ Content[i][2] < moved[Content[i][1]]
      BY DEF InOrder
    <3>3. Content[i][2] < moved'[Content[i][1]]
      <4>1. Content[i][1] \in Threads /\ Content[i][2] \in Nat
        BY <1>2, <3>2
      <4>2. moved[Content[i][1]] \in Nat /\ moved'[Content[i][1]] \in Nat
            /\ moved[Content[i][1]] <= moved'[Content[i][1]]
        BY <1>1, <2>3, <2>4, <4>1
      <4>3. QED
        BY <3>2, <4>1, <4>2
    <3>4. QED
      BY <3>1, <3>2, <3>3 DEF InOrder
  <2>7. /\ x[2] < moved'[x[1]]
        /\ \A j \in 1..count : x[1] = Content'[j][1] => Content'[j][2] < x[2]
    BY <1>1, <2>1, <2>2, <2>3 DEF InOrder
  <2>8. \A i \in 1..(count + 1) : i \in 1..count \/ i = count + 1
    BY <1>1
  <2>9. (count + 1) - 1 = count
    BY <1>1
  <2>10. ASSUME NEW i \in 1..(count + 1)
         PROVE  /\ Content'[i] \in Items /\ Content'[i][2] < moved'[Content'[i][1]]
                /\ \A j \in 1..(i - 1) :
                     Content'[i][1] = Content'[j][1] => Content'[j][2] < Content'[i][2]
    BY <2>1, <2>6, <2>7, <2>8, <2>9
  <2>11. QED
    BY <2>1, <2>10 DEF InOrder
<1>4. ASSUME NEW t \in Threads, Pop(t) PROVE InOrder'
  <2>1. /\ count' = count - 1
        /\ \A i \in 1..(count - 1) : Content'[i] = Content[i + 1]
    BY <1>1, <1>4, PopTails
  <2>2. \A u \in Threads \ Consumers : moved'[u] = moved[u]
    BY <1>1, <1>4 DEF Pop
  <2>3. ASSUME NEW i \in 1..(count - 1)
        PROVE  /\ Content'[i] \in Items /\ Content'[i][2] < moved'[Content'[i][1]]
               /\ \A j \in 1..(i - 1) :
                    Content'[i][1] = Content'[j][1] => Content'[j][2] < Content'[i][2]
    <3>1. i + 1 \in 1..count /\ \A j \in 1..(i - 1) : j \in 1..(count - 1) /\ j + 1 \in 1..((i + 1) - 1)
      BY <1>1
    <3>2. Content'[i] = Content[i + 1] /\ \A j \in 1..(i - 1) : Content'[j] = Content[j + 1]
      BY <2>1, <3>1
    <3>3. /\ Content[i + 1] \in Items /\ Content[i + 1][2] < moved[Content[i + 1][1]]
          /\ \A j \in 1..((i + 1) - 1) :
               Content[i + 1][1] = Content[j][1] => Content[j][2] < Content[i + 1][2]
      BY <3>1 DEF InOrder
    <3>4. moved'[Content[i + 1][1]] = moved[Content[i + 1][1]]
      BY <1>2, <2>2, <3>3
    <3>5. QED
      BY <3>1, <3>2, <3>3, <3>4
  <2>4. QED
    BY <2>1, <2>3 DEF InOrder
<1>5. CASE UNCHANGED <<Content, count, moved>>
  BY <1>5 DEF InOrder
<1>6. QED
  BY <1>3, <1>4, <1>5, OthersKeepContent

(* Each producer's items are in the queue in the order it pushed them, and  *)
(* none twice.                                                              *)
THEOREM ProducersInOrder == Spec => []InOrder
<1>1. Init => InOrder
  BY DEF Init, InOrder
<1>2. IInv /\ IInv' /\ InOrder /\ [Next]_vars => InOrder'
  BY StepOrder
<1>3. QED
  BY <1>1, <1>2, QueueInvariant, PTL DEF Spec
=============================================================================
