------------------------------ MODULE CcQueue ------------------------------
(***************************************************************************)
(* ccmutex and cccondvar at work: the bounded queue of                     *)
(* examples/cccondvar_basic.c, one mutex and two condition variables, with *)
(* any number of producers and consumers.  Waits may also be timed and     *)
(* tested again on CCMUTEX_TIMEOUT, notifications may also be broadcasts.  *)
(***************************************************************************)
EXTENDS CcCondvar, FiniteSets

CONSTANTS
  Consumers,   \* the other threads are producers
  Capacity,    \* QUEUE_CAPACITY
  Depth,       \* levels of the mutex a caller holds when it waits
  Moves,       \* bound: items each thread pushes or pops (ITEMS)
  MaxEarly     \* bound: waits that end without a notification

ASSUME QueueAssumption ==
  /\ IsFiniteSet(Threads) /\ Consumers \subseteq Threads
  /\ Conds = {"not_full", "not_empty"}
  /\ Capacity \in Nat \ {0}
  /\ Depth \in Nat \ {0} /\ (Type = "PLAIN" => Depth = 1)
  /\ Moves \in Nat /\ MaxEarly \in Nat

VARIABLES buf, head, tail, count,
  pc,
  item,    \* the local of queue_pop, <<>> before it is read and after the return
  moved,   \* items each thread has pushed or popped
  early    \* waits that have ended without a notification

queue == <<buf, head, tail, count>>
vars == <<mutex, asleep, queue, pc, item, moved, early>>

Items == (Threads \ Consumers) \X (0..Moves)
Slots == 0..(Capacity - 1)
PC == {"lock", "test", "wait", "notify", "unlock"}

TypeOK ==
  /\ MutexTypeOK /\ CondTypeOK
  /\ DOMAIN buf = Slots
  /\ head \in Nat /\ tail \in Nat /\ count \in 0..Capacity
  /\ pc \in [Threads -> PC]
  /\ moved \in [Threads -> Nat] /\ early \in Nat

\* queue_create
Init ==
  /\ MutexInit /\ CondInit
  /\ buf = [i \in Slots |-> <<>>]
  /\ head = 0 /\ tail = 0 /\ count = 0
  /\ pc = [t \in Threads |-> "lock"]
  /\ item = [t \in Consumers |-> <<>>]
  /\ moved = [t \in Threads |-> 0] /\ early = 0

Goto(t, from, to) == pc[t] = from /\ pc' = [pc EXCEPT ![t] = to]

\* ccmutex_lock, as often as this caller nests it.
Lock(t) ==
  /\ moved[t] < Moves
  /\ TakeLevel(t)
  /\ Goto(t, "lock", IF level' = Depth THEN "test" ELSE "lock")
  /\ UNCHANGED <<asleep, queue, item, moved, early>>

\* Mutant: a producer may go one item too far.
FullLate == count > Capacity

Full == count = Capacity
Empty == count = 0

Blocked(t) == IF t \in Consumers THEN Empty ELSE Full

\* The condition variables a thread waits for and notifies.
Awaits(t) == IF t \in Consumers THEN "not_empty" ELSE "not_full"

\* Mutant: the wrong condition variable is notified.
NotifiesOwn(t) == Awaits(t)

Notifies(t) == IF t \in Consumers THEN "not_full" ELSE "not_empty"

Wait(t) ==
  /\ Blocked(t)
  /\ Goto(t, "test", "wait")
  /\ Sleep(t, Awaits(t))
  /\ UNCHANGED <<queue, item, moved, early>>

WokenEarly(t) ==
  /\ early < MaxEarly /\ early' = early + 1
  /\ WakeEarly(t, Awaits(t))
  /\ UNCHANGED <<mutex, queue, pc, item, moved>>

\* A thread that is awake takes the mutex back before its wait returns, and
\* the caller tests again.
WaitReturns(t) ==
  /\ t \notin asleep[Awaits(t)]
  /\ TakeLevel(t)
  /\ Goto(t, "wait", "test")
  /\ UNCHANGED <<asleep, queue, item, moved, early>>

\* i = (i + 1) % QUEUE_CAPACITY
Successor(i) == (i + 1) % Capacity

Push(t) ==
  /\ t \notin Consumers /\ ~Full
  /\ Goto(t, "test", "notify")
  /\ buf' = [buf EXCEPT ![tail] = <<t, moved[t]>>]
  /\ tail' = Successor(tail)
  /\ count' = count + 1
  /\ moved' = [moved EXCEPT ![t] = @ + 1]
  /\ UNCHANGED <<mutex, asleep, head, item, early>>

\* Mutant: the item is read after head has moved on.
FirstLate == buf[Successor(head)]

First == buf[head]

Pop(t) ==
  /\ t \in Consumers /\ ~Empty
  /\ Goto(t, "test", "notify")
  /\ item' = [item EXCEPT ![t] = First]
  /\ head' = Successor(head)
  /\ count' = count - 1
  /\ moved' = [moved EXCEPT ![t] = @ + 1]
  /\ UNCHANGED <<mutex, asleep, buf, tail, early>>

Notify(t) ==
  /\ Goto(t, "notify", "unlock")
  /\ Signal(Notifies(t)) \/ Broadcast(Notifies(t))
  /\ UNCHANGED <<mutex, queue, item, moved, early>>

\* ccmutex_unlock, as often as this caller has locked, and return item.
Unlock(t) ==
  /\ GiveLevel
  /\ Goto(t, "unlock", IF level = 1 THEN "lock" ELSE "unlock")
  /\ item' = IF level = 1 /\ t \in Consumers THEN [item EXCEPT ![t] = <<>>] ELSE item
  /\ UNCHANGED <<asleep, queue, moved, early>>

Step(t) ==
  Lock(t) \/ Wait(t) \/ WaitReturns(t) \/ Push(t) \/ Pop(t) \/ Notify(t) \/ Unlock(t)

Next == \E t \in Threads : Step(t) \/ WokenEarly(t)

\* Every thread that can run does; nobody has to wake early.
Fairness == \A t \in Threads : WF_vars(Step(t))

Spec == Init /\ [][Next]_vars
FairSpec == Spec /\ Fairness

---------------------------------------------------------------------------
\* Woken, and on the way back to the mutex.
Woken(c) == {t \in Threads : Awaits(t) = c /\ pc[t] = "wait" /\ t \notin asleep[c]}

\* What the sleepers on c are waiting for: items, or free slots.
Available(c) == IF c = "not_empty" THEN count ELSE Capacity - count

\* Whenever the mutex is free, nobody sleeps beside an item, or a free slot,
\* that no woken thread is coming for (cccondvar.c:94-115, 184-214).
NoLostWakeup ==
  \A c \in Conds :
    owner = NoThread /\ asleep[c] # {} => Available(c) <= Cardinality(Woken(c))

\* A thread asleep in a wait does not have the mutex: wait "atomically
\* releases mtx" (ccmutex.h:299).
SleepersReleased == \A c \in Conds : owner \notin asleep[c]

\* As many items are pushed as popped in the end, and everybody is through.
AllMoved == <>(\A t \in Threads : moved[t] = Moves)

\* Each producer's items are in the buffer in the order it pushed them, none
\* twice and none that it has yet to push (examples/cccondvar_basic.c:57-59).
Content == [i \in 1..count |-> buf[(head + i - 1) % Capacity]]
InOrder ==
  \A i \in 1..count :
    /\ Content[i] \in Items /\ Content[i][2] < moved[Content[i][1]]
    /\ \A j \in 1..(i - 1) : Content[i][1] = Content[j][1] => Content[j][2] < Content[i][2]

\* While the mutex is free and every sleeper is still asleep, producers and
\* consumers are not asleep on each other (examples/cccondvar_basic.c:54-68).
NeverBothAsleep ==
  owner = NoThread /\ (\A c \in Conds : Woken(c) = {}) =>
    \E c \in Conds : asleep[c] = {}

\* The inductive strengthening.
Takers(c) == {t \in Threads : Awaits(t) = c /\ (t \in Woken(c) \/ pc[t] = "test")}
Notifying(c) == {t \in Threads : pc[t] = "notify" /\ Notifies(t) = c}

\* What makes the buffer a ring: tail is count slots past head.  What is popped
\* comes from it.
RingInv ==
  /\ head \in Slots /\ tail \in Slots
  /\ tail = (head + count) % Capacity
  /\ buf \in [Slots -> Items \cup {<<>>}]
  /\ item \in [Consumers -> Items \cup {<<>>}]
  /\ \A t \in Threads : pc[t] \in {"test", "wait"} => moved[t] < Moves

\* Who has the mutex, and how many levels of it: a wait gives up one.
LevelInv ==
  /\ level <= Depth
  /\ owner = NoThread <=> level = 0
HeldInv(t) ==
  /\ pc[t] \in {"test", "notify", "unlock"} => owner = t
  /\ pc[t] \in {"test", "notify"} => level = Depth
  /\ pc[t] = "wait" => IF Depth = 1 THEN owner # t ELSE owner = t /\ level = Depth - 1
  /\ pc[t] = "lock" /\ owner = t => level < Depth
  /\ \A c \in Conds : t \in asleep[c] => pc[t] = "wait" /\ c = Awaits(t)

WakeupInv(c) ==
  asleep[c] # {} =>
    Available(c) <= Cardinality(Takers(c)) + (IF Notifying(c) = {} THEN 0 ELSE 1)

IInv ==
  /\ TypeOK /\ RingInv /\ LevelInv
  /\ \A t \in Threads : HeldInv(t)
  /\ \A c \in Conds : WakeupInv(c)

---------------------------------------------------------------------------
Promise == INSTANCE Fifo WITH queue <- Content, hand <- item

\* The circular buffer is a queue: what queue_pop returns is what has been in it
\* for longest (examples/cccondvar_basic.c:57-59, 70-75).
ImplementsFifo == Promise!Spec
=============================================================================
