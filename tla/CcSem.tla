------------------------------- MODULE CcSem -------------------------------
(***************************************************************************)
(* ccsem.c on POSIX: a counter guarded by a mutex, and a condition         *)
(* variable on which waiters sleep while it is 0.  The condition variable  *)
(* may wake a waiter for no reason, a timed wait may expire while a post   *)
(* is under way, and whoever gets the mutex first may take the token.      *)
(***************************************************************************)
EXTENDS Naturals, FiniteSets

CONSTANTS
  Threads,
  NoThread,
  InitialCount,
  UintMax,       \* the largest unsigned int
  MaxPosts,      \* bound: posts begun
  MaxWaits,      \* bound: waits of any kind begun
  FailingCalls   \* calls of the operating system that may fail

ASSUME SemAssumption ==
  /\ IsFiniteSet(Threads) /\ NoThread \notin Threads
  /\ UintMax \in Nat /\ InitialCount \in 0..UintMax
  /\ MaxPosts \in Nat /\ MaxWaits \in Nat
  /\ FailingCalls \subseteq {"mutex_lock", "cond_wait", "kernel_wait"}

\* The counter cannot wrap within the bounds.
NoOverflow == InitialCount + MaxPosts <= UintMax

VARIABLES
  count,    \* sem->count
  mutex,    \* the thread that has sem->mutex, or NoThread
  sem,      \* "live", or "destroyed" and freed
  pc,
  op,       \* the call each thread is inside of
  outcome,  \* its return value, "none" until that is settled
  posts,    \* posts begun
  waits,    \* waits begun
  posted,   \* history: increments of count
  taken     \* history: decrements of count

calls == <<op, posts, waits>>
history == <<posted, taken>>
vars == <<count, mutex, sem, pc, outcome, calls, history>>

Waits == {"wait", "trywait", "timedwait"}
PC == {"idle", "entered", "leave", "test", "blocked", "woken", "retest", "expired",
       "increment", "signal", "unlock"}

ControlOK ==
  /\ mutex \in Threads \cup {NoThread}
  /\ sem \in {"live", "destroyed"}
  /\ pc \in [Threads -> PC]
  /\ op \in [Threads -> Waits \cup {"post", "none"}]
  /\ outcome \in [Threads -> {"none", "SUCCESS", "TIMEOUT", "ERROR"}]
  /\ posts \in Nat /\ waits \in Nat /\ posted \in Nat /\ taken \in Nat

TypeOK == count \in 0..UintMax /\ ControlOK

\* ccsem_create has succeeded.
Init ==
  /\ count = InitialCount
  /\ mutex = NoThread
  /\ sem = "live"
  /\ pc = [t \in Threads |-> "idle"]
  /\ op = [t \in Threads |-> "none"]
  /\ outcome = [t \in Threads |-> "none"]
  /\ posts = 0 /\ waits = 0 /\ posted = 0 /\ taken = 0

Goto(t, from, to) == pc[t] = from /\ pc' = [pc EXCEPT ![t] = to]
Settle(t, r) == outcome' = [outcome EXCEPT ![t] = r]

\* ++ and -- of an unsigned int.
Plus1(c) == IF c = UintMax THEN 0 ELSE c + 1
Minus1(c) == IF c = 0 THEN UintMax ELSE c - 1

---------------------------------------------------------------------------
Begin(t, o) ==
  /\ Goto(t, "idle", "entered")
  /\ sem = "live"
  /\ op' = [op EXCEPT ![t] = o]
  /\ Settle(t, "none")
  /\ UNCHANGED <<count, mutex, sem, history>>

Wait(t) ==
  /\ waits < MaxWaits
  /\ waits' = waits + 1 /\ UNCHANGED posts
  /\ \E o \in Waits : Begin(t, o)

Post(t) ==
  /\ posts < MaxPosts
  /\ posts' = posts + 1 /\ UNCHANGED waits
  /\ Begin(t, "post")

LockFails(t) ==
  /\ "mutex_lock" \in FailingCalls
  /\ Goto(t, "entered", "leave")
  /\ Settle(t, "ERROR")
  /\ UNCHANGED <<count, mutex, sem, calls, history>>

\* return, with nothing left to unlock.
Leave(t) ==
  /\ Goto(t, "leave", "idle")
  /\ op' = [op EXCEPT ![t] = "none"]
  /\ UNCHANGED <<count, mutex, sem, outcome, posts, waits, history>>

\* pthread_mutex_lock, or the condition variable taking the mutex back.
Acquire(t, from, to) ==
  /\ Goto(t, from, to)
  /\ mutex = NoThread /\ mutex' = t
  /\ UNCHANGED <<count, sem, calls, history>>

LockMutex(t) ==
  /\ Acquire(t, "entered", IF op[t] = "post" THEN "increment" ELSE "test")
  /\ UNCHANGED outcome

\* Mutant: a woken waiter does not test the counter again.
SufficientOnceWoken(t) == count > 0 \/ pc[t] = "retest"

\* Mutant: the last token is kept back.
SufficientBeyondOne(t) == count > 1

Sufficient(t) == count > 0

Testing(t) == pc[t] \in {"test", "retest"}

Take(t) ==
  /\ Testing(t) /\ Sufficient(t)
  /\ pc' = [pc EXCEPT ![t] = "unlock"]
  /\ count' = Minus1(count)
  /\ taken' = taken + 1
  /\ Settle(t, "SUCCESS")
  /\ UNCHANGED <<mutex, sem, calls, posted>>

Deny(t) ==
  /\ Testing(t) /\ ~Sufficient(t) /\ op[t] = "trywait"
  /\ pc' = [pc EXCEPT ![t] = "unlock"]
  /\ Settle(t, "TIMEOUT")
  /\ UNCHANGED <<count, mutex, sem, calls, history>>

\* pthread_cond_wait and pthread_cond_timedwait let go of the mutex and join
\* the sleepers in one step.
Block(t) ==
  /\ Testing(t) /\ ~Sufficient(t) /\ op[t] # "trywait"
  /\ pc' = [pc EXCEPT ![t] = "blocked"]
  /\ mutex' = NoThread
  /\ UNCHANGED <<count, sem, outcome, calls, history>>

CondWaitFails(t) ==
  /\ "cond_wait" \in FailingCalls
  /\ Testing(t) /\ ~Sufficient(t) /\ op[t] # "trywait"
  /\ pc' = [pc EXCEPT ![t] = "unlock"]
  /\ Settle(t, "ERROR")
  /\ UNCHANGED <<count, mutex, sem, calls, history>>

SpuriousWakeup(t) ==
  /\ Goto(t, "blocked", "woken")
  /\ UNCHANGED <<count, mutex, sem, outcome, calls, history>>

MayExpire(t) == op[t] = "timedwait"

\* The deadline passes before anyone signals this waiter.
Expire(t) ==
  /\ MayExpire(t)
  /\ Goto(t, "blocked", "expired")
  /\ UNCHANGED <<count, mutex, sem, outcome, calls, history>>

WakeUp(t) == Acquire(t, "woken", "retest") /\ UNCHANGED outcome

\* ETIMEDOUT: the counter is not tested again.
GiveUp(t) == Acquire(t, "expired", "unlock") /\ Settle(t, "TIMEOUT")

\* Mutant: the signal is sent after the mutex has been given up.
AfterSignalsLate(step) ==
  CASE step = "increment" -> "unlock" [] step = "unlock" -> "signal" [] step = "signal" -> "idle"

\* The order of the steps of ccsem_post.
After(step) ==
  CASE step = "increment" -> "signal" [] step = "signal" -> "unlock" [] step = "unlock" -> "idle"

Increment(t) ==
  /\ Goto(t, "increment", After("increment"))
  /\ count' = Plus1(count)
  /\ posted' = posted + 1
  /\ Settle(t, "SUCCESS")
  /\ UNCHANGED <<mutex, sem, calls, taken>>

Blocked == {t \in Threads : pc[t] = "blocked"}

\* Mutant: only the post that makes the counter positive signals.
ReachableFirst == IF count = 1 THEN Blocked ELSE {}

\* The sleepers one of which pthread_cond_signal is going to wake.
Reachable == Blocked

Signal(t) ==
  /\ pc[t] = "signal"
  /\ IF Reachable = {}
     THEN pc' = [pc EXCEPT ![t] = After("signal")]
     ELSE \E w \in Reachable : pc' = [pc EXCEPT ![t] = After("signal"), ![w] = "woken"]
  /\ op' = IF After("signal") = "idle" THEN [op EXCEPT ![t] = "none"] ELSE op
  /\ UNCHANGED <<count, mutex, sem, outcome, posts, waits, history>>

\* Mutant: the path that reports a timeout returns without unlocking.
OwnerAfterUnlockForgotten(t) == IF outcome[t] = "TIMEOUT" THEN t ELSE NoThread

OwnerAfterUnlock(t) == NoThread

\* pthread_mutex_unlock and return.
Unlock(t) ==
  /\ Goto(t, "unlock", IF op[t] = "post" THEN After("unlock") ELSE "idle")
  /\ mutex' = OwnerAfterUnlock(t)
  /\ op' = IF pc'[t] = "idle" THEN [op EXCEPT ![t] = "none"] ELSE op
  /\ UNCHANGED <<count, sem, outcome, posts, waits, history>>

\* The client destroys when it knows, by counting, that every token of every
\* post has been taken and no wait is under way; a post may still be returning.
Destroy ==
  /\ sem = "live" /\ sem' = "destroyed"
  /\ count = 0 /\ posted = posts
  /\ \A t \in Threads : op[t] \in {"none", "post"}
  /\ UNCHANGED <<count, mutex, pc, outcome, calls, history>>

Step(t) ==
  \/ LockMutex(t) \/ LockFails(t) \/ Leave(t) \/ Take(t) \/ Deny(t) \/ Block(t)
  \/ CondWaitFails(t) \/ WakeUp(t) \/ GiveUp(t) \/ Increment(t) \/ Signal(t) \/ Unlock(t)

Next ==
  \/ \E t \in Threads : Wait(t) \/ Post(t) \/ Step(t) \/ SpuriousWakeup(t) \/ Expire(t)
  \/ Destroy

\* A thread that can run does, and deadlines pass; spurious wakeups and calls
\* are nobody's duty.
Fairness == \A t \in Threads : WF_vars(Step(t)) /\ WF_vars(Expire(t))

Spec == Init /\ [][Next]_vars
FairSpec == Spec /\ Fairness

---------------------------------------------------------------------------
\* Tokens are neither lost nor invented by any interleaving of posts, waits,
\* timeouts and spurious wakeups (ccsem.c:156-166, 245-271, 299-304).
TokensConserved == count + taken = InitialCount + posted

\* Whenever the mutex is free, there are at least as many woken waiters on the
\* way to the counter as there are tokens for the sleepers: nobody sleeps on a
\* token that no one is coming for (ccsem.c:299-304).
Woken == {t \in Threads : pc[t] = "woken"}
NoLostWakeup ==
  mutex = NoThread /\ Blocked # {} => count <= Cardinality(Woken)

\* The client may destroy as soon as the last token is taken: no poster is
\* still going to touch the mutex or the condition variable (ccsem.c:301-304).
NoUseAfterDestroy ==
  sem = "destroyed" => \A t \in Threads : pc[t] \in {"idle", "leave"}

\* When calls cease, no wait is left under way with a token there for it
\* (ccsem.c:156-164, 299-304).
Waiting == {t \in Threads : op[t] \in Waits}
WaitersServed == <>[](Waiting # {} => count = 0)

\* A post, a trywait and a timedwait always return, whatever the waiters
\* around them do: no path keeps the mutex, and an expired deadline ends the
\* wait also for a sleeper nobody signals (ccsem.c:192-202, 239-270, 296-306).
\* Wakeups for no reason come to an end: a waiter that wakes for ever without
\* one could take the mutex whenever another looks.
WakeupsEnd == <>[][\A t \in Threads : ~SpuriousWakeup(t)]_vars
BoundedCallsReturn ==
  WakeupsEnd =>
    \A t \in Threads : op[t] \in {"post", "trywait", "timedwait"} ~> op[t] = "none"

\* The inductive strengthening.
InCritical(t) == pc[t] \in {"test", "retest", "increment", "signal", "unlock"}
Takers == {t \in Threads : pc[t] \in {"woken", "test", "retest"}}
Signalling == {t \in Threads : pc[t] = "signal"}

\* The mutex protects what it should, and each thread is where its call, and
\* the outcome of it, say: this holds even when the counter has wrapped.
Placed(t) ==
  /\ InCritical(t) <=> mutex = t
  /\ op[t] = "none" <=> pc[t] = "idle"
  /\ pc[t] \in {"increment", "signal"} => op[t] = "post"
  /\ pc[t] \in {"test", "blocked", "woken", "retest", "expired"} => op[t] \in Waits
  /\ pc[t] \in {"blocked", "woken", "retest"} => op[t] # "trywait"
  /\ pc[t] = "expired" => op[t] = "timedwait"
  /\ pc[t] = "idle" \/ (outcome[t] # "none" <=> pc[t] \in {"leave", "signal", "unlock"})

\* A poster's token is there until it lets go of the mutex, and nobody is left
\* near a semaphore that is destroyed.
ControlInv(t) ==
  /\ Placed(t)
  /\ op[t] = "post" /\ pc[t] \in {"signal", "unlock"} => count > 0
  /\ sem = "destroyed" => pc[t] \in {"idle", "leave"}

\* Counting the waiters that have the mutex or are going for it, and the
\* poster that is about to wake one.
WakeupInv ==
  Blocked # {} => count <= Cardinality(Takers) + (IF Signalling = {} THEN 0 ELSE 1)

\* Posts begun are counted, or still on their way to the counter, or failed.
Underway ==
  {t \in Threads : /\ op[t] = "post" /\ outcome[t] # "SUCCESS"
                   /\ pc[t] \in {"entered", "leave", "increment"}}
PostsInv == posted + Cardinality(Underway) <= posts /\ posts <= MaxPosts

IInv == TypeOK /\ TokensConserved /\ PostsInv /\ (\A t \in Threads : ControlInv(t)) /\ WakeupInv

---------------------------------------------------------------------------
\* The timed waiters that have seen count = 0 in this call.
Looked ==
  {t \in Threads : op[t] = "timedwait" /\ pc[t] \in {"blocked", "woken", "retest", "expired"}}

Promise ==
  INSTANCE Semaphore WITH value <- count, call <- op, result <- outcome, saw <- Looked

\* ccsem.c implements the abstract semaphore: a timed wait that reports TIMEOUT
\* has found the counter at 0 once in the call (ccsem.c:248-270); it need not
\* be 0 when it gives up, and tokens may have come and gone in between.
ImplementsSemaphore == Promise!Spec
=============================================================================
