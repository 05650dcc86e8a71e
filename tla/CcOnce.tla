------------------------------ MODULE CcOnce ------------------------------
(***************************************************************************)
(* ccthread_once() (ccthread.c): a three-state control block driven only   *)
(* by acquire loads, acquire exchanges and release stores.  A caller that  *)
(* finds the block not done swaps in 1 whatever was there, so it may       *)
(* overwrite the done mark of a round that finished meanwhile and has to   *)
(* put it back.  Every atomic access is a step of its own, and carries what *)
(* func has done from thread to thread as far as its memory order does.    *)
(***************************************************************************)
EXTENDS Naturals

CONSTANTS
  Threads,
  MaxCalls,   \* bound: calls a thread makes, when Endless is FALSE
  MaxRounds,  \* bound: times the block is initialised or re-armed
  Endless,    \* TRUE: threads go on calling for ever and MaxCalls is unused
  Ordered     \* TRUE: release stores and acquire loads are what they are called;
              \* FALSE: they are the __sync forms, barrier on the wrong side

ASSUME OnceAssumption ==
  /\ MaxCalls \in Nat
  /\ MaxRounds \in Nat \ {0}
  /\ Endless \in BOOLEAN /\ Ordered \in BOOLEAN

VARIABLES
  once,       \* the control block: 0 not done, 1 in progress, 2 done
  carried,    \* 1: whoever acquires the value in the block sees func's effects
  sees,       \* the threads that see the effects of this round's func
  pc,         \* where each thread is inside ccthread_once
  started,    \* history: times func was entered in this round
  completed,  \* history: times func has returned in this round
  calls,      \* history: calls made by each thread
  round       \* history: times the block has been armed

memory == <<carried, sees>>
vars == <<once, memory, pc, started, completed, calls, round>>
bookkeeping == <<calls, round>>

PC == {"idle", "load", "exchange", "func", "publish", "restore", "return"}

TypeOK ==
  /\ once \in 0..2
  /\ carried \in {0, 1} /\ sees \subseteq Threads
  /\ pc \in [Threads -> PC]
  /\ started \in Nat
  /\ completed \in Nat
  /\ calls \in [Threads -> Nat]
  /\ round \in Nat

Init ==
  /\ once = 0
  /\ carried = 0 /\ sees = {}
  /\ pc = [t \in Threads |-> "idle"]
  /\ started = 0
  /\ completed = 0
  /\ calls = [t \in Threads |-> 0]
  /\ round = 1

Goto(t, from, to) == pc[t] = from /\ pc' = [pc EXCEPT ![t] = to]

Call(t) ==
  /\ Goto(t, "idle", "load")
  /\ Endless \/ calls[t] < MaxCalls
  /\ calls' = IF Endless THEN calls ELSE [calls EXCEPT ![t] = @ + 1]
  /\ UNCHANGED <<once, memory, started, completed, round>>

\* t reads the block with acquire.
Acquire(t) == sees' = IF carried = 1 THEN sees \cup {t} ELSE sees

\* Mutant: a plain store, which may overtake the stores of func.
ReleasedLate(t) == 0

\* What a store by t with release hands on.
Released(t) == IF Ordered /\ t \in sees THEN 1 ELSE 0

\* while (ccatomic_load_acquire(once) < 2)
Load(t) ==
  /\ Goto(t, "load", IF once < 2 THEN "exchange" ELSE "return")
  /\ IF Ordered THEN Acquire(t) ELSE UNCHANGED sees
  /\ UNCHANGED <<once, carried, started, completed, bookkeeping>>

\* Mutants of the branch on prev: a clobbered done mark taken for a round in
\* progress, for success, or for an invitation to initialise.
BranchForgetsDone(prev) == IF prev = 0 THEN "func" ELSE "load"
BranchKeepsClobber(prev) ==
  IF prev = 0 THEN "func" ELSE IF prev = 2 THEN "return" ELSE "load"
BranchReruns(prev) == IF prev = 1 THEN "load" ELSE "func"
BranchTrustsProgress(prev) == IF prev = 0 THEN "func" ELSE "restore"

\* What the caller does next, given the value the exchange returned.
Branch(prev) ==
  CASE prev = 0 -> "func"
    [] prev = 1 -> "load"
    [] prev = 2 -> "restore"

\* prev = ccatomic_exchange_acquire(once, 1); the winner enters func.  What
\* the old value carried, the new one does: an exchange continues the release
\* sequence.
Exchange(t) ==
  /\ Goto(t, "exchange", Branch(once))
  /\ once' = 1
  /\ Acquire(t)
  /\ started' = IF Branch(once) = "func" THEN started + 1 ELSE started
  /\ UNCHANGED <<carried, completed, bookkeeping>>

\* func(arg) returns.
FuncReturns(t) ==
  /\ Goto(t, "func", "publish")
  /\ completed' = completed + 1
  /\ sees' = {t}
  /\ UNCHANGED <<once, carried, started, bookkeeping>>

\* ccatomic_store_release(once, 2), after which the loop tests it again.
Publish(t) ==
  /\ Goto(t, "publish", "load")
  /\ once' = 2
  /\ carried' = Released(t)
  /\ UNCHANGED <<sees, started, completed, bookkeeping>>

\* The exchange clobbered the done flag: store 2 back and break.
Restore(t) ==
  /\ Goto(t, "restore", "return")
  /\ once' = 2
  /\ carried' = Released(t)
  /\ UNCHANGED <<sees, started, completed, bookkeeping>>

Return(t) ==
  /\ Goto(t, "return", "idle")
  /\ UNCHANGED <<once, memory, started, completed, bookkeeping>>

\* once = CCTHREAD_ONCE_INIT, between the rounds of its owner.
Rearm ==
  /\ \A t \in Threads : pc[t] = "idle"
  /\ round < MaxRounds
  /\ once' = 0
  /\ carried' = 0 /\ sees' = {}
  /\ started' = 0
  /\ completed' = 0
  /\ round' = round + 1
  /\ UNCHANGED <<pc, calls>>

Step(t) ==
  Load(t) \/ Exchange(t) \/ FuncReturns(t) \/ Publish(t) \/ Restore(t) \/ Return(t)

Next ==
  \/ \E t \in Threads : Call(t) \/ Step(t)
  \/ Rearm

Fairness == \A t \in Threads : WF_vars(Step(t))

Spec == Init /\ [][Next]_vars
FairSpec == Spec /\ Fairness

---------------------------------------------------------------------------
\* The caller that has swapped in the 1 which is still in the block.
Holding(t) == pc[t] \in {"func", "publish", "restore"}

\* The 1 in the block always belongs to exactly one caller, which is going to
\* replace it by 2: nobody spins on an orphaned in-progress mark, and two
\* callers never both believe they own it (ccthread.c:477-493).
OneHolder ==
  /\ once = 1 <=> \E t \in Threads : Holding(t)
  /\ \A t, u \in Threads : Holding(t) /\ Holding(u) => t = u

\* No call leaves ccthread_once before func has run to completion, and func is
\* entered at most once per round, however many callers clobber the done mark
\* (ccthread.h:319-322).
InitialisedOnce ==
  /\ completed <= started /\ started <= 1
  /\ \A t \in Threads : pc[t] \in {"return", "restore"} => completed = 1

\* Whoever leaves the call sees everything func has done, on any machine, by
\* whichever chain of clobbering and restoring the done mark has come to it
\* (ccthread.c:476-493, ccatomic.h:31-123; ccthread.h:320).
EffectsVisible == Ordered => \A t \in Threads : pc[t] = "return" => t \in sees

\* Only the caller that owns the 1 replaces it, and by 2 (ccthread.c:477-493).
MarkOwned ==
  once = 1 /\ once' # 1 => once' = 2 /\ \E t \in Threads : Holding(t) /\ ~Holding(t)'

\* Within a round nothing is undone: the block does not become 0 again, func
\* stays completed, and who sees its effects goes on seeing them, although the
\* done mark comes and goes (ccthread.c:477-493).
RoundKeeps ==
  round' = round =>
    /\ once # 0 => once' # 0
    /\ completed = 1 => completed' = 1 /\ sees \subseteq sees'

\* A call that is made returns, as long as each thread makes finitely many
\* (ccthread.h:301, callers spin on 1 until released).
EveryCallReturns ==
  \A t \in Threads : (pc[t] = "load") ~> (pc[t] = "idle")

\* The inductive strengthening of the two invariants.
IInv ==
  /\ TypeOK
  /\ OneHolder
  /\ InitialisedOnce
  /\ once = 0 => started = 0
  /\ once = 2 => completed = 1 /\ (Ordered => carried = 1)
  /\ completed = 1 => started = 1 /\ once # 0
  /\ \A t \in Threads :
       /\ pc[t] = "func" => completed = 0 /\ started = 1
       /\ pc[t] \in {"publish", "restore", "return"} => completed = 1
       /\ once = 1 /\ Holding(t) /\ completed = 0 => pc[t] = "func"
       /\ pc[t] = "publish" => t \in sees
       /\ Ordered /\ pc[t] \in {"restore", "return"} => t \in sees

---------------------------------------------------------------------------
\* The promise: phase is what func has done, whatever the block says.
Promise ==
  INSTANCE Once WITH
    phase  <- IF completed > 0 THEN "done" ELSE IF started > 0 THEN "running" ELSE "fresh",
    inside <- {t \in Threads : pc[t] # "idle"}

\* ccthread_once implements the abstract once of module Once.
ImplementsOnce == Promise!Spec
===========================================================================
