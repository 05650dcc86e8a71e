--------------------------- MODULE CcOnce_proofs ---------------------------
(* Proofs about ccthread_once: IInv is inductive for every set of threads,  *)
(* and every step of CcOnce is a step of module Once or leaves it alone.    *)
EXTENDS CcOnce, TLAPS

(* A fresh control block satisfies the invariant.                           *)
LEMMA InitIInv == Init => IInv
  BY OnceAssumption DEF Init, IInv, TypeOK, OneHolder, InitialisedOnce, Holding, PC

(* One step per action: the block's owner changes hands only in Exchange,   *)
(* Publish and Restore.                                                     *)
LEMMA StepIInv == IInv /\ [Next]_vars => IInv'
<1> SUFFICES ASSUME IInv, [Next]_vars PROVE IInv'
  OBVIOUS
<1> USE DEF IInv, TypeOK, OneHolder, InitialisedOnce, Holding, PC, bookkeeping, memory, Goto
<1>1. ASSUME NEW t \in Threads, Call(t) PROVE IInv'
  BY <1>1 DEF Call
<1>2. ASSUME NEW t \in Threads, Load(t) PROVE IInv'
  BY <1>2 DEF Load, Acquire
<1>3. ASSUME NEW t \in Threads, Exchange(t) PROVE IInv'
  <2>1. CASE once = 0
    BY <1>3, <2>1 DEF Exchange, Branch, Acquire
  <2>2. CASE once = 1
    BY <1>3, <2>2 DEF Exchange, Branch, Acquire
  <2>3. CASE once = 2
    BY <1>3, <2>3 DEF Exchange, Branch, Acquire
  <2>4. QED
    BY <2>1, <2>2, <2>3
<1>4. ASSUME NEW t \in Threads, FuncReturns(t) PROVE IInv'
  BY <1>4 DEF FuncReturns
<1>5. ASSUME NEW t \in Threads, Publish(t) PROVE IInv'
  BY <1>5 DEF Publish, Released
<1>6. ASSUME NEW t \in Threads, Restore(t) PROVE IInv'
  BY <1>6 DEF Restore, Released
<1>7. ASSUME NEW t \in Threads, Return(t) PROVE IInv'
  BY <1>7 DEF Return
<1>8. ASSUME Rearm PROVE IInv'
  BY <1>8 DEF Rearm
<1>9. CASE UNCHANGED vars
  BY <1>9 DEF vars
<1>10. QED
  BY <1>1, <1>2, <1>3, <1>4, <1>5, <1>6, <1>7, <1>8, <1>9 DEF Next, Step

(* The strengthening is an invariant of ccthread_once.                      *)
THEOREM OnceInvariant == Spec => []IInv
<1>1. QED
  BY InitIInv, StepIInv, PTL DEF Spec

(* The 1 in the block has exactly one owner.                                *)
THEOREM OnceSafety == Spec => []OneHolder
<1>1. IInv => OneHolder
  BY DEF IInv
<1>2. QED
  BY <1>1, OnceInvariant, PTL

(* func has run once and to completion when a call gets out                 *)
(* (ccthread.h:319-322).                                                    *)
THEOREM OnceDone == Spec => []InitialisedOnce
<1>1. IInv => InitialisedOnce
  BY DEF IInv
<1>2. QED
  BY <1>1, OnceInvariant, PTL

(* What func did is visible to whoever gets out of the call.                *)
THEOREM OnceVisible == Spec => []EffectsVisible
<1>1. IInv => EffectsVisible
  BY DEF IInv, EffectsVisible
<1>2. QED
  BY <1>1, OnceInvariant, PTL

(* The in-progress mark is taken down by its owner only, and nothing func   *)
(* has done is undone within a round (ccthread.c:477-493).                  *)
THEOREM OnceKeeps == Spec => [][MarkOwned]_vars /\ [][RoundKeeps]_vars
<1>1. IInv /\ [Next]_vars => [MarkOwned]_vars
  <2> SUFFICES ASSUME IInv, [Next]_vars, once = 1, once' # 1
               PROVE  once' = 2 /\ \E t \in Threads : Holding(t) /\ ~Holding(t)'
    BY DEF MarkOwned
  <2>1. ~Rearm
    BY DEF IInv, OneHolder, Holding, Rearm
  <2>2. PICK t \in Threads : Publish(t) \/ Restore(t)
    BY <2>1 DEF Next, Step, Call, Load, Exchange, FuncReturns, Return, vars
  <2>3. once' = 2 /\ Holding(t) /\ ~Holding(t)'
    BY <2>2 DEF IInv, TypeOK, Publish, Restore, Goto, Holding
  <2>4. QED
    BY <2>3
<1>2. IInv /\ [Next]_vars => [RoundKeeps]_vars
  <2> SUFFICES ASSUME IInv, [Next]_vars, round' = round
               PROVE  /\ once # 0 => once' # 0
                      /\ completed = 1 => completed' = 1 /\ sees \subseteq sees'
    BY DEF RoundKeeps
  <2>1. ~Rearm
    BY DEF IInv, TypeOK, Rearm
  <2>2. ASSUME NEW t \in Threads, FuncReturns(t) PROVE completed = 0 /\ once' = once
    BY <2>2 DEF IInv, FuncReturns, Goto
  <2>3. ASSUME NEW t \in Threads, Load(t) \/ Exchange(t)
        PROVE  sees \subseteq sees' /\ completed' = completed /\ (once' = once \/ once' = 1)
    BY <2>3 DEF Load, Exchange, Acquire
  <2>4. ASSUME NEW t \in Threads, Call(t) \/ Publish(t) \/ Restore(t) \/ Return(t)
        PROVE  sees' = sees /\ completed' = completed /\ (once' = once \/ once' = 2)
    BY <2>4 DEF Call, Publish, Restore, Return, memory
  <2>5. CASE UNCHANGED vars
    BY <2>5 DEF vars, memory
  <2>6. QED
    BY <2>1, <2>2, <2>3, <2>4, <2>5 DEF Next, Step
<1>3. QED
  BY <1>1, <1>2, OnceInvariant, PTL DEF Spec

(* Every step of the atomic state machine is one step of module Once, or    *)
(* leaves phase and inside alone.                                           *)
LEMMA StepPromise == IInv /\ IInv' /\ [Next]_vars => [Promise!Next]_(Promise!vars)
<1> SUFFICES ASSUME IInv, IInv', [Next]_vars
             PROVE [Promise!Next]_(Promise!vars)
  OBVIOUS
<1> USE DEF IInv, TypeOK, InitialisedOnce, PC, bookkeeping, Goto, Promise!Next, Promise!vars
<1>1. ASSUME NEW t \in Threads, Call(t) PROVE Promise!Call(t)
  BY <1>1 DEF Call, Promise!Call
<1>2. ASSUME NEW t \in Threads, Load(t) PROVE UNCHANGED Promise!vars
  BY <1>2 DEF Load
<1>3. ASSUME NEW t \in Threads, Exchange(t) PROVE [Promise!Next]_(Promise!vars)
  <2>1. CASE once = 0
    <3>1. Promise!Begin
      BY <1>3, <2>1 DEF Exchange, Branch, Promise!Begin
    <3>2. QED
      BY <3>1
  <2>2. CASE once \in {1, 2}
    BY <1>3, <2>2 DEF Exchange, Branch
  <2>3. QED
    BY <2>1, <2>2
<1>4. ASSUME NEW t \in Threads, FuncReturns(t) PROVE Promise!End
  BY <1>4 DEF FuncReturns, Promise!End
<1>5. ASSUME NEW t \in Threads, Publish(t) \/ Restore(t) PROVE UNCHANGED Promise!vars
  BY <1>5 DEF Publish, Restore
<1>6. ASSUME NEW t \in Threads, Return(t) PROVE Promise!Return(t)
  BY <1>6 DEF Return, Promise!Return
<1>7. ASSUME Rearm PROVE Promise!Rearm
  BY <1>7 DEF Rearm, Promise!Rearm
<1>8. CASE UNCHANGED vars
  BY <1>8 DEF vars
<1>9. QED
  BY <1>1, <1>2, <1>3, <1>4, <1>5, <1>6, <1>7, <1>8 DEF Next, Step

(* ccthread_once implements the abstract once, for every set of threads.    *)
THEOREM OnceImplementsPromise == Spec => ImplementsOnce
<1>1. Init => Promise!Init
  BY DEF Init, Promise!Init
<1>2. QED
  BY <1>1, OnceInvariant, StepPromise, PTL DEF Spec, ImplementsOnce, Promise!Spec
===========================================================================
