--------------------------- MODULE ReentrantLock ---------------------------
(***************************************************************************)
(* What a recursive lock promises: a thread may take it again while it     *)
(* already has it, and nobody else gets in before it has given up every    *)
(* level.                                                                  *)
(***************************************************************************)
EXTENDS Naturals

CONSTANT Threads

VARIABLE depth  \* levels each thread holds

TypeOK == depth \in [Threads -> Nat]

Init == depth = [t \in Threads |-> 0]

Acquire(t) ==
  /\ \A u \in Threads \ {t} : depth[u] = 0
  /\ depth' = [depth EXCEPT ![t] = @ + 1]

Release(t) ==
  /\ depth[t] > 0
  /\ depth' = [depth EXCEPT ![t] = @ - 1]

Next == \E t \in Threads : Acquire(t) \/ Release(t)

Spec == Init /\ [][Next]_depth
===========================================================================
