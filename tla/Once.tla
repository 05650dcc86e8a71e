------------------------------- MODULE Once -------------------------------
(***************************************************************************)
(* What a once-control block promises its callers: the initialiser runs    *)
(* exactly once per round, and no call returns before it has completed.    *)
(* CcOnce implements this specification.                                   *)
(***************************************************************************)
CONSTANT Threads

VARIABLES
  phase,   \* how far the initialisation of the current round has come
  inside   \* the threads that are inside a call

vars == <<phase, inside>>

TypeOK ==
  /\ phase \in {"fresh", "running", "done"}
  /\ inside \subseteq Threads

Init == phase = "fresh" /\ inside = {}

Call(t) ==
  /\ t \notin inside
  /\ inside' = inside \cup {t}
  /\ UNCHANGED phase

Begin ==
  /\ inside # {}
  /\ phase = "fresh"
  /\ phase' = "running"
  /\ UNCHANGED inside

End ==
  /\ phase = "running"
  /\ phase' = "done"
  /\ UNCHANGED inside

Return(t) ==
  /\ t \in inside
  /\ phase = "done"
  /\ inside' = inside \ {t}
  /\ UNCHANGED phase

\* The owner of the control block re-arms it while nobody is using it.
Rearm ==
  /\ inside = {}
  /\ phase' = "fresh"
  /\ UNCHANGED inside

Next ==
  \/ \E t \in Threads : Call(t) \/ Return(t)
  \/ Begin
  \/ End
  \/ Rearm

Spec == Init /\ [][Next]_vars
===========================================================================
