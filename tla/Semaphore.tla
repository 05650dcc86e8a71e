----------------------------- MODULE Semaphore -----------------------------
(***************************************************************************)
(* What a counting semaphore promises: each call takes effect at one       *)
(* instant between its beginning and its return.  A wait takes a token     *)
(* that is there; trywait is denied only when there is none; timedwait may *)
(* give up only if it has found none there at some instant of the call; a  *)
(* call that fails has no effect.                                          *)
(***************************************************************************)
EXTENDS Naturals

CONSTANTS Threads, InitialCount

VARIABLES
  value,   \* tokens available
  call,    \* the operation each thread is inside of, or "none"
  result,  \* how that operation has ended, "none" before it took effect
  saw      \* the timed waits under way that have found no token

vars == <<value, call, result, saw>>

Waits == {"wait", "trywait", "timedwait"}

Init ==
  /\ value = InitialCount
  /\ call = [t \in Threads |-> "none"]
  /\ result = [t \in Threads |-> "none"]
  /\ saw = {}

Begin(t) ==
  /\ call[t] = "none"
  /\ \E o \in Waits \cup {"post"} : call' = [call EXCEPT ![t] = o]
  /\ result' = [result EXCEPT ![t] = "none"]
  /\ UNCHANGED <<value, saw>>

Pending(t, ops) == call[t] \in ops /\ result[t] = "none"
EndsWith(t, r) ==
  /\ result' = [result EXCEPT ![t] = r]
  /\ saw' = saw \ {t}
  /\ UNCHANGED call

Look(t) ==
  /\ Pending(t, {"timedwait"}) /\ value = 0
  /\ saw' = saw \cup {t}
  /\ UNCHANGED <<value, call, result>>

Put(t) ==
  /\ Pending(t, {"post"}) /\ EndsWith(t, "SUCCESS")
  /\ value' = value + 1

Take(t) ==
  /\ Pending(t, Waits) /\ EndsWith(t, "SUCCESS")
  /\ value > 0 /\ value' = value - 1

Deny(t) ==
  /\ Pending(t, {"trywait", "timedwait"})
  /\ value = 0 \/ t \in saw
  /\ EndsWith(t, "TIMEOUT")
  /\ UNCHANGED value

Fail(t) ==
  /\ Pending(t, Waits \cup {"post"}) /\ EndsWith(t, "ERROR")
  /\ UNCHANGED value

Return(t) ==
  /\ call[t] # "none" /\ result[t] # "none"
  /\ call' = [call EXCEPT ![t] = "none"]
  /\ UNCHANGED <<value, result, saw>>

Next == \E t \in Threads :
  Begin(t) \/ Look(t) \/ Put(t) \/ Take(t) \/ Deny(t) \/ Fail(t) \/ Return(t)

Spec == Init /\ [][Next]_vars
=============================================================================
