----------------------------- MODULE CcCondvar -----------------------------
(***************************************************************************)
(* cccondvar.c: the platform's condition variables on the native handle of *)
(* a ccmutex.  A wait hands the platform a mutex it knows nothing about:   *)
(* the platform gives up one level of it, whatever its depth.              *)
(***************************************************************************)
EXTENDS CcMutex

CONSTANT Conds   \* the condition variables used with the one mutex

VARIABLE asleep  \* the threads asleep on each condition variable

CondTypeOK == asleep \in [Conds -> SUBSET Threads]

\* cccondvar_create
CondInit == asleep = [c \in Conds |-> {}]

\* cccondvar_wait and cccondvar_timedwait: one level is given up and the
\* caller is asleep in the same instant.
Sleep(t, c) ==
  /\ GiveLevel
  /\ asleep' = [asleep EXCEPT ![c] = @ \cup {t}]

\* The wait ends for another reason than a notification: spuriously, or with
\* CCMUTEX_TIMEOUT when the deadline of a timedwait passes.
WakeEarly(t, c) ==
  /\ t \in asleep[c]
  /\ asleep' = [asleep EXCEPT ![c] = @ \ {t}]

\* cccondvar_signal wakes one sleeper, if there is one.
Signal(c) ==
  \/ asleep[c] = {} /\ UNCHANGED asleep
  \/ \E w \in asleep[c] : asleep' = [asleep EXCEPT ![c] = @ \ {w}]

\* cccondvar_broadcast wakes them all.
Broadcast(c) == asleep' = [asleep EXCEPT ![c] = {}]
=============================================================================
