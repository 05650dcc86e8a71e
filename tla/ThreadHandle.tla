---------------------------- MODULE ThreadHandle ----------------------------
(***************************************************************************)
(* What a thread handle promises its client: the memory behind it exists   *)
(* from create until the thread's function is over and the client has      *)
(* joined or detached, and goes away exactly once.                         *)
(***************************************************************************)
CONSTANT Handles

VARIABLES
  thread,  \* "none", "running", "done"
  client,  \* "none", "owns", "joined", "detached"
  struct   \* "none", "live", "reclaimed"

vars == <<thread, client, struct>>

Init ==
  /\ thread = [h \in Handles |-> "none"]
  /\ client = [h \in Handles |-> "none"]
  /\ struct = [h \in Handles |-> "none"]

Allocate(h) ==
  /\ struct[h] = "none"
  /\ struct' = [struct EXCEPT ![h] = "live"]
  /\ UNCHANGED <<thread, client>>

\* The operating system refuses the thread: the client never gets a handle.
Refuse(h) ==
  /\ thread[h] = "none" /\ client[h] = "none" /\ struct[h] = "live"
  /\ struct' = [struct EXCEPT ![h] = "reclaimed"]
  /\ UNCHANGED <<thread, client>>

Start(h) ==
  /\ thread[h] = "none" /\ client[h] = "none" /\ struct[h] = "live"
  /\ thread' = [thread EXCEPT ![h] = "running"]
  /\ client' = [client EXCEPT ![h] = "owns"]
  /\ UNCHANGED struct

Finish(h) ==
  /\ thread[h] = "running"
  /\ thread' = [thread EXCEPT ![h] = "done"]
  /\ UNCHANGED <<client, struct>>

Detach(h) ==
  /\ client[h] = "owns"
  /\ client' = [client EXCEPT ![h] = "detached"]
  /\ UNCHANGED <<thread, struct>>

Join(h) ==
  /\ client[h] = "owns" /\ thread[h] = "done" /\ struct[h] = "live"
  /\ client' = [client EXCEPT ![h] = "joined"]
  /\ struct' = [struct EXCEPT ![h] = "reclaimed"]
  /\ UNCHANGED thread

Reclaim(h) ==
  /\ client[h] = "detached" /\ thread[h] = "done" /\ struct[h] = "live"
  /\ struct' = [struct EXCEPT ![h] = "reclaimed"]
  /\ UNCHANGED <<thread, client>>

Next ==
  \E h \in Handles :
    \/ Allocate(h) \/ Refuse(h) \/ Start(h) \/ Finish(h)
    \/ Detach(h) \/ Join(h) \/ Reclaim(h)

Spec == Init /\ [][Next]_vars
=============================================================================
