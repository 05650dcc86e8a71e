------------------------------ MODULE CcMutex ------------------------------
(***************************************************************************)
(* ccmutex.c: a platform mutex, PLAIN or RECURSIVE, as its callers see it. *)
(* The actions of this module are parts of the actions of its clients.     *)
(***************************************************************************)
EXTENDS Naturals

CONSTANTS Threads, NoThread,
  Type   \* the argument of ccmutex_create

ASSUME MutexAssumption ==
  /\ NoThread \notin Threads
  /\ Type \in {"PLAIN", "RECURSIVE"}

VARIABLES
  owner,   \* the thread that has the mutex, or NoThread
  level    \* how often it has taken it

mutex == <<owner, level>>

MutexTypeOK == owner \in Threads \cup {NoThread} /\ level \in Nat

\* ccmutex_create
MutexInit == owner = NoThread /\ level = 0

\* ccmutex_trylock would succeed.
Grants(t) == owner = NoThread \/ (Type = "RECURSIVE" /\ owner = t)

\* ccmutex_lock returns.  Until then its trylocks fail, change nothing and
\* give up the processor; no queue keeps the order of the callers.
TakeLevel(t) ==
  /\ Grants(t)
  /\ owner' = t
  /\ level' = level + 1

\* ccmutex_unlock, by the owner.
GiveLevel ==
  /\ level' = level - 1
  /\ owner' = IF level > 1 THEN owner ELSE NoThread
=============================================================================
