--------------------------- MODULE MCCcSpinlock ---------------------------
(* Thread identities for TLC: threads are numbered, TidSpace is 4.          *)
EXTENDS CcSpinlock

MCDistinct == [t \in Threads |-> t + 4]

\* Two identities that differ by TidSpace: the low bits of a 64-bit thread id
\* or of a pthread_t, which is all that owner_tid keeps.
MCColliding == [t \in Threads |-> IF t = 1 THEN 1 ELSE 5]
===========================================================================
