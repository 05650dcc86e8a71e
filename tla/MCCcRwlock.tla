---------------------------- MODULE MCCcRwlock ----------------------------
(* Thread ids for TLC: threads are numbered, and the first two share an id.  *)
EXTENDS CcRwlock

MCShared == [t \in Threads |-> IF t = 1 THEN 2 ELSE t]
===========================================================================
