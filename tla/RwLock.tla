------------------------------- MODULE RwLock -------------------------------
(* What a reader-writer lock promises (ccmutex.h, ccrwlock): any number of   *)
(* readers, or one writer and nobody else.                                   *)
CONSTANT Threads

VARIABLES reading, writing   \* the threads that hold it in either mode

vars == <<reading, writing>>

Init == reading = {} /\ writing = {}

Read(t) ==
  /\ writing = {} /\ t \notin reading
  /\ reading' = reading \cup {t}
  /\ UNCHANGED writing

Write(t) ==
  /\ writing = {} /\ reading = {}
  /\ writing' = {t}
  /\ UNCHANGED reading

Release(t) ==
  /\ t \in reading \cup writing
  /\ reading' = reading \ {t}
  /\ writing' = writing \ {t}

Next == \E t \in Threads : Read(t) \/ Write(t) \/ Release(t)

Spec == Init /\ [][Next]_vars
=============================================================================
