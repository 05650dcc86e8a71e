--------------------------- MODULE CcSelf_proofs ---------------------------
(* Proofs about thread identity and naming, for every set of created and of *)
(* foreign threads: they rest on the invariant of the thread handle, which  *)
(* the steps of foreign threads leave alone.                                *)
EXTENDS CcSelf, CcThread_proofs

(* With foreign threads around, the invariant of CcThread still holds.      *)
THEOREM SelfInvariant ==
  ASSUME HandleBeforeDetach PROVE SelfSpec /\ []Undisturbed => []IInv
<1>1. SelfInit => IInv
  BY InitIInv DEF SelfInit
<1>2. Undisturbed /\ IInv /\ [SelfNext]_selfvars => IInv'
  BY StepIInv DEF SelfNext, selfvars
<1>3. QED
  BY <1>1, <1>2, PTL DEF SelfSpec

(* Two handles in lawful use compare equal exactly when they stand for the  *)
(* same thread, if a POSIX handle is stored before its thread runs          *)
(* (HandleFirst, in EqualMeansSame; ccthread.h:209).                        *)
THEOREM EqualIsIdentity ==
  ASSUME HandleBeforeDetach PROVE SelfSpec /\ []Undisturbed => []EqualMeansSame
<1>1. ASSUME IInv PROVE EqualMeansSame
  <2> SUFFICES ASSUME backend = "WINDOWS" \/ HandleFirst,
                      NEW a \in Handles \cup Foreign, NEW b \in Handles \cup Foreign,
                      InHand(a), InHand(b)
               PROVE  Equal(a, b) <=> a = b
    BY DEF EqualMeansSame
  <2>1. CASE backend = "WINDOWS"
    <3>1. Tid(a) = <<a>> /\ Tid(b) = <<b>>
      BY <1>1, <2>1, SelfAssumption DEF IInv, HandleInv, Progress, Started, InHand, Tid
    <3>2. QED
      BY <2>1, <3>1 DEF Equal
  <2>2. CASE backend # "WINDOWS"
    <3>1. StoredFirst
      BY <1>1, <2>2, ThreadAssumption DEF IInv, TypeOK, StoredFirst
    <3>2. ASSUME NEW x \in Handles \cup Foreign, InHand(x) PROVE OsHandle(x) = <<x>>
      BY <1>1, <3>1, <3>2 DEF IInv, HandleInv, Progress, HandleStored, Started, InHand, OsHandle
    <3>3. QED
      BY <2>2, <3>2 DEF Equal
  <2>3. QED
    BY <2>1, <2>2
<1>2. QED
  BY <1>1, SelfInvariant, PTL

(* set_name on a handle in lawful use whose field is settled, stored and    *)
(* not closed without being cleared, renames the thread that is meant or    *)
(* reports an error.                                                        *)
THEOREM NamesReachTheThread ==
  ASSUME HandleBeforeDetach PROVE SelfSpec /\ []Undisturbed => []NamesSettledThread
<1>1. ASSUME IInv, NEW x \in Handles \cup Foreign, InHand(x), Settled(x)
      PROVE  NamesOnly(x)
  <2> SUFFICES ASSUME NEW c \in Handles \cup Foreign, NEW n \in Namers
               PROVE  SetName(n, c, x) \subseteq {<<x>>, <<>>}
    BY DEF NamesOnly
  <2>1. Open(x) \/ Running(x)
    BY <1>1 DEF IInv, TypeOK, HandleInv, Values, Detaching, InHand, Open, Running
  <2>2. Renames(x, TRUE) = {<<x>>}
    BY DEF Renames
  <2>3. CASE n = "description"
    <3>1. OsHandle(x) = <<>> \/ Open(x)
      BY <1>1, <2>3 DEF IInv, TypeOK, HandleInv, Progress, Values, HandleStored, Detaching,
         InHand, Settled, Namers, OsHandle, Open
    <3>2. QED
      BY <2>2, <2>3, <3>1 DEF SetName, Renames
  <2>4. CASE n = "exception"
    BY <2>1, <2>2, <2>4 DEF SetName, Renames
  <2>5. CASE n \in {"any thread", "calling thread"}
    <3>1. OsHandle(x) = <<x>>
      BY <1>1, <2>5, ThreadAssumption DEF IInv, TypeOK, Settled, Namers, OsHandle
    <3>2. QED
      BY <2>1, <2>5, <3>1 DEF SetName, Renames
  <2>6. CASE n = "none"
    BY <2>6 DEF SetName
  <2>7. QED
    BY <2>3, <2>4, <2>5, <2>6 DEF Namers
<1>2. IInv => NamesSettledThread
  BY <1>1 DEF NamesSettledThread
<1>3. QED
  BY <1>2, SelfInvariant, PTL
=============================================================================
