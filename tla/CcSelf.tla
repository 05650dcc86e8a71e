------------------------------- MODULE CcSelf -------------------------------
(***************************************************************************)
(* Who is who (ccthread.c): ccthread_self, equal, gettid and set_name on   *)
(* the handles of CcThread and on those that threads the library has not   *)
(* created get from ccthread_self.  The fields they look at are written by *)
(* the creating thread, by the new thread and by a detaching thread.       *)
(***************************************************************************)
EXTENDS CcThread

CONSTANT Foreign   \* threads the library has not created, main among them

ASSUME SelfAssumption == Foreign \cap Handles = {}

VARIABLE foreign   \* what has become of the struct behind their TLS pointer

selfvars == <<allvars, foreign>>

SelfInit == Init /\ foreign = [f \in Foreign |-> "none"]

ForeignGoes(f, from, to) == foreign[f] = from /\ foreign' = [foreign EXCEPT ![f] = to]

\* The first ccthread_self of a foreign thread allocates a handle nobody can
\* join or detach.  A failing calloc or DuplicateHandle leaves nothing behind.
CacheSelf(f) == ForeignGoes(f, "none", "cached")

\* The thread ends, and its TLS pointer with it: ccthread_exit frees the struct,
\* which was born detached so that its owner is the only one to claim it; any
\* other end leaks it.  Another thread may come in its place.
ForeignEnds(f) == ForeignGoes(f, "cached", "none")

SelfNext ==
  \/ Next /\ UNCHANGED foreign
  \/ /\ \E f \in Foreign : CacheSelf(f) \/ ForeignEnds(f)
     /\ UNCHANGED allvars

SelfSpec == SelfInit /\ [][SelfNext]_selfvars
FairSelfSpec == SelfSpec /\ Fairness

---------------------------------------------------------------------------
(* A field holds <<>> until it is written, and then <<t>>: it stands for t.  *)
(* A handle in lawful use leads to its own struct (StructOutlivesJoin and    *)
(* SelfLive), so its fields are those of the handle itself.                  *)

OsHandle(x) == IF x \in Foreign \/ handle[x] = "set" THEN <<x>> ELSE <<>>

\* The wrapper stores tid on every platform, CreateThread before it returns.
Tid(x) ==
  IF x \in Handles /\ wpc[x] \in {"none", "start"}
     /\ (backend = "WINDOWS" => wpc[x] = "none" \/ creator[x] = "assign")
  THEN <<>> ELSE <<x>>

\* Mutant: handles are compared on Windows too.
EqualByHandle(a, b) == OsHandle(a) = OsHandle(b)

Equal(a, b) == IF backend = "WINDOWS" THEN Tid(a) = Tid(b) ELSE OsHandle(a) = OsHandle(b)

\* What set_name can be on each backend; SetThreadDescription is looked up
\* once, and MSVC builds fall back on naming by id for a debugger.
Namers ==
  IF backend = "WINDOWS" THEN {"description", "exception", "none"}
  ELSE {"any thread", "calling thread", "none"}

Open(x) == x \in Foreign \/ closes[x] = 0
Running(x) == x \in Foreign \/ wpc[x] # "gone"

\* Whom the OS renames under a handle or an id it was given: the thread meant,
\* if it knows it under that; else any thread, or nobody, <<>>.
Renames(x, known) ==
  IF known THEN {<<x>>} ELSE {<<t>> : t \in Handles \cup Foreign} \cup {<<>>}

\* The possible outcomes of set_name(x) by caller when no conversion or
\* allocation fails: the thread renamed, or <<>>, with or without an error.
\* A pthread_t goes to the OS as it is, written or not; only Windows looks for
\* a handle that is null.
SetName(namer, caller, x) ==
  CASE namer = "description" -> IF OsHandle(x) = <<>> THEN {<<>>} ELSE Renames(x, Open(x))
    [] namer = "exception" ->
         IF Tid(x) = <<>> THEN {<<>>} ELSE Renames(x, Open(x) \/ Running(x))
    [] namer = "any thread" ->
         Renames(x, OsHandle(x) = <<x>> /\ (Open(x) \/ Running(x)))
    [] namer = "calling thread" ->
         IF OsHandle(x) = <<x>> /\ (Open(x) \/ Running(x))
         THEN {IF x = caller THEN <<x>> ELSE <<>>} ELSE {<<caller>>, <<>>}
    [] namer = "none" -> {<<>>}

---------------------------------------------------------------------------
\* The handles a client may lawfully use: created and not consumed, or got
\* from ccthread_self by the thread that is still running its function.
InHand(x) ==
  IF x \in Foreign THEN foreign[x] = "cached"
  ELSE (cpc[x] = "ready" /\ creator[x] = "idle") \/ wpc[x] = "func"

\* Two handles in lawful use compare equal exactly when they stand for the same
\* thread, on Windows whenever the handle fields are written and cleared, on
\* POSIX if the handle is stored before the thread runs (ccthread.c:198-226,
\* 281-282, 420-430; ccthread.h:209).
EqualMeansSame ==
  backend = "WINDOWS" \/ HandleFirst =>
    \A a, b \in Handles \cup Foreign : InHand(a) /\ InHand(b) => (Equal(a, b) <=> a = b)

\* set_name never renames another thread: it reaches the one that is meant or
\* nobody.
NamesOnly(x) ==
  \A c \in Handles \cup Foreign, n \in Namers : SetName(n, c, x) \subseteq {<<x>>, <<>>}

\* NamesOnly, as ccthread.h:196 allows: any handle from ccthread_self is good for
\* naming.  It fails between the two statements by which a Windows detach closes
\* and clears the handle (ccthread.c:281-282, 551-552).
NamesLiveThread == \A x \in Handles \cup Foreign : InHand(x) => NamesOnly(x)

\* The handle field says what the OS knows: it has been stored, on POSIX, and
\* no detach has closed it without clearing it.
Settled(x) ==
  x \in Handles => cpc[x] # "clear" /\ (backend = "POSIX" => handle[x] = "set")

\* NamesOnly of every handle whose field is settled (ccthread.c:537, 551-557,
\* 582-618).
NamesSettledThread ==
  \A x \in Handles \cup Foreign : InHand(x) /\ Settled(x) => NamesOnly(x)
=============================================================================
