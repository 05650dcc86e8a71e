-------------------------- MODULE CcThread_proofs --------------------------
(* Proofs about the thread handle, for every set of handles and results,    *)
(* both backends, with and without barriers, whether or not a thread may    *)
(* detach itself early on POSIX.  Freed memory may be reused as long as     *)
(* neither side of a detach race comes late to its claim (Undisturbed).     *)
EXTENDS CcThread, TLAPS

(* Where the next step of a handle looks at its struct or writes to it.     *)
Touches(h) ==
  \/ cpc[h] \notin {"new", "null", "store", "joined", "detached"}
  \/ wpc[h] \in {"result", "load", "claim", "reclaim"}
  \/ CreatorTouches(h)
  \/ ~Drained(h, "detached") \/ ~Drained(h, "finished")

(* The pointer leads to the handle's own struct, which says what it should. *)
Reaches(h) == at[h] = h /\ ~Lost(h)

(* A struct somebody is about to use has not been freed, except where the   *)
(* two sides of a detach race for it.                                       *)
LEMMA NotFreed ==
  ASSUME TypeOK, NEW h \in Handles, HandleInv(h), Touches(h), Undisturbed
  PROVE  FreedMemory = "intact" \/ frees[h] = 0
<1> USE DEF TypeOK, ConsumerPC, WorkerPC, HandleInv, Progress, ClaimedOnce, Started, Published,
            HasFinished, Detaching
<1>1. CASE cpc[h] \in {"spawn", "ready", "wait", "take", "mark", "free", "os_detach", "clear"}
  BY <1>1
<1>2. CASE wpc[h] = "result" \/ ~Drained(h, "detached") \/ ~Drained(h, "finished")
  BY <1>2
<1>3. CASE CreatorTouches(h)
  <2>1. cpc[h] = "ready"
    BY <1>3 DEF CreatorTouches, HandleStored, StoredFirst
  <2>2. QED
    BY <2>1
<1>4. CASE cpc[h] = "reclaim" \/ wpc[h] = "reclaim"
  BY <1>4
<1>5. CASE cpc[h] \in {"load", "claim"} \/ wpc[h] \in {"load", "claim"}
  BY <1>5 DEF Undisturbed, NoLateClaim
<1>6. QED
  BY <1>1, <1>2, <1>3, <1>4, <1>5 DEF Touches

(* So every access reaches the struct that is meant.                        *)
LEMMA Located ==
  ASSUME TypeOK, NEW h \in Handles, Placed(h), HandleInv(h), Touches(h), Undisturbed
  PROVE  Reaches(h)
<1>1. FreedMemory = "intact" \/ frees[h] = 0
  BY NotFreed
<1>2. QED
  BY <1>1 DEF Placed, Reaches, Lost, TypeOK

(* Nothing has been created.                                                *)
LEMMA InitIInv == Init => IInv
  BY ThreadAssumption DEF Init, IInv, TypeOK, ConsumerPC, WorkerPC, Placed, HandleInv, Progress,
     ClaimedOnce, Values, HandleStored, NobodyMissed, Started, Published, HasFinished, Detaching,
     Drained, StoredFirst

(* What a single handle can do.                                             *)
HandleStep(h) ==
  Create(h) \/ Worker(h) \/ Join(h) \/ InJoin(h) \/ Detach(h) \/ InDetach(h) \/ Drain(h)

(* Every step keeps the types.                                              *)
LEMMA StepType == TypeOK /\ [Next]_allvars => TypeOK'
<1> SUFFICES ASSUME TypeOK, [Next]_allvars PROVE TypeOK'
  OBVIOUS
<1>0. backend' = backend
  BY DEF Next, allvars
<1> USE <1>0
<1> USE DEF TypeOK, ConsumerPC, WorkerPC, ConsumerGoes, WorkerGoes, CreatorGoes, Write, Read,
            Flag, OsValue, flags, struct, memory, history
<1>1. ASSUME NEW h \in Handles, Create(h) PROVE TypeOK'
  BY <1>1 DEF Create, Calloc, CallocFails, Spawn, SpawnFails, Free, AssignHandle, TestHandle
<1>2. ASSUME NEW h \in Handles,
             Start(h) \/ FuncReturns(h) \/ StoreResult(h) \/ StoreFinished(h) \/ Exit(h)
      PROVE  TypeOK'
  BY <1>2 DEF Start, FuncReturns, StoreResult, StoreFinished, Exit
<1>3. ASSUME NEW h \in Handles, LoadDetached(h) \/ WorkerClaims(h) \/ WorkerReclaims(h)
      PROVE  TypeOK'
  BY <1>3 DEF LoadDetached, AfterFinish, WorkerClaims, WorkerReclaims, Free, Close
<1>4. ASSUME NEW h \in Handles, Join(h) \/ InJoin(h) PROVE TypeOK'
  BY <1>4 DEF Join, InJoin, Wait, WaitFails, TakeResult, StoreJoined, FreeJoined, Free, Close
<1>5. ASSUME NEW h \in Handles,
             Detach(h) \/ OsDetach(h) \/ OsDetachFails(h) \/ ClearHandle(h) \/ StoreDetached(h)
      PROVE  TypeOK'
  BY <1>5 DEF Detach, OsDetach, OsDetachFails, ClearHandle, HandleAfterClose, StoreDetached, Close
<1>6. ASSUME NEW h \in Handles, LoadFinished(h) \/ ConsumerClaims(h) \/ ConsumerReclaims(h)
      PROVE  TypeOK'
  BY <1>6 DEF LoadFinished, AfterDetach, ConsumerClaims, ConsumerReclaims, Free
<1>7. ASSUME NEW h \in Handles, Drain(h) PROVE TypeOK'
  BY <1>7 DEF Drain, DrainDetached, DrainFinished
<1>8. CASE UNCHANGED allvars
  BY <1>8 DEF allvars, vars
<1>9. QED
  BY <1>1, <1>2, <1>3, <1>4, <1>5, <1>6, <1>7, <1>8 DEF Next, Worker, InDetach

(* The handle h is left as it is.                                           *)
Untouched(h) ==
  /\ detached'[h] = detached[h] /\ joined'[h] = joined[h]
  /\ finished'[h] = finished[h] /\ cleanup_claimed'[h] = cleanup_claimed[h]
  /\ result'[h] = result[h] /\ handle'[h] = handle[h]
  /\ creator'[h] = creator[h] /\ cpc'[h] = cpc[h] /\ wpc'[h] = wpc[h]
  /\ ret'[h] = ret[h] /\ out'[h] = out[h]
  /\ frees'[h] = frees[h] /\ closes'[h] = closes[h]
  /\ \A f \in {"detached", "finished"} : <<h, f>> \in pending' <=> <<h, f>> \in pending

(* Handles do not interfere: a step of one leaves every other alone.        *)
LEMMA Independent ==
  ASSUME TypeOK, NEW u \in Handles, Placed(u), HandleInv(u), Undisturbed, HandleStep(u),
         NEW h \in Handles \ {u}
  PROVE  Untouched(h)
<1>0. Touches(u) => at[u] = u
  BY Located DEF Reaches
<1> USE DEF TypeOK, Untouched, Touches, ConsumerGoes, WorkerGoes, CreatorGoes, Write, Free, Close,
            flags, struct, memory, history
<1>1. CASE Calloc(u) \/ CallocFails(u)
  BY <1>1 DEF Calloc, CallocFails
<1>2. CASE Spawn(u) \/ SpawnFails(u) \/ AssignHandle(u) \/ TestHandle(u)
  BY <1>0, <1>2 DEF Spawn, SpawnFails, AssignHandle, TestHandle, CreatorTouches
<1>3. CASE Start(u) \/ FuncReturns(u) \/ StoreResult(u) \/ StoreFinished(u) \/ Exit(u)
  BY <1>0, <1>3 DEF Start, FuncReturns, StoreResult, StoreFinished, Exit
<1>4. CASE LoadDetached(u) \/ WorkerClaims(u) \/ WorkerReclaims(u)
  BY <1>0, <1>4 DEF LoadDetached, AfterFinish, WorkerClaims, WorkerReclaims
<1>5. CASE Join(u) \/ InJoin(u)
  BY <1>0, <1>5 DEF Join, InJoin, Wait, WaitFails, TakeResult, StoreJoined, FreeJoined
<1>6. CASE Detach(u) \/ OsDetach(u) \/ OsDetachFails(u) \/ ClearHandle(u) \/ StoreDetached(u)
  BY <1>0, <1>6 DEF Detach, OsDetach, OsDetachFails, ClearHandle, StoreDetached
<1>7. CASE LoadFinished(u) \/ ConsumerClaims(u) \/ ConsumerReclaims(u)
  BY <1>0, <1>7 DEF LoadFinished, AfterDetach, ConsumerClaims, ConsumerReclaims
<1>8. CASE Drain(u)
  BY <1>0, <1>8 DEF Drain, DrainDetached, DrainFinished, Drained
<1>9. QED
  BY <1>1, <1>2, <1>3, <1>4, <1>5, <1>6, <1>7, <1>8 DEF HandleStep, Create, Worker, InDetach

(* What the strengthening says of a handle that is left alone stays true.   *)
LEMMA UntouchedKeeps ==
  ASSUME NEW h \in Handles, Untouched(h), backend' = backend
  PROVE  HandleInv(h)' = HandleInv(h)
  BY DEF Untouched, HandleInv, Progress, ClaimedOnce, Values, HandleStored, NobodyMissed,
     Started, Published, HasFinished, Detaching, Drained, StoredFirst

(* The handle that moves keeps its part of the strengthening, one step per  *)
(* action.                                                                  *)
LEMMA StepHandle ==
  ASSUME HandleBeforeDetach, TypeOK, NEW h \in Handles, Placed(h), HandleInv(h), Undisturbed,
         HandleStep(h), backend' = backend
  PROVE  HandleInv(h)'
<1>0. Touches(h) => at[h] = h /\ ~Lost(h)
  BY Located DEF Reaches
<1>a. backend \in {"POSIX", "WINDOWS"}
  BY ThreadAssumption DEF TypeOK
<1> USE DEF TypeOK, ConsumerPC, WorkerPC, HandleInv, Progress, ClaimedOnce,
            Values, HandleStored, NobodyMissed, Started, Published, HasFinished, Detaching, Drained,
            StoredFirst, Touches, Read, Write, Free, Close, ConsumerGoes, WorkerGoes, CreatorGoes,
            flags, struct, memory, history
<1>1. CASE Calloc(h)
  BY <1>a, <1>1 DEF Calloc
<1>2. CASE CallocFails(h)
  BY <1>a, <1>2 DEF CallocFails
<1>3. CASE Spawn(h)
  BY <1>0, <1>a, <1>3 DEF Spawn
<1>4. CASE SpawnFails(h)
  BY <1>0, <1>a, <1>4 DEF SpawnFails
<1>5. CASE AssignHandle(h)
  BY <1>0, <1>a, <1>5 DEF AssignHandle, CreatorTouches
<1>6. CASE TestHandle(h)
  BY <1>0, <1>a, <1>6 DEF TestHandle, CreatorTouches
<1>7. CASE Start(h)
  BY <1>a, <1>7 DEF Start
<1>8. CASE FuncReturns(h)
  BY <1>a, <1>8 DEF FuncReturns
<1>9. CASE StoreResult(h)
  BY <1>0, <1>a, <1>9 DEF StoreResult
<1>10. CASE StoreFinished(h)
  BY <1>a, <1>10 DEF StoreFinished
<1>11. CASE LoadDetached(h)
  BY <1>0, <1>a, <1>11 DEF LoadDetached, Fence, AfterFinish
<1>12. CASE WorkerClaims(h)
  BY <1>0, <1>a, <1>12 DEF WorkerClaims, Wins
<1>13. CASE WorkerReclaims(h)
  BY <1>0, <1>a, <1>13 DEF WorkerReclaims
<1>14. CASE Exit(h)
  BY <1>a, <1>14 DEF Exit
<1>15. CASE Join(h)
  BY <1>a, <1>15 DEF Join
<1>16. CASE Wait(h)
  BY <1>0, <1>a, <1>16 DEF Wait, WaitOver
<1>17. CASE WaitFails(h)
  BY <1>a, <1>17 DEF WaitFails
<1>18. CASE TakeResult(h)
  BY <1>0, <1>a, <1>18 DEF TakeResult
<1>19. CASE StoreJoined(h)
  BY <1>0, <1>a, <1>19 DEF StoreJoined
<1>20. CASE FreeJoined(h)
  BY <1>0, <1>a, <1>20 DEF FreeJoined
<1>21. CASE Detach(h)
  BY <1>a, <1>21, ThreadAssumption DEF Detach, HandleBeforeDetach
<1>22. CASE OsDetach(h)
  BY <1>0, <1>a, <1>22 DEF OsDetach
<1>23. CASE ClearHandle(h)
  BY <1>0, <1>a, <1>23 DEF ClearHandle, HandleAfterClose
<1>24. CASE OsDetachFails(h)
  BY <1>a, <1>24 DEF OsDetachFails
<1>25. CASE StoreDetached(h)
  BY <1>a, <1>25 DEF StoreDetached
<1>26. CASE LoadFinished(h)
  BY <1>0, <1>a, <1>26 DEF LoadFinished, Fence, AfterDetach
<1>27. CASE ConsumerClaims(h)
  BY <1>0, <1>a, <1>27 DEF ConsumerClaims, Wins
<1>28. CASE ConsumerReclaims(h)
  BY <1>0, <1>a, <1>28 DEF ConsumerReclaims
<1>29. CASE DrainDetached(h)
  BY <1>0, <1>a, <1>29 DEF DrainDetached
<1>30. CASE DrainFinished(h)
  BY <1>0, <1>a, <1>30 DEF DrainFinished
<1>31. QED
  BY <1>1, <1>2, <1>3, <1>4, <1>5, <1>6, <1>7, <1>8, <1>9, <1>10, <1>11,
     <1>12, <1>13, <1>14, <1>15, <1>16, <1>17, <1>18, <1>19, <1>20, <1>21, <1>22, <1>23,
     <1>24, <1>25, <1>26, <1>27, <1>28, <1>29, <1>30
     DEF HandleStep, Create, Worker, InJoin, InDetach, Drain

(* A pointer goes astray only if calloc takes a freed block.                *)
LEMMA StepPlaced ==
  ASSUME TypeOK, [Next]_allvars, NEW h \in Handles, Placed(h)
  PROVE  Placed(h)'
<1>1. frees'[h] = 0 => frees[h] = 0
  <2>1. ASSUME NEW u \in Handles, Free(u) PROVE frees'[h] = 0 => frees[h] = 0
    BY <2>1 DEF TypeOK, Free
  <2>2. frees' = frees \/ \E u \in Handles : Free(u)
    BY DEF allvars, vars, history, Next, Create, Worker, InJoin, InDetach, Drain,
       Calloc, CallocFails, Spawn, SpawnFails, AssignHandle, TestHandle, Start, FuncReturns,
       StoreResult, StoreFinished, LoadDetached, WorkerClaims, WorkerReclaims, Exit, Join, Wait,
       WaitFails, TakeResult, StoreJoined, FreeJoined, Detach, OsDetach, OsDetachFails,
       ClearHandle, StoreDetached, LoadFinished, ConsumerClaims, ConsumerReclaims,
       DrainDetached, DrainFinished
  <2>3. QED
    BY <2>1, <2>2
<1>2. at' = at \/ \E u \in Handles : Calloc(u)
  BY DEF allvars, vars, memory, Next, Create, Worker, InJoin, InDetach, Drain, Free,
     CallocFails, Spawn, SpawnFails, AssignHandle, TestHandle, Start, FuncReturns,
     StoreResult, StoreFinished, LoadDetached, WorkerClaims, WorkerReclaims, Exit, Join, Wait,
     WaitFails, TakeResult, StoreJoined, FreeJoined, Detach, OsDetach, OsDetachFails, ClearHandle,
     StoreDetached, LoadFinished, ConsumerClaims, ConsumerReclaims, DrainDetached, DrainFinished
<1>3. ASSUME NEW u \in Handles, Calloc(u), at[h] = h, FreedMemory = "intact" \/ frees[h] = 0
      PROVE  at'[h] = h
  BY <1>3 DEF Calloc, Lost, TypeOK
<1>4. QED
  BY <1>1, <1>2, <1>3 DEF Placed

(* Any step, seen from the handle h.                                        *)
LEMMA StepAny ==
  ASSUME HandleBeforeDetach, IInv, Undisturbed, [Next]_allvars, NEW h \in Handles
  PROVE  HandleInv(h)'
<1>1. CASE UNCHANGED allvars
  <2>1. Untouched(h) /\ backend' = backend
    BY <1>1 DEF allvars, vars, memory, struct, flags, history, Untouched
  <2>2. QED
    BY <2>1, UntouchedKeeps DEF IInv
<1>2. ASSUME NEW u \in Handles, HandleStep(u), backend' = backend PROVE HandleInv(h)'
  <2>1. CASE u = h
    BY <1>2, <2>1, StepHandle DEF IInv
  <2>2. CASE u # h
    BY <1>2, <2>2, Independent, UntouchedKeeps DEF IInv
  <2>3. QED
    BY <2>1, <2>2
<1>3. QED
  BY <1>1, <1>2 DEF Next, HandleStep

LEMMA StepIInv == HandleBeforeDetach /\ Undisturbed /\ IInv /\ [Next]_allvars => IInv'
  BY StepType, StepPlaced, StepAny DEF IInv

(* The strengthening is an invariant of every thread handle.                *)
THEOREM ThreadInvariant ==
  ASSUME HandleBeforeDetach PROVE Spec /\ []Undisturbed => []IInv
<1>1. Undisturbed /\ IInv /\ [Next]_allvars => IInv'
  BY StepIInv
<1>2. QED
  BY <1>1, InitIInv, PTL DEF Spec

(* A struct is freed at most once, by whoever gets there.                   *)
THEOREM FreedOnce ==
  ASSUME HandleBeforeDetach PROVE Spec /\ []Undisturbed => []FreedAtMostOnce
<1>1. ASSUME IInv, NEW h \in Handles PROVE frees[h] <= 1
  BY <1>1 DEF IInv, TypeOK, HandleInv, Progress, ClaimedOnce, Started, ConsumerPC
<1>2. IInv => FreedAtMostOnce
  BY <1>1 DEF FreedAtMostOnce
<1>3. QED
  BY <1>2, ThreadInvariant, PTL

(* The OS handle is joined, detached or closed once and never twice.        *)
THEOREM ReleasedOnce ==
  ASSUME HandleBeforeDetach PROVE Spec /\ []Undisturbed => []HandleReleasedOnce
<1>1. ASSUME IInv, NEW h \in Handles
      PROVE  closes[h] <= 1 /\ (cpc[h] \in {"joined", "detached"} => closes[h] = 1)
  BY <1>1 DEF IInv, TypeOK, HandleInv, Values, Detaching, ConsumerPC
<1>2. IInv => HandleReleasedOnce
  BY <1>1 DEF HandleReleasedOnce
<1>3. QED
  BY <1>2, ThreadInvariant, PTL

(* A join hands over the function's result once the thread has ended.       *)
THEOREM Delivered == ASSUME HandleBeforeDetach PROVE Spec /\ []Undisturbed => []JoinDelivers
<1>1. IInv => JoinDelivers
  BY DEF IInv, HandleInv, Progress, Values, JoinDelivers
<1>2. QED
  BY <1>1, ThreadInvariant, PTL

(* Both sides find the struct until a detach is published, and              *)
(* ccthread_create finds it in any case.                                    *)
THEOREM StructLives ==
  ASSUME HandleBeforeDetach PROVE Spec /\ []Undisturbed => []StructOutlivesJoin
<1>1. ASSUME IInv, NEW h \in Handles, ~Detaching(h), ConsumerTouches(h) \/ WorkerTouches(h)
      PROVE  frees[h] = 0
  BY <1>1 DEF IInv, TypeOK, HandleInv, Progress, ClaimedOnce, Started, Published,
     Detaching, ConsumerTouches, WorkerTouches, ConsumerPC, WorkerPC
<1>2. ASSUME IInv, NEW h \in Handles, CreatorTouches(h) PROVE frees[h] = 0
  BY <1>2 DEF IInv, TypeOK, HandleInv, Progress, ClaimedOnce, HandleStored, StoredFirst, Started,
     Published, Detaching, CreatorTouches, ConsumerPC
<1>3. IInv => StructOutlivesJoin
  BY <1>1, <1>2 DEF StructOutlivesJoin
<1>4. QED
  BY <1>3, ThreadInvariant, PTL

(* A thread finds its own struct as long as its function runs, detached or  *)
(* not, also when it has detached itself before its creator returned.       *)
THEOREM SelfLives == ASSUME HandleBeforeDetach PROVE Spec /\ []Undisturbed => []SelfLive
<1>1. IInv => SelfLive
  BY DEF IInv, TypeOK, HandleInv, Progress, ClaimedOnce, HasFinished, Started, SelfLive
<1>2. QED
  BY <1>1, ThreadInvariant, PTL

(* With a full barrier between each side's store and its load, a detached   *)
(* struct is never leaked.                                                  *)
THEOREM FencedNeverLeaks ==
  ASSUME HandleBeforeDetach, Fenced PROVE Spec /\ []Undisturbed => []DetachedReclaimed
<1>1. IInv => DetachedReclaimed
  BY DEF IInv, TypeOK, HandleInv, NobodyMissed, ClaimedOnce, DetachedReclaimed
<1>2. QED
  BY <1>1, ThreadInvariant, PTL

(* What the promise sees of u is the same after the step.                   *)
Same(u) == ThreadIs(u)' = ThreadIs(u) /\ ClientIs(u)' = ClientIs(u) /\ StructIs(u)' = StructIs(u)

(* A step in which nothing the promise sees changes.                        *)
LEMMA SilentStep == (\A u \in Handles : Same(u)) => UNCHANGED Promise!vars
  BY DEF Same, Promise!vars, ThreadMap, ClientMap, StructMap

(* A step that changes what the promise sees of h only.                     *)
LEMMA StepAt ==
  ASSUME NEW h \in Handles, \A u \in Handles \ {h} : Same(u)
  PROVE  /\ ThreadMap' = [ThreadMap EXCEPT ![h] = ThreadIs(h)']
         /\ ClientMap' = [ClientMap EXCEPT ![h] = ClientIs(h)']
         /\ StructMap' = [StructMap EXCEPT ![h] = StructIs(h)']
         /\ ThreadIs(h)' = ThreadIs(h) => UNCHANGED ThreadMap
         /\ ClientIs(h)' = ClientIs(h) => UNCHANGED ClientMap
         /\ StructIs(h)' = StructIs(h) => UNCHANGED StructMap
         /\ ThreadMap[h] = ThreadIs(h)
         /\ ClientMap[h] = ClientIs(h)
         /\ StructMap[h] = StructIs(h)
  BY DEF Same, ThreadMap, ClientMap, StructMap

(* Every step keeps the promise of ThreadHandle or is silent.               *)
LEMMA StepPromise ==
  Undisturbed /\ IInv /\ IInv' /\ [Next]_allvars => [Promise!Next]_(Promise!vars)
<1> SUFFICES ASSUME Undisturbed, IInv, IInv', [Next]_allvars
             PROVE [Promise!Next]_(Promise!vars)
  OBVIOUS
<1>0. \A h \in Handles : Touches(h) => at[h] = h
  BY Located DEF IInv, Reaches
<1> USE DEF IInv, TypeOK, ConsumerPC, WorkerPC, HandleInv, ThreadIs, ClientIs, StructIs,
            Started, Published, HasFinished, Detaching, ConsumerGoes, WorkerGoes,
            CreatorGoes, Same, Touches, flags, struct, memory, history
<1>1. ASSUME NEW h \in Handles, Calloc(h) PROVE Promise!Allocate(h)
  <2>1. \A u \in Handles \ {h} : Same(u)
    BY <1>1 DEF Calloc
  <2>2. StructIs(h) = "none" /\ StructIs(h)' = "live"
    BY <1>1 DEF Calloc, ClaimedOnce
  <2>3. ThreadIs(h)' = ThreadIs(h) /\ ClientIs(h)' = ClientIs(h)
    BY <1>1 DEF Calloc
  <2>4. QED
    BY <2>1, <2>2, <2>3, StepAt DEF Promise!Allocate
<1>2. ASSUME NEW h \in Handles, Spawn(h) PROVE Promise!Start(h)
  <2>1. \A u \in Handles \ {h} : Same(u)
    BY <1>2 DEF Spawn
  <2>2. ThreadIs(h) = "none" /\ ClientIs(h) = "none" /\ StructIs(h) = "live"
    BY <1>2 DEF Spawn, ClaimedOnce, Progress
  <2>3. ThreadIs(h)' = "running" /\ ClientIs(h)' = "owns" /\ StructIs(h)' = "live"
    BY <1>2 DEF Spawn, ClaimedOnce, Progress
  <2>4. QED
    BY <2>1, <2>2, <2>3, StepAt DEF Promise!Start
<1>3. ASSUME NEW h \in Handles, SpawnFails(h) PROVE Promise!Refuse(h)
  <2>1. \A u \in Handles \ {h} : Same(u)
    BY <1>0, <1>3 DEF SpawnFails, Free
  <2>2. ThreadIs(h) = "none" /\ ClientIs(h) = "none" /\ StructIs(h) = "live"
    BY <1>0, <1>3 DEF SpawnFails, Free, ClaimedOnce, Progress
  <2>3. ThreadIs(h)' = "none" /\ ClientIs(h)' = "none" /\ StructIs(h)' = "reclaimed"
    BY <1>0, <1>3 DEF SpawnFails, Free, ClaimedOnce, Progress
  <2>4. QED
    BY <2>1, <2>2, <2>3, StepAt DEF Promise!Refuse
<1>4. ASSUME NEW h \in Handles, StoreFinished(h) PROVE Promise!Finish(h)
  <2>1. \A u \in Handles \ {h} : Same(u)
    BY <1>4 DEF StoreFinished
  <2>2. ThreadIs(h) = "running" /\ ThreadIs(h)' = "done"
    BY <1>4 DEF StoreFinished, ClaimedOnce, Progress
  <2>3. ClientIs(h)' = ClientIs(h) /\ StructIs(h)' = StructIs(h)
    BY <1>4 DEF StoreFinished, ClaimedOnce, Progress
  <2>4. QED
    BY <2>1, <2>2, <2>3, StepAt DEF Promise!Finish
<1>5. ASSUME NEW h \in Handles, StoreDetached(h) PROVE Promise!Detach(h)
  <2>1. \A u \in Handles \ {h} : Same(u)
    BY <1>5 DEF StoreDetached
  <2>2. ClientIs(h) = "owns" /\ ClientIs(h)' = "detached"
    BY <1>5 DEF StoreDetached, ClaimedOnce, Progress
  <2>3. ThreadIs(h)' = ThreadIs(h) /\ StructIs(h)' = StructIs(h)
    BY <1>5 DEF StoreDetached, ClaimedOnce, Progress
  <2>4. QED
    BY <2>1, <2>2, <2>3, StepAt DEF Promise!Detach
<1>6. ASSUME NEW h \in Handles, FreeJoined(h) PROVE Promise!Join(h)
  <2>1. \A u \in Handles \ {h} : Same(u)
    BY <1>0, <1>6 DEF FreeJoined, Free
  <2>2. ThreadIs(h) = "done" /\ ClientIs(h) = "owns" /\ StructIs(h) = "live"
    BY <1>0, <1>6 DEF FreeJoined, Free, ClaimedOnce, Progress
  <2>3. ThreadIs(h)' = "done" /\ ClientIs(h)' = "joined" /\ StructIs(h)' = "reclaimed"
    BY <1>0, <1>6 DEF FreeJoined, Free, ClaimedOnce, Progress
  <2>4. QED
    BY <2>1, <2>2, <2>3, StepAt DEF Promise!Join
<1>7. ASSUME NEW h \in Handles, WorkerReclaims(h) PROVE Promise!Reclaim(h)
  <2>1. \A u \in Handles \ {h} : Same(u)
    BY <1>0, <1>7 DEF WorkerReclaims, Free
  <2>2. ThreadIs(h) = "done" /\ ClientIs(h) = "detached" /\ StructIs(h) = "live"
    BY <1>0, <1>7 DEF WorkerReclaims, Free, ClaimedOnce, Progress
  <2>3. ThreadIs(h)' = "done" /\ ClientIs(h)' = "detached" /\ StructIs(h)' = "reclaimed"
    BY <1>0, <1>7 DEF WorkerReclaims, Free, ClaimedOnce, Progress
  <2>4. QED
    BY <2>1, <2>2, <2>3, StepAt DEF Promise!Reclaim
<1>8. ASSUME NEW h \in Handles, ConsumerReclaims(h) PROVE Promise!Reclaim(h)
  <2>1. \A u \in Handles \ {h} : Same(u)
    BY <1>0, <1>8 DEF ConsumerReclaims, Free
  <2>2. ThreadIs(h) = "done" /\ ClientIs(h) = "detached" /\ StructIs(h) = "live"
    BY <1>0, <1>8 DEF ConsumerReclaims, Free, ClaimedOnce, Progress
  <2>3. ThreadIs(h)' = "done" /\ ClientIs(h)' = "detached" /\ StructIs(h)' = "reclaimed"
    BY <1>0, <1>8 DEF ConsumerReclaims, Free, ClaimedOnce, Progress
  <2>4. QED
    BY <2>1, <2>2, <2>3, StepAt DEF Promise!Reclaim
<1>9. ASSUME NEW h \in Handles,
             CallocFails(h) \/ AssignHandle(h) \/ Join(h) \/ Detach(h) \/ Drain(h)
      PROVE  UNCHANGED Promise!vars
  BY <1>9, SilentStep DEF CallocFails, AssignHandle, Join, Detach, Drain, DrainDetached, DrainFinished
<1>10. ASSUME NEW h \in Handles,
              \/ Start(h) \/ FuncReturns(h) \/ StoreResult(h)
              \/ LoadDetached(h) \/ WorkerClaims(h) \/ Exit(h)
       PROVE  UNCHANGED Promise!vars
  BY <1>10, SilentStep DEF Start, FuncReturns, StoreResult, LoadDetached, AfterFinish, WorkerClaims, Exit
<1>11. ASSUME NEW h \in Handles,
              Wait(h) \/ WaitFails(h) \/ TakeResult(h) \/ StoreJoined(h)
       PROVE  UNCHANGED Promise!vars
  BY <1>11, SilentStep DEF Wait, WaitFails, TakeResult, StoreJoined
<1>12. ASSUME NEW h \in Handles,
              \/ OsDetach(h) \/ OsDetachFails(h) \/ ClearHandle(h)
              \/ LoadFinished(h) \/ ConsumerClaims(h)
       PROVE  UNCHANGED Promise!vars
  BY <1>12, SilentStep DEF OsDetach, OsDetachFails, ClearHandle, LoadFinished, AfterDetach, ConsumerClaims
<1>13. ASSUME NEW h \in Handles, TestHandle(h) PROVE UNCHANGED Promise!vars
  <2>1. Read(h, handle, OsValue) = {"set"}
    BY <1>13, Located DEF TestHandle, HandleStored, CreatorTouches, Read, Reaches
  <2>2. QED
    BY <1>13, <2>1, SilentStep DEF TestHandle
<1>14. CASE UNCHANGED allvars
  BY <1>14, SilentStep DEF allvars, vars
<1>15. QED
  BY <1>1, <1>2, <1>3, <1>4, <1>5, <1>6, <1>7, <1>8, <1>9, <1>10, <1>11, <1>12, <1>13, <1>14
     DEF Next, Create, Worker, InJoin, InDetach, Promise!Next

(* The C code implements the abstract thread handle.                        *)
THEOREM ThreadImplementsHandle ==
  ASSUME HandleBeforeDetach PROVE Spec /\ []Undisturbed => ImplementsHandle
<1>1. ASSUME Init PROVE Promise!Init
  <2>1. \A h \in Handles : cpc[h] = "new" /\ wpc[h] = "none" /\ frees[h] = 0
    BY <1>1 DEF Init
  <2>2. \A h \in Handles : ThreadIs(h) = "none"
    BY <2>1 DEF ThreadIs, HasFinished
  <2>3. \A h \in Handles : ClientIs(h) = "none"
    BY <2>1 DEF ClientIs, Started, Published, Detaching
  <2>4. \A h \in Handles : StructIs(h) = "none"
    BY <2>1 DEF StructIs
  <2>5. QED
    BY <2>2, <2>3, <2>4 DEF Promise!Init, ThreadMap, ClientMap, StructMap
<1>2. Undisturbed /\ IInv /\ IInv' /\ [Next]_allvars => [Promise!Next]_(Promise!vars)
  BY StepPromise
<1>3. QED
  BY <1>1, <1>2, ThreadInvariant, PTL DEF Spec, ImplementsHandle, Promise!Spec
=============================================================================
