---------------------------- MODULE CcSemKernel ----------------------------
(***************************************************************************)
(* ccsem.c on all its platforms: CcSem where it is built on a mutex and a  *)
(* condition variable, and the semaphores of Windows and of macOS, where   *)
(* each call of the library is one call of the kernel.                     *)
(***************************************************************************)
EXTENDS CcSem, CcTime

CONSTANT LongMax   \* the limit CreateSemaphoreW is given

\* ccsem_create clamps a larger initial count, silently.
ASSUME KernelAssumption == LongMax \in InitialCount..UintMax

VARIABLE backend

kvars == <<vars, backend>>

KInit == Init /\ backend \in {"POSIX", "WINDOWS", "MACOS"}

\* The kernel settles the call in one step.
Ends(t, r) ==
  /\ Goto(t, "entered", "leave")
  /\ Settle(t, r)
  /\ UNCHANGED <<mutex, sem, calls>>

KernelTake(t) ==
  /\ op[t] \in Waits /\ count > 0
  /\ count' = count - 1
  /\ taken' = taken + 1 /\ UNCHANGED posted
  /\ Ends(t, "SUCCESS")

KernelDenies(t) ==
  /\ op[t] = "trywait" /\ count = 0
  /\ Ends(t, "TIMEOUT") /\ UNCHANGED <<count, history>>

\* A wait whose deadline passes has not been given a token.
KernelExpires(t) ==
  /\ MayExpire(t) /\ count = 0
  /\ Ends(t, "TIMEOUT") /\ UNCHANGED <<count, history>>

\* WAIT_FAILED.
KernelWaitFails(t) ==
  /\ backend = "WINDOWS" /\ "kernel_wait" \in FailingCalls
  /\ op[t] \in Waits
  /\ Ends(t, "ERROR") /\ UNCHANGED <<count, history>>

\* ReleaseSemaphore refuses a token beyond the limit and leaves the count.
Releases == backend = "WINDOWS" => count < LongMax

\* Mutant: what ReleaseSemaphore says is not looked at.
ReportedBlind(ok) == "SUCCESS"

Reported(ok) == IF ok THEN "SUCCESS" ELSE "ERROR"

KernelPost(t) ==
  /\ op[t] = "post"
  /\ count' = IF Releases THEN count + 1 ELSE count
  /\ posted' = IF Releases THEN posted + 1 ELSE posted
  /\ UNCHANGED taken
  /\ Ends(t, Reported(Releases))

\* dispatch_release stops the program when fewer tokens are there than at the
\* start: on macOS only a client that has put them back can destroy.
DestroyReturned ==
  /\ sem = "live" /\ sem' = "destroyed"
  /\ count >= InitialCount /\ posted = posts
  /\ \A t \in Threads : op[t] \in {"none", "post"}
  /\ UNCHANGED <<count, mutex, pc, outcome, calls, history>>

KernelStep(t) ==
  \/ KernelTake(t) \/ KernelDenies(t) \/ KernelWaitFails(t) \/ KernelPost(t) \/ Leave(t)

KStep(t) ==
  /\ IF backend = "POSIX" THEN Step(t) ELSE KernelStep(t)
  /\ UNCHANGED backend

KExpire(t) ==
  /\ IF backend = "POSIX" THEN Expire(t) ELSE KernelExpires(t)
  /\ UNCHANGED backend

KDestroy ==
  /\ IF backend = "MACOS" THEN DestroyReturned ELSE Destroy
  /\ UNCHANGED backend

KNext ==
  \/ \E t \in Threads :
       \/ (Wait(t) \/ Post(t) \/ SpuriousWakeup(t)) /\ UNCHANGED backend
       \/ KStep(t) \/ KExpire(t)
  \/ KDestroy

\* As in CcSem: threads that can run do, and deadlines pass.
KFairness == \A t \in Threads : WF_kvars(KStep(t)) /\ WF_kvars(KExpire(t))

KSpec == KInit /\ [][KNext]_kvars
FairKSpec == KSpec /\ KFairness

---------------------------------------------------------------------------
\* The inductive strengthening: on a kernel semaphore every call is one step
\* between entry and return.
InKernel ==
  /\ backend \in {"POSIX", "WINDOWS", "MACOS"}
  /\ backend # "POSIX" => \A t \in Threads : pc[t] \in {"idle", "entered", "leave"}
KInv == IInv /\ InKernel

\* What clients of POSIX and macOS owe the semaphore: no post finds the counter
\* at its limit (ccsem.c:301).  NoOverflow is one way to see to it.
Adding(t) ==
  pc[t] = "increment" \/ (backend = "MACOS" /\ pc[t] = "entered" /\ op[t] = "post")
Room == count = UintMax => \A t \in Threads : ~Adding(t)

\* Whenever a timed wait has to compute a deadline, it is the clock plus the
\* timeout to the nanosecond, and a timespec the platform accepts: one carry is
\* always enough, and the sum before it stays below two seconds, 2000000000,
\* which a 32-bit long holds (ccsem.c:245-253, cccondvar.c:142-167).
DeadlineExact ==
  \A t \in Threads :
    pc[t] = "test" /\ op[t] = "timedwait" /\ ~Sufficient(t) => Exact
=============================================================================
