CONSTANTS
  Threads = {t1, t2, t3}
  NoThread = none
  InitialCount = 1
  UintMax = 3
  LongMax = 2
  MaxPosts = 2
  MaxWaits = 3
  FailingCalls = {"mutex_lock", "cond_wait", "kernel_wait"}
  MsPerSec = 3
  NsPerMs = 2
  MaxMs = 7
  MaxSec = 1
SPECIFICATION FairKSpec
INVARIANT KInv
INVARIANT NoLostWakeup
INVARIANT NoUseAfterDestroy
INVARIANT DeadlineExact
PROPERTY ImplementsSemaphore
PROPERTY WaitersServed
PROPERTY BoundedCallsReturn
CHECK_DEADLOCK FALSE
