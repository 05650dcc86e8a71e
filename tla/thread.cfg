CONSTANTS
  Handles = {h1, h2}
  Results = {r1, r2}
  Null = r1
  Foreign = {main}
  Backends = {"POSIX", "WINDOWS"}
  EarlyDetach = {"POSIX"}
  Fenced = TRUE
  FreedMemory = "intact"
  HandleFirst = TRUE
  OsMayFail = TRUE
SPECIFICATION FairSelfSpec
INVARIANT IInv
INVARIANT FreedAtMostOnce
INVARIANT HandleReleasedOnce
INVARIANT JoinDelivers
INVARIANT StructOutlivesJoin
INVARIANT SelfLive
INVARIANT DetachedReclaimed
INVARIANT EqualMeansSame
 
PROPERTY ImplementsHandle
PROPERTY JoinReturns
PROPERTY DetachReclaims
CHECK_DEADLOCK FALSE
