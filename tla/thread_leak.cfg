CONSTANTS
  Handles = {h1}
  Results = {r1, r2}
  Null = r1
  Backends = {"POSIX"}
  EarlyDetach = {}
  Fenced = FALSE
  FreedMemory = "intact"
  HandleFirst = TRUE
  OsMayFail = FALSE
SPECIFICATION Spec
INVARIANT DetachedReclaimed
CHECK_DEADLOCK FALSE
