CONSTANTS
  Handles = {h1, h2}
  Results = {r1, r2}
  Null = r1
  Backends = {"POSIX"}
  EarlyDetach = {}
  Fenced = TRUE
  FreedMemory = "reused"
  HandleFirst = TRUE
  OsMayFail = FALSE
SPECIFICATION Spec
INVARIANT FreedAtMostOnce
CHECK_DEADLOCK FALSE
