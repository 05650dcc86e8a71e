CONSTANTS
  Handles = {h1}
  Results = {r1, r2}
  Null = r1
  Foreign = {main}
  Backends = {"WINDOWS"}
  EarlyDetach = {}
  Fenced = TRUE
  FreedMemory = "intact"
  HandleFirst = FALSE
  OsMayFail = FALSE
SPECIFICATION SelfSpec
INVARIANT NamesLiveThread
CHECK_DEADLOCK FALSE
