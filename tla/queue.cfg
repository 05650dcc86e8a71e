CONSTANTS
  Threads = {p1, p2, c1, c2}
  Consumers = {c1, c2}
  NoThread = none
  Type = "PLAIN"
  Conds = {"not_full", "not_empty"}
  Capacity = 2
  Depth = 1
  Moves = 3
  MaxEarly = 1
SPECIFICATION FairSpec
INVARIANT IInv
INVARIANT NoLostWakeup
PROPERTY ImplementsFifo
PROPERTY AllMoved
CHECK_DEADLOCK FALSE
