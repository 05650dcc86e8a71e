CONSTANTS
  Threads = {t1, t2, t3}
  MaxCalls = 0
  MaxRounds = 1
  Endless = TRUE
  Ordered = TRUE
SPECIFICATION FairSpec
PROPERTY EveryCallReturns
CHECK_DEADLOCK FALSE
