CONSTANTS
  Threads = {t1, t2, t3}
  MaxCalls = 2
  MaxRounds = 2
  Endless = FALSE
  Ordered = TRUE
SPECIFICATION FairSpec
INVARIANT IInv
INVARIANT OneHolder
INVARIANT InitialisedOnce
INVARIANT EffectsVisible
PROPERTY ImplementsOnce
CHECK_DEADLOCK FALSE
PROPERTY EveryCallReturns
