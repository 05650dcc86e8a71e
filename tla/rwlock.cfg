CONSTANTS
  Threads = {1, 2, 3}
  NoThread = 0
  Tid <- MCShared
  Backends = {"POSIX", "WINDOWS"}
  WritersFirst = TRUE
SPECIFICATION FairSpec
INVARIANT IInv
INVARIANT ReleaseMatches
INVARIANT ReadersOrWriter
PROPERTY ImplementsRwLock
PROPERTY NotStarvedByReaders
