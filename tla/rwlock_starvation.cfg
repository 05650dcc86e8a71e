CONSTANTS
  Threads = {1, 2, 3}
  NoThread = 0
  Tid <- MCShared
  Backends = {"POSIX"}
  WritersFirst = FALSE
SPECIFICATION WatchfulSpec
PROPERTY NotStarvedByReaders
