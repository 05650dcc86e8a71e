CONSTANTS
  Threads = {1, 2, 3}
  NativeId <- MCDistinct
  TidSpace = 4
  MaxDepth = 2
SPECIFICATION FairSpec
INVARIANT IInv
INVARIANT MutualExclusion
INVARIANT DepthTracked
PROPERTY FieldsOwned
PROPERTY ImplementsLock
PROPERTY SomeoneGetsIn
