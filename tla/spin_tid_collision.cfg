CONSTANTS
  Threads = {1, 2}
  NativeId <- MCColliding
  TidSpace = 4
  MaxDepth = 2
SPECIFICATION Spec
INVARIANT MutualExclusion
