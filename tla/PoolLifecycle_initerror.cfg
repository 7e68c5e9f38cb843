CONSTANTS
  ThreadNum = 3
  MaxPools = 2
SPECIFICATION Spec
INVARIANT InitErrorReturnsNull
