CONSTANTS
  ThreadNum = 3
  MaxPools = 2
SPECIFICATION FairSpec
INVARIANTS TypeOK FreedAfterWorkers
PROPERTY DestoryReturns
