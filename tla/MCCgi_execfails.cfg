CONSTANTS
  w1 = w1  w2 = w2
  r1 = r1  r2 = r2
  Server = Server  NULL = NULL
  Workers <- MCWorkers
  Requests <- MCRequests
  Posts <- MCNoPosts
  Mortal = {}
  MaxBody = 1
  MaxContent = 2
  PipeSize = 1
  Outputs <- MCShortOutput
SPECIFICATION FairSpec
PROPERTY CgiGetIsAnswered
CHECK_DEADLOCK FALSE
