CONSTANTS
  w1 = w1  w2 = w2
  r1 = r1  r2 = r2
  Server = Server  NULL = NULL
  Workers <- MCWorkers
  Requests <- MCRequests
  Posts <- MCPosts
  Mortal <- MCMortal
  MaxBody = 2
  MaxContent = 3
  PipeSize = 1
  Outputs <- MCLongOutput
SPECIFICATION FairSpec
INVARIANTS TypeOK AnswerIsOutput
PROPERTY ConnectionEnds
CHECK_DEADLOCK FALSE
