CONSTANTS
  w1 = w1  w2 = w2
  c1 = c1  c2 = c2  c3 = c3
  NULL = NULL
  Workers <- MCWorkers
  Clients <- MCClients
  Rude <- MCNoRude
  Requests <- MCFiles
  FdLimit = 2
  BacklogLimit = 2
  MaxJobs = 2
SPECIFICATION FairSpec
PROPERTY GetIsAnswered
