CONSTANTS
  w1 = w1  w2 = w2
  c1 = c1  c2 = c2  c3 = c3
  NULL = NULL
  Workers <- MCWorkers
  Clients <- MCClients
  Rude <- MCRude
  Requests <- MCAnswered
  FdLimit = 5
  BacklogLimit = 2
  MaxJobs = 2
SPECIFICATION Spec
SYMMETRY Symmetry
INVARIANTS TypeOK NoLostEdge OnePlacePerConnection
PROPERTY AnswerGoesToReader
