CONSTANTS
  w1 = w1  w2 = w2  w3 = w3
  a1 = a1  a2 = a2  a3 = a3
  x1 = x1  x2 = x2
  Owner = Owner
  NULL = NULL
  Workers <- MCWorkers
  Addr <- MCAddr
  Args <- MCArgs
SPECIFICATION Spec
SYMMETRY Symmetry
INVARIANTS TypeOK QueueIsList PeekFindsJob SemCountsJobs JobOwnership IInv
PROPERTY ImplementsTaskPool
