CONSTANTS
  w1 = w1  w2 = w2
  c1 = c1  c2 = c2 
  NULL = NULL
  Workers <- MCWorkers
  Clients <- MCClients
  Requests <- MCForms
  Segments <- MCCuts
  Alphabet <- MCAlphabet
  Htdocs <- Root
  Tree <- MCTree
  FileSize <- MCFileSize
  MaxBuf = 20
  MaxPath = 5
  OldData <- MCOldData
  Block = 2
  MaxUri = 5
  MaxLength = 3
  MaxContent = 4
  MaxLen = 4
  Extra = 1
  Escapes <- MCEscapes
SPECIFICATION Spec
INVARIANT PostReachesProgram
