SPECIFICATION MCSpec
CONSTANTS
  k1 = k1
  Callers = {c1, c2}
  Keys <- MCKey
  Values = {0, 1}
  InitState <- MCInit
  Torn = Torn
  None = None
  MaxVersion = 3
  MaxEdits = 2
  MaxLosses = 2
INVARIANTS
  FileIsWhole
  MemoryIsSaved
  
  CompleteMeansImported
PROPERTIES
  
  EverythingIsAnswered
CHECK_DEADLOCK FALSE
