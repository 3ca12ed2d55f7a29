SPECIFICATION Spec
CONSTANTS
  k1 = k1
  k2 = k2
  Callers = {c1, c2}
  Keys <- MCKeys
  Values <- MCValues
  InitState <- MCInit
  ValidStates <- MCValid
SYMMETRY Symmetry
INVARIANTS
  DiskIsValid
  MemoryIsDurable
PROPERTIES
  ImplementsDurableStore
CHECK_DEADLOCK FALSE
