SPECIFICATION Spec
CONSTANTS
  b1 = b1
  b2 = b2
  o1 = o1
  o2 = o2
  Branches <- MCBranches
  Occs <- MCTwoOccs
  InitShown <- MCTwoShown
  Main = b2
  Pinned = Pinned
  MaxVersion = 2
INVARIANTS
  DraftsSurviveReload
CHECK_DEADLOCK FALSE
