SPECIFICATION MCSpec
CONSTANTS
  b1 = b1
  b2 = b2
  o1 = o1
  o2 = o2
  Branches <- MCBranches
  Occs <- MCTwoOccs
  InitShown <- MCTwoShown
  Main = b2
  Pinned = Pinned
  MaxVersion = 2
  None = None
  MaxData = 2
  MaxUser = 3
INVARIANTS
  FlushSavesWhatWasTyped
  OneStoreAtATime
PROPERTIES
  WritesNeverGoBack
  DraftsAreSavedOrReported
  ShownIsNeverStale
  StartupIsAnswered
CHECK_DEADLOCK FALSE
