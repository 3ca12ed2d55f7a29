SPECIFICATION Spec
CONSTANTS
  WorkIds = {w1, w2, w3}
  BranchIds = {b1, b2, b3}
  OccIds = {o1}
  RevIds = {r1}
  SnapIds = {}
  MarkIds = {}
  LinkIds = {l1, l2}
  RewriteNames = {}
  None = None
CONSTRAINTS
  Uncited
  NoStubs
SYMMETRY Symmetry
INVARIANTS
  TombstonesAreEmpty
  MergeChainsEnd
  ActiveLinksAreDistinct
CHECK_DEADLOCK FALSE
