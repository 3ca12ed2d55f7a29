SPECIFICATION Spec
CONSTANTS
  WorkIds = {w1, w2}
  BranchIds = {b1, b2, b3}
  OccIds = {o1}
  RevIds = {r1, r2, r3}
  SnapIds = {n1, n2}
  MarkIds = {}
  LinkIds = {}
  RewriteNames = {"side"}
  None = None
CONSTRAINTS
  Uncited
  NoStubs
  NoBlanks
  ShortHistory
SYMMETRY Symmetry
INVARIANTS
  UniqueMain
  RefusalsAreKnown
PROPERTIES
  NothingLostOutsideTrash
  HeadsShareHistory
CHECK_DEADLOCK FALSE
