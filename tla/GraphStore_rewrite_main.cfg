SPECIFICATION Spec
CONSTANTS
  WorkIds = {w1}
  BranchIds = {b1, b2}
  OccIds = {}
  RevIds = {r1}
  SnapIds = {}
  MarkIds = {}
  LinkIds = {}
  RewriteNames = {"main"}
  None = None
SYMMETRY Symmetry
INVARIANTS
  UniqueMain
CHECK_DEADLOCK FALSE
