SPECIFICATION Spec
CONSTANTS
  WorkIds = {w1, w2}
  BranchIds = {b1, b2}
  OccIds = {o1, o2, o3}
  RevIds = {}
  SnapIds = {}
  MarkIds = {m1}
  LinkIds = {l1}
  RewriteNames = {}
  None = None
CONSTRAINTS
  OutlineOrCited
SYMMETRY Symmetry
INVARIANTS
  RefusalsAreKnown
PROPERTIES
  
  SuggestionDecisionsAreFinal
CHECK_DEADLOCK FALSE
