SPECIFICATION MCSpec
CONSTANTS
  None = None
  Callers = {c1, c2}
  InitialOutlines <- MCOutlines
  MaxId = 4
  MaxOutlineCalls = 2
  ORDER_STEP = 4
  Branches = {b1, b2}
  main = b1
  Texts = {"t1", "t2"}
  MaxRevs = 2
  MaxBranchCalls = 2
  Tags = {ta, tb, tc}
  MaxCalls = 3
  MaxTime = 2
  EditIdle = 1
  MinimumInterval = 1
  KeepAll = 0
  HourlyRetention = 2
  DailyRetention = 4
  Hour = 2
  Day = 4
  Month = 8
  Protection = 3
  Contents = {0, 1}
  LastHour = 7
  MaxSnapshots = 3
  MaxItems = 3
  MaxUser = 5
  MaxOps = 2
  N = 4
  Works = {wa, wb}
  Gone = Gone
  WorkIds = {1, 2, 3, 4}
  MaxLinks = 5
  Entries = {1, 2, 3}
  MaxNodes = 5
  LaneX = {0, 1, 2, 3, 4}
  LabelWidths = {1, 3}
  NodeRadius = 1
  NODE_GAP = 1
  MaxPoints = 4
  ScreenX = {0, 1, 2, 3, 4, 5}
  ScreenY = {0, 1, 2, 3}
  CellWidth = 3
  CellHeight = 2
CONSTRAINT NotMisled
SYMMETRY Symmetry
INVARIANTS
  EditsAreKept
  BranchesAreAsAsked
  NothingIsLostUnrepresented
  EmptyItemsAreDiscarded
  StructureIsAnalysed
PROPERTIES
  OrderIsAsAsked
  KeepsPromise
CHECK_DEADLOCK FALSE
