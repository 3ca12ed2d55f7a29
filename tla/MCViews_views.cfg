SPECIFICATION MCSpec
CONSTANTS
  None = None
  MaxTyped = 3
  Panels = {"revisions", "recovery", "emergence", "backlinks", "tree", "bookmarks", "omni", "links", "completion", "licenses"}
  MaxRequests = 3
  MaxChanges = 1
  MaxNavigations = 2
  MaxSaves = 1
  Works = {wa, wb}
  MaxTexts = 2
  MaxCalls = 2
  MaxOperations = 2
  RowIds = {1, 2, 3}
  Heights = {3}
  DEFAULT_ROW_HEIGHT = 2
  MIN_ROWS_THRESHOLD = 1
  OVERSCAN = 0
  ViewportHeight = 2
  MaxRelayouts = 2
  MaxGestures = 3
CONSTRAINT NotAbandoned
SYMMETRY Symmetry
INVARIANTS
  RowIsUpToDate
  SelectionIsConsistent
  ManuscriptsAreKept
  NoticesAreTrue
  ViewportShowsWhatIsUsed
PROPERTIES
  PanelsAreUpToDate
  DraftsAreKept
  PlaceStays
CHECK_DEADLOCK FALSE
