SPECIFICATION Spec
CONSTANTS
  None = None
  MaxData = 2
  MaxUser = 1
CHECK_DEADLOCK FALSE
PROPERTIES
  MonitorsUntilAnswered
