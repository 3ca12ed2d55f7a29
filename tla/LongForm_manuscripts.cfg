SPECIFICATION Spec
CONSTANTS
  None = None
  Works = {wa, wb}
  MaxTyped = 2
  MaxCalls = 2
INVARIANTS
  ManuscriptsStayApart
CHECK_DEADLOCK FALSE
