CONSTANTS
  r1 = r1
  r2 = r2
  Requests = {r1, r2}
  None = None
  Base = Base
  MaxCrashes = 0
SPECIFICATION Spec
INVARIANT
  CanceledBeforeSideEffects
CHECK_DEADLOCK FALSE
