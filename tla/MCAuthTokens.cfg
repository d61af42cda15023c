CONSTANTS
  u1 = u1
  p1 = p1
  p2 = p2
  Users = {u1}
  Requests = {p1, p2}
  None = None
  TicksPerSecond = 2
  AccessLife = 1
  RefreshLife = 2
  MaxPairs = 3
  MaxTime = 3
SPECIFICATION Spec
SYMMETRY Symmetry
INVARIANTS
  AuthTypeOK
  LogoutEndsSession
  SessionsGrowOnlyByRaces
CHECK_DEADLOCK FALSE
