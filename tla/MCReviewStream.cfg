CONSTANTS
  Patches = {}
  PatchStatuses = {}
  Batches = 1
  MaxCrashes = 0
  MaxDrops = 1
  c1 = c1
  Clients = {c1}
  NoEvent = NoEvent
SPECIFICATION StreamSpec
INVARIANTS
  StreamTypeOK
  NoMissedOutcome
  ToldTheTruth
PROPERTY
  KeepsLifecycle
CHECK_DEADLOCK FALSE
