CONSTANTS
  Patches = {}
  PatchStatuses = {}
  Batches = 2
  MaxCrashes = 0
  MaxDrops = 0
  c1 = c1
  Clients = {c1}
  NoEvent = NoEvent
SPECIFICATION FairStreamSpec
PROPERTIES
  StreamCloses
  ReviewEnds
CHECK_DEADLOCK FALSE
