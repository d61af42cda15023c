CONSTANTS
  r1 = r1
  r2 = r2
  Requests = {r1, r2}
  None = None
  Base = Base
  MaxCrashes = 1
SPECIFICATION FairSpec
INVARIANTS
  TypeOK
  RecordedPrIsReal
  TrailPrecedesEffects
  PublishingHasOwner
PROPERTIES
  PublicationIsPermanent
  CancelHolds
  KeepsContract
  PublishSettles
CHECK_DEADLOCK FALSE
