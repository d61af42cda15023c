CONSTANTS
  p1 = p1
  Patches = {p1}
  PatchStatuses = {"COMPLETED", "FAILED", "CLONING"}
  Batches = 2
  MaxCrashes = 1
  MaxDrops = 1
SPECIFICATION Spec
INVARIANTS
  TypeOK
  CompletedIsReviewed
  HistoryMatchesJob
PROPERTIES
  ProgressAdvances
  OutcomeStands
  StopsWhenDeleted
CHECK_DEADLOCK FALSE
