CONSTANTS
  j1 = j1
  j2 = j2
  Jobs = {j1, j2}
  Snapshots <- MCSnapshots
  Files <- MCFiles
  MaxTokens = 3
  WindowLines = 3
  OverlapLines = 1
  MongoBatch = 2
  BatchItems = 2
  BatchTokens = 3
  ItemTokens = 2
  MaxRetries = 1
  TopK = 2
  MaxCandidates = 3
  MaxCrashes = 1
SPECIFICATION Spec
INVARIANTS
  IndexedIsSearchable
  SearchStaysInSnapshot
CHECK_DEADLOCK FALSE
