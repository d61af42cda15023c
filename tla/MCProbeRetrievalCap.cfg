CONSTANTS
  NoValue = NoValue
  Private = {}
  Paths <- MCPaths
  Hints <- MCHints
  Slug <- MCSlug
  Baseline <- MCBaseline
  MaxFileAudits = 2
  Corpora <- MCCorpora
  Marked = {}
  Rules <- MCRules
  Profiles <- MCProfiles
  Hits <- MCHits
  IdOrder <- MCIdOrder
  MaxTotal = 5
  LaneMax <- MCLaneMax
  MaxProbes = 1
  MaxChunks = 4
SPECIFICATION Spec
INVARIANT ReviewFitsCap
CHECK_DEADLOCK FALSE
