CONSTANTS
  i1 = i1
  i2 = i2
  a = a
  b = b
  t = t
  r = r
  Issues = {i1, i2}
  Paths = {a, b, t, r}
  Known <- MCKnown
  File <- MCFile
  Offers <- MCOffers
  Truncated = {}
  Support = {}
  ReadOnly = {r}
  Tests = {t}
  Contents = {0, 1}
  Base = 0
  Checked = {i1}
  Sights <- MCSights
  Ruff = {i1}
  Autofix = {i1}
  CallBudget = 12
  MaxRepairs = 2
  MaxCrashes = 1
  None = None
SPECIFICATION FairSpec
INVARIANTS
  TypeOK
  OfferedPatchWasReviewed
  FixedByEveryCheck
  EditsStayInPlan
PROPERTIES
  FixEnds
  KeepsLifecycle
CHECK_DEADLOCK FALSE
