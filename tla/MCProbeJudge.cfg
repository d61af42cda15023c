CONSTANTS
  NoValue = NoValue
  MinConfidence = 2
  Batches <- MCBatches
  IssueResults <- MCIssueResults
  Concurrency = 2
  CallBudget = 5
  MaxRetries = 1
SPECIFICATION Spec
INVARIANTS
  JudgeTypeOK
  OneVerdictEach
  RequestsAreBounded
  AllOrNothing
  StoredIssuesAreBacked
