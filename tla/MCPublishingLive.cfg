SPECIFICATION FairSpec
CONSTANTS
  NoVersion = NoVersion
  Versions = {v1}
  Requests = {q1, q2}
  Kinds = {"approve", "reject", "retry", "cancel", "activate"}
  Mended = {"retry", "cancel"}
  OverBudget = {}
  MaxEvents = 1
PROPERTIES
  LifeSpec
  ApprovalResumes
  CancellationEndsRun
CHECK_DEADLOCK FALSE
