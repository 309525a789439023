SPECIFICATION Spec
CONSTANTS
  NoVersion = NoVersion
  Versions = {v1}
  Requests = {q1}
  Kinds = {"approve"}
  Mended = {}
  OverBudget = {}
  MaxEvents = 1
SYMMETRY PublishingSymmetry
INVARIANTS
  OnlyReviewedIsPublished
CHECK_DEADLOCK FALSE
