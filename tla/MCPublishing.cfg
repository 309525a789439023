SPECIFICATION Spec
CONSTANTS
  NoVersion = NoVersion
  Versions = {v1, v2}
  Requests = {q1, q2}
  Kinds = {"approve", "retry", "cancel", "activate"}
  Mended = {"retry", "cancel"}
  OverBudget = {v1, v2}
  MaxEvents = 1
SYMMETRY PublishingSymmetry
INVARIANTS
  OneInFlight
  NothingPublishedUnapproved
  SearchableIsIndexed
CHECK_DEADLOCK FALSE
