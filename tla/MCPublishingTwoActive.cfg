SPECIFICATION Spec
CONSTANTS
  NoVersion = NoVersion
  Versions = {v1, v2}
  Requests = {q1, q2}
  Kinds = {"approve"}
  Mended = {}
  OverBudget = {}
  MaxEvents = 1
SYMMETRY PublishingSymmetry
INVARIANTS
  OneActive
CHECK_DEADLOCK FALSE
