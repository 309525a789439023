SPECIFICATION SpecParts
CONSTANTS
  a1 = a1
  a2 = a2
  m1 = m1
  m2 = m2
  None = None
  Earlier = e0
  NoModule = NoModule
  NoTitle = NoTitle
  NoCourse = NoCourse
  Accounts = {a1, a2}
  MailboxOf <- OneMailbox
  Requests = {r1, r2, r3}
  MaxRunning = 3
  NewStatuses = {"PENDING", "APPROVED"}
  Roles = {"instructor", "admin"}
  RoleChanges <- SomeRoleChanges
  Attempts = {r1, r2, r3}
  Emails = {mail1, mail2}
  RateMax = 2
  Threshold = 2
  Modules = {m1, m2}
  FirstNumber <- TwoModules
  Assets = {a1, a2}
  Editors = {r1, r2, r3}
  MaxNumber = 2
  Courses = {c1, c2, c3}
  Titles = {a1, a2}
  Authors = {r1, r2, r3}
  MaxSuffix = 3
  Names <- SomeNames
  Documents <- SomeDocuments
  LowText = 4
  ShortLine = 3
  TargetLength = 15
  MaxLength = 24
  OverlapLength = 1
  BatchSize = 2
  OcrThreshold = 70
  VisualThreshold = 65
  MaxPercent = 60
  MaxPages = 2
  MaxTries = 1
  Points <- SomePoints
  VersionOf <- SomeVersions
  Place <- SomePlaces
  Meanings <- SomeMeanings
  MatchLevels = {30, 80}
  TopK = 2
  Cutoff = 1200
  NearestLimit = 3
  CandidatePool = 3
  FullScan = 4
  ScrollBatch = 2
  SearchK = 2
  MaxRewrites = 2
SYMMETRY Interchangeable
INVARIANTS
  PartsTypeOK
  ChecksFailOnlyByOverlap
  RevocationHolds
  DecisionsStand
  DeadlockOnlyOverRoles
  ThrottleHolds
  DraftAndFilesAgree
  SlugsHold
  ContentHolds
  RetrievalHolds
PROPERTIES
  ClosedToLateEdits
CHECK_DEADLOCK FALSE
