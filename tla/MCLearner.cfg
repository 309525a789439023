SPECIFICATION LearnerSpec
CONSTANTS
  None = None
  Enrollments = {e1}
  Modules = {m1, m2}
  Completers = {r1, r2, r3}
  Cancellers = {x1, x2}
  MaxInFlight = 3
  Queries = {x1, x2}
  Again = {}
  Questions = {"why", "how"}
  Asks <- SomeAsks
  ChunkLists <- SomeChunks
  RelevanceThreshold = 12
  High = 70
  Medium = 50
  MinGap = 8
  MaxChunks = 2
  MaxInput = 9
  Overhead = 1
  Reserve = 2
  MaxVersions = 2
  MaxChanges = 1
  MaxDepth = 1
  Calls = {r1, r2, r3, k4}
  Limit = 2
  Window = 3
  MaxDelay = 1
  MaxClock = 6
  Sessions = {r1, r2, r3}
  News = {m1, m2}
  NoNews = NoNews
  Tasks = {m1, m2}
  NoTask = NoTask
  Workers = {x1, x2}
  MaxMishaps = 3
SYMMETRY RequestSymmetry
INVARIANTS
  CertificateMeansAllModulesDone
  OneEventPerCertificate
  CompletedProgressIsCertified
  CancelReachesProgress
  AnswersKeepTheirQuestion
  RoutesAndPromptsHold
  LimiterHolds
  NoticesHold
  EmailsHold
CHECK_DEADLOCK FALSE
