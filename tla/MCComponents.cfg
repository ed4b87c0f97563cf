SPECIFICATION Spec
CONSTANTS
  c1 = c1
  c2 = c2
  n1 = n1
  n2 = n2
  u1 = u1
  v1 = v1
  p1 = p1
  s1 = s1
  Subjects = {"limiter", "keyed", "versioned", "auth", "memory", "requests", "monitor", "analytics", "tracking", "chunker", "retrieval", "embedding", "index", "ingestion", "erasure"}
  Actors = {c1, c2}
  Things = {n1, n2}
  Requests = {c1, c2}
  Clients = {c1, c2}
  AuthCallers = {c1, c2}
  Callers = {c1, c2}
  Prompters = {c1, c2}
  Checks = {c1, c2}
  Embedders = {c1, c2}
  Curators = {c1, c2}
  Movers = {c1, c2}
  Users = {u1}
  MaxTokens = 1
  RefillRate = 1
  RefillInterval = 2
  LastTick = 4
  MaxAdmitted = 6
  Undefined = Undefined
  Keys = {n1, n2}
  Emails = {n1, n2}
  Conversations = {v1}
  RowUsers = {n1, n2}
  TemplateIds = {n1, n2}
  UserNotifs = {n1, n2}
  MaxSource = 1
  MaxRows = 3
  Passwords = {"p1", "p2"}
  MaxAccounts = 2
  LastTime = 1
  Chunks = {2}
  TurnLimit = 2
  TokenLimit = 4
  MaxSaved = 3
  Prompts = {p1}
  Settings = {s1}
  NoAnswer = NoAnswer
  Usages <- OneUsage
  Errors <- ErrorSets
  MaxMetrics = 1
  MaxRequests = 2
  Prices = {2}
  TicksPerDay = 2
  LastDay = 1
  MaxDayCost = 4
  Threshold = 4
  Warning = 2
  RowCosts = {1}
  LastHour = 1
  MaxRowsStored = 2
  DashboardSpan = 0
  TopUsers = 2
  MetricCosts = {1, 2}
  Latencies = {1, 2, 3}
  Models = {"m1", "m2"}
  MaxInMemory = 3
  MaxTracked = 4
  Templates <- SmallTemplates
  Strategies <- SmallStrategies
  Requested = {"none", "micro", "fixed"}
  MegaFrom = 8
  Documents = {"a", "b", "c"}
  WordsOf <- SmallWords
  SizeOf <- SmallSizes
  Scale = 12
  MinScore = 6
  Duplicate = 11
  Diversity = 4
  Overhead = 1
  MaxContext = 4
  Queries = {"q1", "q2"}
  Relevances <- SmallRelevances
  HashOf <- OneHash
  TopK = 2
  MaxCached = 2
  Thresholds = {4}
  Keyworded = {"b"}
  Boost = 14
  Rerankings <- SmallRerankings
  MaxChanges = 1
  MaxEntries = 1
  TextLists <- SmallLists
  HashOfText <- SharedHashes
  EmbedBatch = 2
  EmbedAttempts = 2
  NoVector = NoVector
  NoPoint = NoPoint
  TableRows <- SmallTable
  Instants = {1, 2}
  GivenLists <- SmallGiven
  MinContent = 10
  MaxContent = 50
  PageSize = 2
  MaxSentRows = 3
  Absent = Absent
SYMMETRY Symmetry
INVARIANTS
  AdmissionsAreFunded
  StaleEntryHasACause
  TagReachesItsEntries
  VersionHidesOldCopies
  AccountsAreKeptApart
  TotalsMatchTurns
  KeepsTheLatestTurns
  RequestsAreAccountedFor
  OneAlertPerCostlyDay
  DashboardAddsUp
  StatisticsAreSound
  ChunksAreSound
  AnswersAreExplained
  AnswersStayInPlace
  IndexIsExplained
  IngestionAddsUp
  ErasedUnlessWrittenSince
CHECK_DEADLOCK FALSE
