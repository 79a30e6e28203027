SPECIFICATION ProvidersSpec
CONSTANTS
  bing = bing
  x360 = x360
  dogpile = dogpile
  foreign = foreign
  Registered <- EngineOrder
  Scopes <- ScopeSets
  MaxEngineCalls = 2
  Profile <- EngineProfiles
  MaxAttemptsOptions = {0, 3, None}
  RetryAfters = {1, 9}
  MaxRetryAfter = 4
  RetryDelay = 2
  UseToolCall = TRUE
  Urls = {home, moved, inner}
  Start = home
  Blocked = {inner}
  MaxRedirects = 2
  Keys = {policy, homepage}
  WeakKeys = {homepage}
  NoUrl = unnamed
  MaxRecords = 2
  Setups <- SetupChoices
  RunIds = {r1}
  MaxRuns = 1
  PageSize = 2
  MaxRendered = 2
  MaxOpens = 2
  MaxLog = 4
  Logged = {"run.queued", "run.started", "report.completed", "run.failed"}
  None = None
INVARIANTS SearchesAreHonest LogAgrees MonitorIsTrue
PROPERTIES PageIsHonest StaticPageSurvives AbortIsTheEnd EveryCallSettles MonitorFollows
CHECK_DEADLOCK FALSE
