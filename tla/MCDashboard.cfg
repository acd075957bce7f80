SPECIFICATION Spec
CONSTANTS
  MaxRequests = 2
  MaxOpen = 2
  MaxRetries = 0
  AiConfigured = TRUE
  ReleasesKnown = TRUE
  MaxLogBuffer = 2
  MaxArrivals = 4
  Page = 2
  Severities = {"E", "I"}
  SeverityOf <- MCSeverityOf
  Matching = {1, 3}
  NamespaceOf <- MCNamespaceOf
  PodOf <- MCPodOf
  NoName = NoName
  n1 = n1
  p1 = p1
  Attributes <- MCAttributes
  DefaultColumns <- MCColumns
  Lines <- MCLines
  LogRecords <- MCLogRecords
  MaxBatch = 2
  MaxLines = 2
  ChanSize = 1
  MaxTimers = 2
  Kinds <- MCKinds
  Unset = Unset
  MaxSeen = 3
  MaxClock = 4
  BufferSize = 2
  Minute = 2
  Horizon = 1
  RateWindow = 1
  TopServices = 1
  MemorySize = 2
  Alphabet <- MCAlphabet
INVARIANTS
  EscMakesProgress
  OneAnalysisAtATime
  ViewIsFiltered
  CursorsInRange
  PatternsCountOnce
  LinesAccountedFor
  OneLiveTimer
  EngineCountsEachEntry
  StatisticsExact
PROPERTY
  TextIsOnlyText
CHECK_DEADLOCK FALSE
