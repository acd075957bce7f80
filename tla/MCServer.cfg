SPECIFICATION ServerSpec
CONSTANTS
  g1 = g1  g2 = g2  t1 = t1  k1 = k1  k2 = k2  k3 = k3
  good = good  poison = poison
  Absent = Absent  NoExport = NoExport  NoService = "unknown"
  Unset = Unset  None = None  NoTenant = NoTenant  Nothing = Nothing
  Tenants = {t1}
  Requests = {g1, g2}
  TenantOf <- MCTenantOf
  Reasons <- MCReasons
  RingSize = 2
  Batches <- MCBatches
  RequestBurst = 2
  RequestRate = 1
  LogBurst = 2
  LogRate = 1
  MaxSeries = 2
  SeriesTTL = 1
  MaxTime = 2
  MaxDenials = 3
  Records = {1, 2, 3, 9}
  Size <- MCSize
  Service <- MCService
  MaxBuffer = 2
  MaxBytes = 3
  TopServices = 2
  Exports = {good, poison}
  Content <- MCContent
  Workers = {g1, g2}
  DisplayDepth = 1
  MaxAttempts = 2
  SpikeErrors = 1
  SentimentSample = 2
  Ingesters = {g1, g2}
  Readers = {"reader"}
  EngineTenants = {"a", "b"}
  Entries <- MCEntries
  Filters <- MCFilters
  Callers <- MCCallers
  MaxWindow = 2
  HeatCutoff = 5
  RecentCutoff = 600
  Blank = Blank
  MaxClusters = 2
  DefaultPatterns = 1
  SummaryPatterns = 2
  MaxEntries = 3
  Clients = {g1, g2}
  SendDepth = 1
  Verifiers = {g1, g2}
  Settings <- MCSettings
  Evidence <- MCEvidence
  JWT <- MCJWT
  Documents <- MCDocuments
  MaxCalls = 3
  Blocks <- MCBlocks
  Flags <- MCFlags
  Environment <- MCEnvironment
  DefaultQuota <- MCDefaultQuota
  HardMaxMessageBytes = 16
  AnyTenant = "other"
  Off = Off
SYMMETRY Symmetry
INVARIANTS
  OneLimitPerTenant
  RateConformance
  SeriesBounded
  RejectLogExact
  StoreExact
  AckMeansAllStored
  AttemptsStorePrefixes
  FeedsSound
  JudgedByIssuer
  ConfiguredAsMeant
PROPERTIES
  SeriesTracked
  AnswersExact
CHECK_DEADLOCK FALSE
