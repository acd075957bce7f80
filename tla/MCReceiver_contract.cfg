SPECIFICATION DeadlineSpec
CONSTANTS
  g1 = g1  h1 = h1  w1 = w1
  NoExport = NoExport
  Tenants = {1, 2}
  Exports = {g1, h1}
  Repeating = {}
  Grpc = {g1}
  Workers = {w1}
  QueueDepth = 1
  SinkErrors = {}
  TenantOf <- MCTenantOf
PROPERTIES
  ImplementsContract
  AcceptedAreAnswered
  CancelStopsAll
  StopReturns
CHECK_DEADLOCK FALSE
