SPECIFICATION ReceiverFairSpec
CONSTANTS
  g1 = g1  h1 = h1  w1 = w1
  NoExport = NoExport
  Tenants = {1, 2}
  Exports = {g1, h1}
  Repeating = {g1}
  Grpc = {g1}
  Workers = {w1}
  QueueDepth = 1
  SinkErrors = {}
  TenantOf <- MCTenantOf
PROPERTY
  StopReturns
CHECK_DEADLOCK FALSE
