SPECIFICATION FairSpec
CONSTANTS
  a1 = a1  a2 = a2  a3 = a3  b1 = b1  b2 = b2
  w1 = w1  w2 = w2
  NoExport = NoExport
  Tenants = {1, 2}
  Exports = {a1, a2, b1}
  Repeating = {a1, a2}
  Workers = {w1}
  QueueDepth = 1
  SinkErrors = {}
  TenantOf <- MCTenantOf
PROPERTIES
  NoTenantFavored
CHECK_DEADLOCK FALSE
