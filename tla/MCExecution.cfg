CONSTANTS
  Checkers = {k1, k2}
  Ttl = 2
  MaxDelay = 1
  Interval = 2
  MaxHeight = 2
  MaxChanges = 2
  Workers = {x1, x2}
  Requests = {"query", "simulation"}
  Codes = {c1, c2, c3}
  Unfit = {c3}
  CacheSize = 1
  GasLimit = 1500
  QueryGasLimit = 300
  GasModulus = 10000
  ScopeInterval = 2
  MaxBatch = 3
  MaxBlocks = 2
  MaxCalls = 2
  Txs = {t1}
  Statuses = {"failed", "executed"}
  MaxSubscriptions = 1
  BufferSize = 1
  MaxReconnects = 2
  MaxOpens = 2
  MaxDials = 2
  MaxEvents = 2

SPECIFICATION ExecutionSpec

INVARIANTS
  ExecutionTypeOK
  ResultsAreFinal
  PauseHolds
  SubscriptionsHold

PROPERTIES
  BlocksReturn

CHECK_DEADLOCK FALSE
