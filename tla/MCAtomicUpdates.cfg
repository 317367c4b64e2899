SPECIFICATION Spec
CONSTANTS
  Workers = {x1}
  Requests = {"query"}
  Codes = {c1, c2}
  Unfit = {c2}
  CacheSize = 1
  GasLimit = 1500
  QueryGasLimit = 300
  GasModulus = 10000
  ScopeInterval = 2
  MaxBatch = 1
  MaxBlocks = 1
  MaxCalls = 1
INVARIANTS
  AtomicUpdates
CHECK_DEADLOCK FALSE
