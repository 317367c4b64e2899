CONSTANTS
  BatchSize = 1
  MinBackoff = 1
  MaxBackoff = 1
  DurationLimit = 3
  GiveUpAfter = 1
  Malformed = {2}
  MaxItems = 2
  MaxTries = 3
  MaxRuns = 2
  MaxStorageErrors = 1
  Workers = {s1, s2}
  MaxStaged = 2
  MaxOutputRetries = 2
  MaxBatchSize = 1
  MaxOutputs = 2
  Edges <- MCEdges
  Writes = {w1, w2}
  MaxRetries = 1
  ClientRetries = 1
  MaxReconnects = 1
  ChannelSize = 1
  MaxDials = 2
  MaxLoops = 2
  NumEndpoints = 2
  Callers = {c1, c2}
  MaxFailures = 2
  Backoff = 1
  MaxCount = 2
  MaxReports = 1
  MaxChanges = 1
  Readers = {"reader", "auto"}
  Ttl = 2
  Target = 3
  MinBuffer = 1
  MaxTopUps = 2
  MaxErrors = 1

SPECIFICATION DeliverySpec

INVARIANTS
  DeliveryTypeOK
  NoOrphan
  DeliveredInOrder
  SuccessIsFinal
  NextPrefersHealthy

PROPERTIES
  ImplementsDelivery
  ItemsSettle
  OutputsSettle
  WritesReturn
  RecoveredIsHealthy
  ToppedUp

CHECK_DEADLOCK FALSE
