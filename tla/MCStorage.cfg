CONSTANTS
  Callers = {k3, k4, k5}
  Txs = {t1, t2, t3}
  Invalid = {}
  Forbidden = {t3}
  MaxSeq = 4
  MaxStarts = 1
  MaxErrors = 1
  MaxCalls = 3
  Requests = {r1, r2}
  Addrs = {a1, a2}
  Codes = {c1, c2}
  Unfit = {}
  Reserved = {a2}
  Authorized = {a2}
  MaxVersions = 2
  MaxResults = 5
  Entries <- MCEntries
  BatchSize = 4
  SaveEvery = 2
  MaxEntries = 3
  MaxBoots = 2
  Processes = {p1, p2}
  Aliases = {k1, k2}
  MaxCommands = 4
  Connections = {n1, n2}
  Clients = {i1, i2}
  Kinds = {"health", "preflight", "get", "status", "read", "submit", "query", "upgrade", "migrate"}
  Burst = 1
  Rps = 1
  MaxSeconds = 1
  MaxCleanups = 1

SPECIFICATION StorageSpec

INVARIANTS
  StorageTypeOK
  AcceptedIsQueued
  DeployedLoads
  PairedAreAccepted
  PositionCovers
  KeysSurvive
  StoresOutliveRequests
  RateHolds

CHECK_DEADLOCK FALSE
