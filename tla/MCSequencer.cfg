SPECIFICATION SequencerSpec
CONSTANTS
  t1 = t1
  t2 = t2
  t3 = t3
  t4 = t4
  t5 = t5
  a1 = a1
  a2 = a2
  Txs <- MCTxs
  Accounts <- MCAccounts
  From <- MCFrom
  GasPrice <- MCGasPrice
  GasLimit <- MCGasLimit
  TxSize <- MCTxSize
  MaxSize = 4
  AccountLimit = 2
  GlobalLimit = 3
  MaxTxSize = 3
  PriceLimit = 1
  TTL = 1
  EnablePriority = TRUE
  Word = 16
  MaxAge = 2
  MaxAdds = 4
  BlockGasLimit = 3
  MaxTransactions = 2
  AnchorInterval = 1
  EveryN = 1
  Retain = 1
  Backends = {"memory", "badger"}
  MaxHeight = 2
  MaxBoots = 2
  MaxFailures = 1
  BlockTxs <- MCBlockTxs
  MaxBlockAdds = 2
INVARIANTS
  TypeOK
  IndexesAgree
  SortedByPriority
  WithinCapacity
  MetricsAgree
  ChainIntact
  NoHeaderGap
  HeightsAgree
  RunsAtMostOnce
  AnchorNotAhead
  SnapshotsHoldChain
PROPERTIES
  NoOvertaking
  ExpiredAreRemoved
  BlocksAreProduced
CHECK_DEADLOCK FALSE
