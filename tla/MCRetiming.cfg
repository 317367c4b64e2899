SPECIFICATION LiveSpec
CONSTANTS
  t1 = t1
  t2 = t2
  a1 = a1
  Txs <- MCTxs
  Accounts <- MCAccounts
  From <- MCFrom
  GasPrice <- MCGasPrice
  GasLimit <- MCGasLimit
  TxSize <- MCTxSize
  MaxSize = 2
  AccountLimit = 2
  GlobalLimit = 2
  MaxTxSize = 1
  PriceLimit = 1
  TTL = 1
  EnablePriority = FALSE
  Word = 16
  MaxAge = 2
  MaxAdds = 2
  BlockGasLimit = 1
  MaxTransactions = 2
  AnchorInterval = 1
  EveryN = 1
  Retain = 1
  Backends = {"memory", "badger"}
  MaxHeight = 2
  MaxBoots = 2
  MaxFailures = 1
PROPERTIES
  RetimingKeepsBlocks
CHECK_DEADLOCK FALSE
