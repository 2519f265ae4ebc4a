SPECIFICATION Spec
CONSTANTS
  Txn <- ForkTxn
  Data <- ForkData
  MaxNum = 6
  NumConfirmed = 1
  Miner = {m1}
  Claims = {}
  MaxOdd = 0
  MaxTxn = 1
  MaxHeight = 3
  MaxBlocks = 3
  MaxCrashes = 1
INVARIANT TipLongest
CHECK_DEADLOCK FALSE
