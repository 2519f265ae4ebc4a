SPECIFICATION Spec
CONSTANTS
  Txn <- ForkTxn
  Data <- ForkData
  MaxNum = 6
  NumConfirmed = 1
  Miner = {m1}
  Claims = {1, 5}
  MaxOdd = 1
  MaxTxn = 1
  MaxHeight = 3
  MaxBlocks = 6
  MaxCrashes = 1
INVARIANTS TypeOK StoreSound PollLife TipLongestButTorn TallyCoversReported
PROPERTIES ConfirmedStable ImplementsForkChoice
CHECK_DEADLOCK FALSE
