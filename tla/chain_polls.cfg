SPECIFICATION Spec
CONSTANTS
  Txn <- PollTxn
  Data <- PollData
  MaxNum = 6
  NumConfirmed = 1
  Miner = {m1}
  Claims = {1, 5}
  MaxOdd = 0
  MaxTxn = 2
  MaxHeight = 4
  MaxBlocks = 5
  MaxCrashes = 0
INVARIANTS OneVotePerUser PollLife
PROPERTIES EndedPollFrozen
CHECK_DEADLOCK FALSE
