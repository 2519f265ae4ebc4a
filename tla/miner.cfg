SPECIFICATION FairSpec
CONSTANTS
  Txn = {t1}
  Data <- LaunchData
  NumConfirmed = 1
  MaxNum = 6
  Self = me
  Peer = {peer}
  Call = {c1}
  MaxTxn = 1
  PoolCap = 1
  TxnCap = 0
  BlockCap = 0
  UpdatedCap = 1
  QueryCap = 0
  UpdateCap = 0
  Claims = {2}
  MaxHeight = 2
  MaxBlocks = 4
  MaxRestarts = 1
INVARIANTS TypeOK  LostOnlyByForkSwitch
PROPERTIES OwnBlockExtendsTip PoolLosesOnlyToChain WorksOnTip SubmitReturnsOrStuck SubmittedReceived
CHECK_DEADLOCK FALSE
