SPECIFICATION FairSpec
CONSTANTS
  Txn = {t1, t2}
  Data <- LaunchData
  NumConfirmed = 1
  MaxNum = 6
  Self = me
  Peer = {peer}
  Call = {c1}
  MaxTxn = 1
  PoolCap = 1
  TxnCap = 1
  BlockCap = 2
  UpdatedCap = 2
  QueryCap = 1
  UpdateCap = 3
  Claims = {}
  MaxHeight = 2
  MaxBlocks = 1
  MaxRestarts = 0
PROPERTIES SubmitReturns
