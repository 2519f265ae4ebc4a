SPECIFICATION Spec
CONSTANTS
  Txn = {t1}
  Data <- LaunchData
  NumConfirmed = 1
  MaxNum = 6
  Self = me
  Peer = {peer}
  Call = {}
  MaxTxn = 1
  PoolCap = 1
  TxnCap = 2
  BlockCap = 2
  UpdatedCap = 2
  QueryCap = 1
  UpdateCap = 3
  Claims = {}
  MaxHeight = 2
  MaxBlocks = 4
  MaxRestarts = 0
INVARIANT MinedOnce
