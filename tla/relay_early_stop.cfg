SPECIFICATION Spec
CONSTANTS
  Shards <- MCShards
  Accounts <- MCAccounts
  Addr2Shard <- MCAddr2Shard
  Input <- MCInput
  TxInputCount = 5
  dataTotalNum = 9
  batchDataNum = 3
  InjectSpeed = 2
  BlockSize = 2
  Init_Balance = 2
  stopThreshold = 4
  MaxLoss = 0
INVARIANT StopAfterWork
CHECK_DEADLOCK FALSE
