SPECIFICATION FairSpec
CONSTANTS
  Shards <- MCShards
  Accounts <- MCAccounts
  Addr2Shard <- MCAddr2Shard
  Input <- MCInput
  TxInputCount = 5
  dataTotalNum = 9
  batchDataNum = 3
  InjectSpeed = 2
  BlockSize = 2
  Init_Balance = 2
  stopThreshold = 4
  MaxLoss = 1
INVARIANTS ExactlyOnce WellRouted ValueAccounted
PROPERTY InjectedFinish
CHECK_DEADLOCK FALSE
