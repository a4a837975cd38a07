SPECIFICATION FairSpec
CONSTANTS
  Shards <- MCShards
  Accounts <- MCAccounts
  Addr2Shard <- MCAddr2Shard
  Input <- MCInput
  Brokers = {"k"}
  Broker0 = "k"
  BlockSize = 2
  Init_Balance = 2
  MaxLoss = 1
INVARIANTS HalvesInOrder ConfirmedExecuted ClientBalances
PROPERTY SplitTransfersFinish
CHECK_DEADLOCK FALSE
