SPECIFICATION Spec
CONSTANTS
  Shards <- MCShards
  Accounts <- MCAccounts
  Addr2Shard <- MCAddr2Shard
  Input <- MCInput
  TransformSize = 2
  BlockSize = 3
INVARIANTS NoDoubleSpend InputsEarlier ValueOnlyFromCoinbase
CHECK_DEADLOCK FALSE
