SPECIFICATION PartitionSpec
CONSTANTS
  Accounts <- MCAccounts
  Shards <- MCShards
  Addr2Shard <- MCAddr2Shard
  MaxIterations = 2
  UpdateThreshold = 1
  MaxEdges = 4
  MaxEpochs = 2
INVARIANTS CountersExact MapsAgree
PROPERTY NoShardEmptied
CHECK_DEADLOCK FALSE
