SPECIFICATION FairSpec
CONSTANTS
  Shards <- MCShards
  Accounts <- MCAccounts
  Addr2Shard <- MCAddr2Shard
  Input <- MCInput
  Maps <- MCMaps
  BlockSize = 2
  Init_Balance = 4
  MaxSeq = 4
INVARIANTS ValueConserved TransferredStateCurrent NoTxLostOrDoubled OnlyLateTxPanics
PROPERTY RepartitionEnds
CHECK_DEADLOCK FALSE
