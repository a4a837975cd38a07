------------------------------ MODULE Sharding ------------------------------
(***************************************************************************)
(* What the supervisor's partition algorithm and the shards that carry out *)
(* its results have in common: the accounts, the shards and the default    *)
(* assignment of accounts to shards, utils.Addr2Shard.  Shared by the      *)
(* modules of the CLPA mode (ClpaPartition, ClpaTransfer).                 *)
(***************************************************************************)
EXTENDS FiniteSets

CONSTANTS
  Accounts,
  Shards,
  Addr2Shard     \* account -> its shard if no map mentions it

ASSUME ShardingAssumption ==
  IsFiniteSet(Accounts) /\ IsFiniteSet(Shards) /\ Addr2Shard \in [Accounts -> Shards]
=============================================================================
