-------------------------- MODULE MCClpaPartition --------------------------
(***************************************************************************)
(* Model checking of ClpaPartition: four accounts on three shards, so that *)
(* a vertex that moves can have neighbours in its old shard, in its new    *)
(* shard and in the third.                                                 *)
(***************************************************************************)
EXTENDS ClpaPartition

MCAccounts == {"a", "b", "c", "d"}
MCShards == 0..2
MCAddr2Shard == [x \in MCAccounts |-> CASE x = "b" -> 1 [] x = "c" -> 2 [] OTHER -> 0]
=============================================================================
