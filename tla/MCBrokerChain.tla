---------------------------- MODULE MCBrokerChain ----------------------------
(***************************************************************************)
(* Model checking of BrokerChain: two shards; the broker "k" belongs to    *)
(* shard 0.  Two transfers cross, one in each direction, the second with   *)
(* more than its sender may have; one goes to the broker and one comes     *)
(* from it.                                                                *)
(***************************************************************************)
EXTENDS BrokerChain

MCShards == 0..1
MCAccounts == {"a", "b", "k"}
MCAddr2Shard == [x \in MCAccounts |-> IF x = "b" THEN 1 ELSE 0]

Line(from, to, v) == [sender |-> from, recipient |-> to, value |-> v]
MCInput == << Line("a", "b", 1), Line("b", "a", 3), Line("b", "k", 1), Line("k", "b", 1) >>
=============================================================================
