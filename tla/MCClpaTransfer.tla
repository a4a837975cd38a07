--------------------------- MODULE MCClpaTransfer ---------------------------
(***************************************************************************)
(* Model checking of ClpaTransfer: two shards exchange their accounts, one *)
(* of them comes back, and one transfer crosses at any point of this.      *)
(***************************************************************************)
EXTENDS ClpaTransfer, TLC

MCShards == 0..1
MCAccounts == {"a", "b"}
MCAddr2Shard == [x \in MCAccounts |-> IF x = "a" THEN 0 ELSE 1]

Line(from, to, v) == [sender |-> from, recipient |-> to, value |-> v]
MCInput == << Line("a", "b", 2) >>
MCMaps == << ("a" :> 1) @@ ("b" :> 0), ("a" :> 0) >>
=============================================================================
