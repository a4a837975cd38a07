----------------------------- MODULE MCUtxoRelay -----------------------------
(***************************************************************************)
(* Model checking of UtxoRelay: "a" and "b" live in shard 0 and pay each   *)
(* other, so that accounts come to hold several outputs, an exact amount,  *)
(* too little, or outputs of value 0 only; "c" lives in shard 1, is paid   *)
(* from shard 0 and pays from shard 1.                                     *)
(***************************************************************************)
EXTENDS UtxoRelay

MCShards == 0..1
MCAccounts == {"a", "b", "c"}
MCAddr2Shard == [x \in MCAccounts |-> IF x = "c" THEN 1 ELSE 0]

Line(from, to, v) == [sender |-> from, recipient |-> to, value |-> v]
MCInput == << Line("a", "b", 2), Line("a", "b", 1), Line("b", "a", 2), Line("b", "c", 0),
              Line("a", "b", 0), Line("c", "a", 1) >>
=============================================================================
