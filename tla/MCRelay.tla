------------------------------ MODULE MCRelay ------------------------------
(***************************************************************************)
(* Model checking of Relay: two shards, three accounts, two units each.    *)
(* The first transfer leaves "a" with nothing, so the second is skipped    *)
(* inside its shard; the transfer of "b" is skipped unless the relay of    *)
(* the first arrives before.  One line is not legal, and the last one is   *)
(* left over when the input ends, because it does not fill a batch.        *)
(***************************************************************************)
EXTENDS Relay

MCShards == 0..1
MCAccounts == {"a", "b", "c"}
MCAddr2Shard == [x \in MCAccounts |-> IF x = "b" THEN 1 ELSE 0]

Line(from, to, v, ok) == [sender |-> from, recipient |-> to, value |-> v, legal |-> ok]
MCInput ==
  << Line("a", "b", 2, TRUE), Line("a", "c", 1, TRUE), Line("b", "b", 1, FALSE),
     Line("b", "c", 3, TRUE), Line("c", "a", 1, TRUE) >>
=============================================================================
