---------------------------- MODULE ShardLedger ----------------------------
(***************************************************************************)
(* What the consensus of a shard promises the rest of the system: one log  *)
(* of blocks, extended only when the main node's ledger holds all of it,   *)
(* and at each node a ledger that is a prefix of the log and only grows.   *)
(***************************************************************************)
EXTENDS Naturals, Sequences

CONSTANTS
  Nodes,   \* the nodes of the shard
  Leader,  \* the main node
  Blocks   \* the blocks that can be proposed

VARIABLES
  log,     \* the blocks proposed, in order
  ledger   \* node -> the blocks it has executed

vars == <<log, ledger>>

Init ==
  /\ log = <<>>
  /\ ledger = [n \in Nodes |-> <<>>]

Extend ==
  /\ ledger[Leader] = log
  /\ \E b \in Blocks : log' = Append(log, b)
  /\ UNCHANGED ledger

\* A node that catches up executes several blocks at once.
Execute(n) ==
  /\ \E k \in (Len(ledger[n]) + 1)..Len(log) :
       ledger' = [ledger EXCEPT ![n] = SubSeq(log, 1, k)]
  /\ UNCHANGED log

Next == Extend \/ \E n \in Nodes : Execute(n)

Spec == Init /\ [][Next]_vars
=============================================================================
