------------------------------- MODULE TxPool -------------------------------
(***************************************************************************)
(* The transaction pool of a shard, core/txpool.go, and what the loops     *)
(* over its transactions collect.  Shared by the modules of the account    *)
(* modes (Relay, ClpaTransfer, BrokerChain) and UtxoRelay.                 *)
(***************************************************************************)
EXTENDS Integers, Sequences

\* The transaction pool is a queue; a block takes up to BlockSize of its head.
PackTxs(queue, n) == SubSeq(queue, 1, IF Len(queue) < n THEN Len(queue) ELSE n)
AfterPack(queue, n) == SubSeq(queue, Len(PackTxs(queue, n)) + 1, Len(queue))
AddTxs2Pool(queue, txs) == queue \o txs

\* The members of a sequence that are in a set, in their order: what a loop over
\* the transactions of a block or a batch collects for one shard.
Select(txs, T) ==
  LET part[i \in 0..Len(txs)] ==
        IF i = 0 THEN <<>>
        ELSE IF txs[i] \in T THEN Append(part[i - 1], txs[i]) ELSE part[i - 1]
  IN  part[Len(txs)]
=============================================================================
