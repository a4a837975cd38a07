------------------------------ MODULE StateTrie ------------------------------
(***************************************************************************)
(* The account state of a shard and how the transactions of a block change *)
(* it: chain/blockchain.go, core/account.go.  Shared by the modules of the *)
(* account modes (Relay, ClpaTransfer, BrokerChain).                       *)
(*                                                                         *)
(* A trie is a function from accounts to balances.  An account that is not *)
(* in the trie is treated by every reader as one that has Init_Balance, so *)
(* the function is total and starts with Init_Balance everywhere.          *)
(* A transaction has the fields sender, recipient, value, relayed and      *)
(* hasBroker.                                                              *)
(***************************************************************************)
EXTENDS Integers, Sequences

\* The account lives in shard s under the partition map pm, or the
\* transaction is marked so that both its ends count as living here.
Local(pm, s, a, tx) == pm[a] = s \/ tx.hasBroker

\* The transaction is debited in this shard.
Debits(pm, s, tx) == ~tx.relayed /\ Local(pm, s, tx.sender, tx)

\* The balance is less than the transfer amount.
Insufficient(st, pm, s, tx) == Debits(pm, s, tx) /\ st[tx.sender] < tx.value

Deduct(st, a, v) == [st EXCEPT ![a] = @ - v]
Deposit(st, a, v) == [st EXCEPT ![a] = @ + v]

\* One turn of the loop of GetUpdateStatusTrie: with too small a balance the
\* whole transaction is skipped, its credit too.
ApplyCreditAnyway(st, pm, s, tx) ==  \* mutant
  LET st1 == IF Debits(pm, s, tx) /\ ~Insufficient(st, pm, s, tx)
               THEN Deduct(st, tx.sender, tx.value) ELSE st
  IN  IF Local(pm, s, tx.recipient, tx) THEN Deposit(st1, tx.recipient, tx.value) ELSE st1
Apply(st, pm, s, tx) ==
  LET st1 == IF Debits(pm, s, tx) THEN Deduct(st, tx.sender, tx.value) ELSE st
  IN  IF Insufficient(st, pm, s, tx) THEN st
      ELSE IF Local(pm, s, tx.recipient, tx) THEN Deposit(st1, tx.recipient, tx.value)
      ELSE st1

\* The balances before the transactions of a block and after each of them.
Tries(st, pm, s, txs) ==
  LET after[i \in 0..Len(txs)] == IF i = 0 THEN st ELSE Apply(after[i - 1], pm, s, txs[i])
  IN  after

GetUpdateStatusTrie(st, pm, s, txs) == Tries(st, pm, s, txs)[Len(txs)]

\* The transactions of a block that are skipped: tx is one of them when the
\* balances left by those before it do not suffice.
Skipped(st, pm, s, txs) ==
  LET after == Tries(st, pm, s, txs) IN
  {i \in DOMAIN txs : Insufficient(after[i - 1], pm, s, txs[i])}
=============================================================================
