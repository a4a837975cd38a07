----------------------------- MODULE UtxoRelay -----------------------------
(***************************************************************************)
(* UTXO mode: TxTransform turns the injected transfers of a shard into     *)
(* UTXO transactions against the unspent outputs in its status trie, while *)
(* Propose packs the transactions already made into blocks.                *)
(*                                                                         *)
(* A shard is its main node, with one block in consensus at a time as in   *)
(* Relay.  Only TxTransform touches the status trie.  An output is named   *)
(* by the transaction that made it and its index, and a transaction by its *)
(* number in its shard (its hash is unique, because its inputs are).       *)
(*                                                                         *)
(* HandleinCommit collects the transactions for other shards in the relay  *)
(* pool of the UTXO mode, but sends them only if the relay pool of the     *)
(* account mode is not empty (pbftInside_module_utxo.go:89).  Nothing      *)
(* fills that pool in this mode, so nothing is sent, and handleRelay is    *)
(* never reached.                                                          *)
(***************************************************************************)
EXTENDS TxPool, SequencesExt, FiniteSetsExt

CONSTANTS
  Shards,
  Accounts,
  Addr2Shard,
  Input,          \* the transfers that the supervisor injects
  TransformSize,  \* transfers that TxTransform takes at a time (200)
  BlockSize

ASSUME UtxoAssumption ==
  /\ IsFiniteSet(Shards) /\ IsFiniteSet(Accounts)
  /\ Addr2Shard \in [Accounts -> Shards]
  /\ Input \in Seq([sender : Accounts, recipient : Accounts, value : Nat])
  /\ \A l \in DOMAIN Input : Input[l].sender # Input[l].recipient
  /\ {TransformSize, BlockSize} \subseteq Nat \ {0}

Lines == DOMAIN Input

VARIABLES
  injected,    \* lines that have arrived
  Txpool,      \* shard -> injected transfers that wait for TxTransform
  injectedTxs, \* shard -> transfers that TxTransform has taken
  txs,         \* shard -> transactions it has made of them so far
  trie,        \* shard -> account -> its UTXOAccountState
  made,        \* shard -> number of transactions made so far
  UTXOTxpool,  \* shard -> transactions that wait for a block
  proposal,    \* shard -> the block in consensus
  blocks,      \* shard -> the transactions of its chain
  executed,    \* shard -> transactions reported as executed here
  relay1       \* shard -> transactions reported as relayed to another shard

transform == <<injectedTxs, txs, trie, made>>
vars == <<injected, Txpool, transform, UTXOTxpool, proposal, blocks, executed, relay1>>

-----------------------------------------------------------------------------
Missing == [known |-> FALSE, balance |-> 0, utxos |-> {}]

Init ==
  /\ injected = {}
  /\ Txpool = [s \in Shards |-> <<>>]
  /\ injectedTxs = [s \in Shards |-> <<>>]
  /\ txs = [s \in Shards |-> <<>>]
  /\ trie = [s \in Shards |-> [a \in Accounts |-> Missing]]
  /\ made = [s \in Shards |-> 0]
  /\ UTXOTxpool = [s \in Shards |-> <<>>]
  /\ proposal = [s \in Shards |-> <<>>]
  /\ blocks = [s \in Shards |-> <<>>]
  /\ executed = [s \in Shards |-> {}]
  /\ relay1 = [s \in Shards |-> {}]

UTXOPackTxs(queue, n) == SubSeq(queue, 1, IF Len(queue) < n THEN Len(queue) ELSE n)
UTXOAfterPack(queue, n) == SubSeq(queue, Len(UTXOPackTxs(queue, n)) + 1, Len(queue))

\* The value of some outputs.
Sum(utxos) == SumFunctionOnSet([u \in utxos |-> u.value], utxos)

NewCoinbaseTX(id, to, value) ==
  [id |-> id, line |-> 0, vin |-> {}, vout |-> <<[to |-> to, value |-> value]>>]
IsCoinbase(tx) == tx.vin = {}

(***************************************************************************)
(* FindSpendableOutputsFromStatusTrie.  The loop takes outputs in the      *)
(* order of a Go map, which is any order, and stops when the sum exceeds   *)
(* the amount (when it equals the amount it goes on) or nothing is left.   *)
(* An account has at most one output of a transaction, so the order in     *)
(* which transactions come is the order of the outputs.                    *)
(***************************************************************************)
StopsAt(chosen, utxos, amount) ==
  \/ Sum(chosen) > amount /\ \E last \in chosen : Sum(chosen \ {last}) <= amount
  \/ Sum(chosen) <= amount /\ chosen = utxos

\* Nothing is taken from a new account and from one with too little.
LacksFunds(state, amount) == ~state.known \/ state.balance < amount

Takes(state, amount, chosen) ==
  IF LacksFunds(state, amount) THEN chosen = {} ELSE StopsAt(chosen, state.utxos, amount)

\* The account state after the chosen outputs are taken out.
SpendKept(state, chosen) == [state EXCEPT !.balance = @ - Sum(chosen)]  \* mutant
Spend(state, chosen) ==
  [known |-> state.known, balance |-> state.balance - Sum(chosen), utxos |-> state.utxos \ chosen]

\* The account state that a coinbase leaves: the account exists, and the output of
\* the coinbase is spent at once.
Opened(state) == [known |-> TRUE, balance |-> state.balance, utxos |-> state.utxos]

\* The outputs of NewUTXOTransaction: the amount, and the change.
OutputsNoChange(line, acc) ==  \* mutant
  <<[to |-> line.recipient, value |-> line.value]>>
Outputs(line, acc) ==
  IF acc > line.value
    THEN <<[to |-> line.recipient, value |-> line.value],
           [to |-> line.sender, value |-> acc - line.value]>>
    ELSE <<[to |-> line.recipient, value |-> line.value]>>

\* AddUTXO2StatusTrie: every output, whatever shard its owner lives in.
NewOutputs(tx, a) ==
  {[tx |-> tx.id, index |-> i, value |-> tx.vout[i].value] :
     i \in {j \in DOMAIN tx.vout : tx.vout[j].to = a}}

AddUTXO2StatusTrie(tr, tx) ==
  [a \in DOMAIN tr |->
     IF NewOutputs(tx, a) = {} THEN tr[a]
     ELSE [known |-> TRUE, balance |-> tr[a].balance + Sum(NewOutputs(tx, a)),
           utxos |-> tr[a].utxos \cup NewOutputs(tx, a)]]

(***************************************************************************)
(* TxTransform: one turn of its loop takes transfers, makes transactions   *)
(* of them one by one and puts them all in the pool at the end.            *)
(***************************************************************************)
takeInjected(s) ==
  /\ injectedTxs[s] = <<>> /\ txs[s] = <<>>
  /\ Txpool[s] # <<>>
  /\ injectedTxs' = [injectedTxs EXCEPT ![s] = PackTxs(Txpool[s], TransformSize)]
  /\ Txpool' = [Txpool EXCEPT ![s] = AfterPack(@, TransformSize)]
  /\ UNCHANGED <<injected, txs, trie, made, UTXOTxpool, proposal, blocks, executed, relay1>>

\* NewUTXOTransaction with a coinbase, which is spent at once, for an account that
\* lacks funds and for an amount of 0 from one with no value: its outputs of value 0
\* are taken out and not used.
transformWithCoinbase(s) ==
  LET l == Head(injectedTxs[s])
      line == Input[l]
      coinbase == NewCoinbaseTX(made[s] + 1, line.sender, line.value)
      tx == [id |-> made[s] + 2, line |-> l,
             vin |-> {[tx |-> made[s] + 1, index |-> 1, value |-> line.value]},
             vout |-> Outputs(line, line.value)]
  IN
  /\ injectedTxs[s] # <<>>
  /\ \E chosen \in SUBSET trie[s][line.sender].utxos :
       /\ Takes(trie[s][line.sender], line.value, chosen) /\ Sum(chosen) = 0
       /\ trie' = [trie EXCEPT ![s] =
            AddUTXO2StatusTrie([trie[s] EXCEPT ![line.sender] = Opened(Spend(@, chosen))], tx)]
  /\ txs' = [txs EXCEPT ![s] = Append(Append(@, coinbase), tx)]
  /\ made' = [made EXCEPT ![s] = @ + 2]
  /\ injectedTxs' = [injectedTxs EXCEPT ![s] = Tail(@)]
  /\ UNCHANGED <<injected, Txpool, UTXOTxpool, proposal, blocks, executed, relay1>>

\* NewUTXOTransaction with unspent outputs.
transformWithOutputs(s) ==
  LET l == Head(injectedTxs[s])
      line == Input[l]
      state == trie[s][line.sender]
  IN
  /\ injectedTxs[s] # <<>>
  /\ \E chosen \in SUBSET state.utxos :
       /\ Takes(state, line.value, chosen) /\ Sum(chosen) > 0
       /\ LET tx == [id |-> made[s] + 1, line |-> l, vin |-> chosen,
                     vout |-> Outputs(line, Sum(chosen))]
          IN  /\ txs' = [txs EXCEPT ![s] = Append(@, tx)]
              /\ trie' = [trie EXCEPT ![s] =
                   AddUTXO2StatusTrie([trie[s] EXCEPT ![line.sender] = Spend(@, chosen)], tx)]
  /\ made' = [made EXCEPT ![s] = @ + 1]
  /\ injectedTxs' = [injectedTxs EXCEPT ![s] = Tail(@)]
  /\ UNCHANGED <<injected, Txpool, UTXOTxpool, proposal, blocks, executed, relay1>>

\* The pool after a turn of TxTransform.
UTXOAddTxs2PoolHead(queue, new) == new \o queue  \* mutant
UTXOAddTxs2Pool(queue, new) == queue \o new

putTransformed(s) ==
  /\ injectedTxs[s] = <<>> /\ txs[s] # <<>>
  /\ UTXOTxpool' = [UTXOTxpool EXCEPT ![s] = UTXOAddTxs2Pool(@, txs[s])]
  /\ txs' = [txs EXCEPT ![s] = <<>>]
  /\ UNCHANGED <<injected, Txpool, injectedTxs, trie, made, proposal, blocks, executed, relay1>>

(***************************************************************************)
(* Injection and consensus.                                                *)
(***************************************************************************)
\* InjectTxs messages arrive in any order.
handleInjectTx(l) ==
  LET s == Addr2Shard[Input[l].sender] IN
  /\ l \notin injected
  /\ injected' = injected \cup {l}
  /\ Txpool' = [Txpool EXCEPT ![s] = Append(@, l)]
  /\ UNCHANGED <<transform, UTXOTxpool, proposal, blocks, executed, relay1>>

HandleinPropose(s) ==
  /\ proposal[s] = <<>>
  /\ UTXOTxpool[s] # <<>>
  /\ proposal' = [proposal EXCEPT ![s] = UTXOPackTxs(UTXOTxpool[s], BlockSize)]
  /\ UTXOTxpool' = [UTXOTxpool EXCEPT ![s] = UTXOAfterPack(@, BlockSize)]
  /\ UNCHANGED <<injected, Txpool, transform, blocks, executed, relay1>>

RelayToOther(s, tx) == ~IsCoinbase(tx) /\ Addr2Shard[Input[tx.line].recipient] # s

HandleinCommit(s) ==
  LET body == Range(proposal[s]) IN
  /\ proposal[s] # <<>>
  /\ blocks' = [blocks EXCEPT ![s] = @ \o proposal[s]]
  /\ proposal' = [proposal EXCEPT ![s] = <<>>]
  /\ relay1' = [relay1 EXCEPT ![s] = @ \cup {tx.id : tx \in {x \in body : RelayToOther(s, x)}}]
  /\ executed' = [executed EXCEPT ![s] =
       @ \cup {tx.id : tx \in {x \in body : ~RelayToOther(s, x)}}]
  /\ UNCHANGED <<injected, Txpool, transform, UTXOTxpool>>

Next ==
  \/ \E l \in Lines : handleInjectTx(l)
  \/ \E s \in Shards :
       \/ takeInjected(s) \/ transformWithCoinbase(s) \/ transformWithOutputs(s)
       \/ putTransformed(s) \/ HandleinPropose(s) \/ HandleinCommit(s)

Spec == Init /\ [][Next]_vars

-----------------------------------------------------------------------------
(***************************************************************************)
(* Properties.                                                             *)
(***************************************************************************)

\* All transactions of a shard in the order in which its blocks have or will
\* have them.
History(s) == blocks[s] \o proposal[s] \o UTXOTxpool[s] \o txs[s]

\* The variables have the types that the Go declarations give them, and a
\* transaction is reported once, as executed or as relayed.
TypeOK ==
  /\ injected \subseteq Lines
  /\ Txpool \in [Shards -> Seq(Lines)] /\ injectedTxs \in [Shards -> Seq(Lines)]
  /\ made \in [Shards -> Nat]
  /\ \A s \in Shards, a \in Accounts :
       /\ trie[s][a].balance \in Nat
       /\ trie[s][a].utxos \subseteq [tx : 1..made[s], index : 1..2, value : Nat]
       /\ trie[s][a].utxos # {} => trie[s][a].known
  /\ \A s \in Shards : executed[s] \cap relay1[s] = {} /\
       executed[s] \cup relay1[s] = {blocks[s][i].id : i \in DOMAIN blocks[s]}

\* No output is spent twice: two transactions of a shard have no input in
\* common, and no input of one is still unspent in the status trie.
NoDoubleSpend ==
  /\ TypeOK
  /\ \A s \in Shards :
       LET h == History(s) IN
       /\ \A i, j \in DOMAIN h : i # j => h[i].id # h[j].id /\ h[i].vin \cap h[j].vin = {}
       /\ \A i \in DOMAIN h, a \in Accounts : h[i].vin \cap trie[s][a].utxos = {}

\* Every input is an output of a transaction that is earlier in the chain of the
\* shard and that was made out to the sender, although TxTransform makes
\* transactions from others that are not in a block yet.
InputsEarlier ==
  \A s \in Shards :
    LET h == History(s) IN
    \A i \in DOMAIN h : \A in \in h[i].vin :
      \E j \in 1..(i - 1) :
        /\ h[j].id = in.tx
        /\ in.index \in DOMAIN h[j].vout
        /\ h[j].vout[in.index] = [to |-> Input[h[i].line].sender, value |-> in.value]

\* The balance of an account state is the sum of its outputs, which the test for
\* sufficient funds relies on, and the unspent value of a shard is what its
\* coinbase transactions made: choosing outputs in any order and giving change
\* neither adds nor loses value.
ValueOnlyFromCoinbase ==
  /\ \A s \in Shards, a \in Accounts : trie[s][a].balance = Sum(trie[s][a].utxos)
  /\ \A s \in Shards :
       LET h == History(s)
           coinbases == {i \in DOMAIN h : IsCoinbase(h[i])}
       IN  SumFunctionOnSet([a \in Accounts |-> Sum(trie[s][a].utxos)], Accounts)
             = SumFunctionOnSet([i \in coinbases |-> h[i].vout[1].value], coinbases)
=============================================================================
