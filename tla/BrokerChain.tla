----------------------------- MODULE BrokerChain -----------------------------
(***************************************************************************)
(* Broker mode: the supervisor splits a cross-shard transfer in two        *)
(* halves, tx1 from the sender to a broker and tx2 from the broker to the  *)
(* recipient, and issues the second when a block report shows that the     *)
(* first was executed.                                                     *)
(*                                                                         *)
(* A shard is its main node and has one block in consensus at a time, as   *)
(* in Relay.  A block without transactions changes nothing here and is     *)
(* left out, and so are the SeqIDinfo messages, which nothing reads in     *)
(* this mode, and the stop rule of the supervisor, which is in Relay.      *)
(* A batch is a transaction; sending a batch is sending its members.       *)
(***************************************************************************)
EXTENDS StateTrie, TxPool, SequencesExt, FiniteSetsExt

CONSTANTS
  Shards,
  Accounts,
  Brokers,       \* the broker addresses
  Broker0,       \* BrokerAddress[0], the one that is used
  Addr2Shard,
  Input,         \* the legal transfers of the input file
  BlockSize,
  Init_Balance,
  MaxLoss        \* bound: messages that TcpDial drops

ASSUME BrokerAssumption ==
  /\ IsFiniteSet(Shards) /\ IsFiniteSet(Accounts)
  /\ Brokers \subseteq Accounts /\ Broker0 \in Brokers
  /\ Addr2Shard \in [Accounts -> Shards]
  /\ Input \in Seq([sender : Accounts, recipient : Accounts, value : Nat])
  /\ BlockSize \in Nat \ {0} /\ Init_Balance \in Nat /\ MaxLoss \in Nat

Lines == DOMAIN Input

VARIABLES
  line,            \* supervisor: lines read
  BrokerRawMegs,   \* supervisor: lines of the transfers that were split
  brokerConfirm1Pool, \* supervisor: lines whose tx1 was issued
  brokerConfirm2Pool, \* supervisor: lines whose tx2 was issued
  RawTx2BrokerTx,  \* supervisor: line -> its halves that are confirmed
  pool,            \* shard -> Txpool.TxQueue
  proposal,        \* shard -> the transactions of the block in consensus
  balance,         \* shard -> account -> balance
  blocks,          \* shard -> the transactions of its chain
  skipped,         \* history: transactions that were skipped for lack of balance
  injects,         \* InjectTxs messages under way
  reports,         \* BlockInfo messages under way
  lost             \* messages dropped so far

supervisor == <<line, BrokerRawMegs, brokerConfirm1Pool, brokerConfirm2Pool, RawTx2BrokerTx>>
shards == <<pool, proposal, balance, blocks, skipped>>
vars == <<supervisor, shards, injects, reports, lost>>

-----------------------------------------------------------------------------
\* A transaction: the transfer of a line itself, or one of its halves.
Tx(l, half) == [line |-> l, half |-> half]

IsBroker(a) == a \in Brokers
Sender(tx) == IF tx.half = "tx2" THEN Broker0 ELSE Input[tx.line].sender
Recipient(tx) == IF tx.half = "tx1" THEN Broker0 ELSE Input[tx.line].recipient

\* dealTxByBroker sets HasBroker for transfers from or to a broker; the halves
\* are new transactions, for which it is not set, so that a broker's end of a half
\* counts only in the shard of the broker's address.
HasBroker(tx) ==
  tx.half = "raw" /\ (IsBroker(Input[tx.line].sender) \/ IsBroker(Input[tx.line].recipient))

Fields(txs) ==
  [i \in DOMAIN txs |->
     [sender |-> Sender(txs[i]), recipient |-> Recipient(txs[i]),
      value |-> Input[txs[i].line].value, relayed |-> FALSE, hasBroker |-> HasBroker(txs[i])]]

Init ==
  /\ line = 0
  /\ BrokerRawMegs = {}
  /\ brokerConfirm1Pool = {}
  /\ brokerConfirm2Pool = {}
  /\ RawTx2BrokerTx = [l \in Lines |-> <<>>]
  /\ pool = [s \in Shards |-> <<>>]
  /\ proposal = [s \in Shards |-> <<>>]
  /\ balance = [s \in Shards |-> [a \in Accounts |-> Init_Balance]]
  /\ blocks = [s \in Shards |-> <<>>]
  /\ skipped = {}
  /\ injects = {}
  /\ reports = {}
  /\ lost = 0

(***************************************************************************)
(* The supervisor.                                                         *)
(***************************************************************************)

\* txSending: a transaction of a broker goes to the shard of its recipient, any
\* other to the shard of its sender.
SendShardSender(tx) == Addr2Shard[Sender(tx)]  \* mutant
SendShard(tx) == IF IsBroker(Sender(tx)) THEN Addr2Shard[Recipient(tx)] ELSE Addr2Shard[Sender(tx)]

\* Sends transactions, each by its own goroutine.
txSending(txs) == injects \cup {[to |-> SendShard(tx), tx |-> tx] : tx \in txs}

\* A transfer between two shards without a broker.
NeedsBroker(l) ==
  /\ Addr2Shard[Input[l].sender] # Addr2Shard[Input[l].recipient]
  /\ ~IsBroker(Input[l].sender) /\ ~IsBroker(Input[l].recipient)

\* handleBrokerRawMag and handleBrokerType1Mes: the transfer is split, its tx1 sent.
handleBrokerRawMag(l) ==
  /\ BrokerRawMegs' = BrokerRawMegs \cup {l}
  /\ brokerConfirm1Pool' = brokerConfirm1Pool \cup {l}
  /\ injects' = txSending({Tx(l, "tx1")})

\* Any other transfer is sent as it is.
dealTxByBroker(l) ==
  IF NeedsBroker(l)
    THEN handleBrokerRawMag(l)
    ELSE /\ injects' = txSending({Tx(l, "raw")})
         /\ UNCHANGED <<BrokerRawMegs, brokerConfirm1Pool>>

\* A batch of one transfer.
TxHandling ==
  /\ line < Len(Input)
  /\ line' = line + 1
  /\ dealTxByBroker(line + 1)
  /\ UNCHANGED <<brokerConfirm2Pool, RawTx2BrokerTx, shards, reports, lost>>

\* The lines whose tx1, and whose tx2, a report confirms.
Confirmed1Any(r) ==  \* mutant
  {l \in brokerConfirm1Pool : {Tx(l, "tx1"), Tx(l, "tx2")} \cap (r.broker1Txs \cup r.broker2Txs) # {}}
Confirmed1(r) == {l \in brokerConfirm1Pool : Tx(l, "tx1") \in r.broker1Txs \cup r.broker2Txs}
Confirmed2(r) == {l \in brokerConfirm2Pool : Tx(l, "tx2") \in r.broker1Txs \cup r.broker2Txs}

\* handleBlockInfos, AdjustByBlockInfos and createConfirm: handleTx1ConfirmMag
\* issues the second halves (handleBrokerType2Mes), then handleTx2ConfirmMag
\* finishes what has both.
handleBlockInfos(r) ==
  LET confirmed1 == {l \in Confirmed1(r) : l \in BrokerRawMegs}
      confirmed2 == Confirmed2(r)
  IN
  /\ reports' = reports \ {r}
  /\ RawTx2BrokerTx' = [l \in Lines |->
       LET one == IF l \in confirmed1 THEN Append(RawTx2BrokerTx[l], "tx1") ELSE RawTx2BrokerTx[l]
       IN  IF l \in confirmed2 THEN Append(one, "tx2") ELSE one]
  /\ brokerConfirm2Pool' = brokerConfirm2Pool \cup confirmed1
  /\ injects' = txSending({Tx(l, "tx2") : l \in confirmed1})
  /\ UNCHANGED <<line, BrokerRawMegs, brokerConfirm1Pool, shards, lost>>

(***************************************************************************)
(* The main node of a shard.                                               *)
(***************************************************************************)
handleInjectTx(m) ==
  /\ injects' = injects \ {m}
  /\ pool' = [pool EXCEPT ![m.to] = AddTxs2Pool(@, <<m.tx>>)]
  /\ UNCHANGED <<supervisor, proposal, balance, blocks, skipped, reports, lost>>

HandleinPropose(s) ==
  /\ proposal[s] = <<>>
  /\ pool[s] # <<>>
  /\ proposal' = [proposal EXCEPT ![s] = PackTxs(pool[s], BlockSize)]
  /\ pool' = [pool EXCEPT ![s] = AfterPack(@, BlockSize)]
  /\ UNCHANGED <<supervisor, balance, blocks, skipped, injects, reports, lost>>

\* The classes of transactions in a report: tx2 goes to the final recipient,
\* any other transaction with a raw transaction behind it is a tx1.
isBroker2TxSwapped(tx) == tx.half # "raw" /\ Recipient(tx) = Input[tx.line].sender  \* mutant
isBroker2Tx(tx) == tx.half # "raw" /\ Recipient(tx) = Input[tx.line].recipient
isBroker1Tx(tx) ==
  tx.half # "raw" /\ ~isBroker2Tx(tx) /\ Sender(tx) = Input[tx.line].sender

\* HandleinCommit on the main node: the block is added with the balances that
\* GenerateBlock computed, and reported.
HandleinCommit(s) ==
  LET body == proposal[s] IN
  /\ body # <<>>
  /\ balance' = [balance EXCEPT ![s] = GetUpdateStatusTrie(@, Addr2Shard, s, Fields(body))]
  /\ skipped' = skipped \cup
       {body[i] : i \in Skipped(balance[s], Addr2Shard, s, Fields(body))}
  /\ blocks' = [blocks EXCEPT ![s] = @ \o body]
  /\ proposal' = [proposal EXCEPT ![s] = <<>>]
  /\ reports' = reports \cup
       {[from |-> s, number |-> Len(blocks'[s]),
         broker1Txs |-> {tx \in Range(body) : isBroker1Tx(tx)},
         broker2Txs |-> {tx \in Range(body) : isBroker2Tx(tx)}]}
  /\ UNCHANGED <<supervisor, pool, injects, lost>>

\* A message that TcpDial cannot write is dropped.
TcpDialFails ==
  /\ lost < MaxLoss
  /\ lost' = lost + 1
  /\ \/ \E m \in injects : injects' = injects \ {m} /\ UNCHANGED reports
     \/ \E r \in reports : reports' = reports \ {r} /\ UNCHANGED injects
  /\ UNCHANGED <<supervisor, shards>>

Next ==
  \/ TxHandling
  \/ \E r \in reports : handleBlockInfos(r)
  \/ \E m \in injects : handleInjectTx(m)
  \/ \E s \in Shards : HandleinPropose(s) \/ HandleinCommit(s)
  \/ TcpDialFails

Spec == Init /\ [][Next]_vars

(***************************************************************************)
(* The supervisor reads on, connections are read, and the consensus of     *)
(* every shard finishes its rounds.                                        *)
(***************************************************************************)
FairSpec ==
  /\ Spec
  /\ WF_vars(TxHandling)
  /\ WF_vars(\E r \in reports : handleBlockInfos(r))
  /\ \A s \in Shards :
       /\ WF_vars(HandleinPropose(s) \/ HandleinCommit(s))
       /\ WF_vars(\E m \in injects : m.to = s /\ handleInjectTx(m))

-----------------------------------------------------------------------------
(***************************************************************************)
(* Properties.                                                             *)
(***************************************************************************)
Txs == {Tx(l, h) : l \in Lines, h \in {"raw", "tx1", "tx2"}}
Balances == [Accounts -> Int]
Reports == [from : Shards, number : Nat, broker1Txs : SUBSET Txs, broker2Txs : SUBSET Txs]

\* The variables have the types that the Go declarations give them, and the
\* classification of a report puts every half in its class.
TypeOK ==
  /\ line \in 0..Len(Input)
  /\ BrokerRawMegs \subseteq Lines
  /\ brokerConfirm1Pool \subseteq Lines /\ brokerConfirm2Pool \subseteq Lines
  /\ RawTx2BrokerTx \in [Lines -> Seq({"tx1", "tx2"})]
  /\ pool \in [Shards -> Seq(Txs)] /\ proposal \in [Shards -> Seq(Txs)]
  /\ blocks \in [Shards -> Seq(Txs)]
  /\ balance \in [Shards -> Balances]
  /\ skipped \subseteq Txs
  /\ injects \subseteq [to : Shards, tx : Txs]
  /\ reports \subseteq Reports
  /\ \A r \in reports : /\ \A tx \in r.broker1Txs : tx.half = "tx1"
                        /\ \A tx \in r.broker2Txs : tx.half = "tx2"
  /\ lost \in 0..MaxLoss

\* What a shard has executed, proposes and keeps in its pool.
Held(s) == blocks[s] \o proposal[s] \o pool[s]
Somewhere == (UNION {Range(Held(s)) : s \in Shards}) \cup {m.tx : m \in injects}

Executed(tx, s) == tx \in Range(blocks[s])
SenderShard(l) == Addr2Shard[Input[l].sender]
RecipientShard(l) == Addr2Shard[Input[l].recipient]

\* No transaction is twice in a shard, in two shards, or in a shard and a message,
\* or in two messages.
OneCopy ==
  /\ \A s \in Shards :
       /\ IsInjective(Held(s))
       /\ \A t \in Shards \ {s} : Range(Held(s)) \cap Range(Held(t)) = {}
  /\ \A m \in injects :
       /\ \A n \in injects \ {m} : n.tx # m.tx
       /\ \A s \in Shards : m.tx \notin Range(Held(s))

\* A transfer is executed whole or as two halves, never both, each at most once,
\* and a second half exists only after the first was executed in the sender's
\* shard: no order or loss of reports makes the supervisor issue one early or
\* twice.
HalvesInOrder ==
  /\ TypeOK
  /\ OneCopy
  /\ \A l \in Lines :
       /\ ~({Tx(l, "raw"), Tx(l, "tx1")} \subseteq Somewhere)
       /\ Tx(l, "tx2") \in Somewhere => Executed(Tx(l, "tx1"), SenderShard(l))

\* What the supervisor holds for confirmed was executed, the first half first.
ConfirmedExecuted ==
  \A l \in Lines :
    /\ RawTx2BrokerTx[l] \in {<<>>, <<"tx1">>, <<"tx1", "tx2">>}
    /\ RawTx2BrokerTx[l] # <<>> => Executed(Tx(l, "tx1"), SenderShard(l))
    /\ RawTx2BrokerTx[l] = <<"tx1", "tx2">> => Executed(Tx(l, "tx2"), RecipientShard(l))

\* What an account gains from a transaction or loses by it, wherever it is executed.
Gained(a) ==
  [tx \in Txs |->
     IF tx \in skipped THEN 0
     ELSE (IF Recipient(tx) = a THEN Input[tx.line].value ELSE 0)
          - (IF Sender(tx) = a THEN Input[tx.line].value ELSE 0)]

\* An account that is no broker's has in every shard what the transactions of that
\* shard's chain give it, is never overdrawn, and changes in its own shard only: no
\* half is executed where it misses the account it is about, although GetUpdateStatusTrie
\* leaves out, without a word, an end that it takes for another shard's.
ClientBalances ==
  \A s \in Shards : \A a \in Accounts \ Brokers :
    /\ balance[s][a] = Init_Balance + SumFunctionOnSet(Gained(a), Range(blocks[s]))
    /\ balance[s][a] >= 0
    /\ Addr2Shard[a] # s => balance[s][a] = Init_Balance

\* Without losses every transfer that was split ends with both halves confirmed.
SplitTransfersFinish ==
  \A l \in Lines : l \in BrokerRawMegs ~> (Len(RawTx2BrokerTx[l]) = 2 \/ lost > 0)
=============================================================================
