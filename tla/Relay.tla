-------------------------------- MODULE Relay --------------------------------
(***************************************************************************)
(* Relay mode: the shards, their transaction pools and balances, the relay *)
(* of cross-shard transactions, and the supervisor that injects the        *)
(* transactions of the input file in batches and stops everything after    *)
(* enough empty blocks in a row.                                           *)
(*                                                                         *)
(* The consensus of a shard is one proposal at a time that its main node   *)
(* executes when the round ends, as Pbft shows (LockDiscipline and         *)
(* ShardLedger).  Only main nodes talk to other shards, so a shard is the  *)
(* state of its main node.                                                 *)
(*                                                                         *)
(* A transaction is named by its line in the input file.  A message with   *)
(* no transactions changes nothing and is left out, and so are sequenceID  *)
(* and seqIDMap, which nothing reads in this mode.                         *)
(***************************************************************************)
EXTENDS StateTrie, TxPool, SequencesExt, FiniteSetsExt

CONSTANTS
  Shards,
  Accounts,
  Addr2Shard,    \* the shard an address belongs to
  Input,         \* the lines of the input file: a transfer and whether it is legal
  TxInputCount,  \* lines to read
  dataTotalNum,  \* legal transactions to send
  batchDataNum,  \* size of a batch
  InjectSpeed,   \* transactions injected per second
  BlockSize,
  Init_Balance,
  stopThreshold, \* empty blocks in a row that mean the end
  MaxLoss        \* bound: messages that TcpDial drops

ASSUME RelayAssumption ==
  /\ IsFiniteSet(Shards) /\ IsFiniteSet(Accounts)
  /\ Addr2Shard \in [Accounts -> Shards]
  /\ Input \in Seq([sender : Accounts, recipient : Accounts, value : Nat, legal : BOOLEAN])
  /\ {TxInputCount, dataTotalNum, batchDataNum, InjectSpeed, BlockSize} \subseteq Nat \ {0}
  /\ {Init_Balance, stopThreshold, MaxLoss} \subseteq Nat

Lines == DOMAIN Input

VARIABLES
  reader,      \* supervisor: what SupervisorTxHandling does now
  line,        \* supervisor: lines read
  nowDataNum,  \* supervisor: transactions read
  txlist,      \* supervisor: the batch that is collected or being sent
  stopGap,     \* supervisor: empty blocks in a row, counted up to stopThreshold
  pool,        \* shard -> Txpool.TxQueue
  proposal,    \* shard -> the block in consensus and the balances after it
  balance,     \* shard -> account -> balance in the state of CurrentBlock
  blocks,      \* shard -> the transactions of its chain, block after block
  skipped,     \* lines of the transactions that a chain skipped
  injects,     \* InjectTxs messages under way
  relays,      \* Relay messages under way
  reports,     \* shard -> the BlockInfo message under way from it, if any
  stopped,     \* shards whose main node has handled the stop message
  lost         \* messages dropped so far

supervisor == <<reader, line, nowDataNum, txlist>>
ledger == <<proposal, balance, blocks, skipped>>
vars == <<supervisor, stopGap, pool, ledger, injects, relays, reports, stopped, lost>>

NoBlock == [body |-> <<>>, state |-> <<>>, open |-> FALSE]

\* A transaction as it goes through pools and messages, and what the state
\* transition reads of it.
Tx(l, relayed) == [line |-> l, relayed |-> relayed]
Fields(txs) ==
  [i \in DOMAIN txs |->
     [sender |-> Input[txs[i].line].sender, recipient |-> Input[txs[i].line].recipient,
      value |-> Input[txs[i].line].value, relayed |-> txs[i].relayed, hasBroker |-> FALSE]]

\* Bound: a shard starts a block only when its last report has arrived.  (Blocks
\* are seconds apart.)
Reported(s) == reports[s] = "none"

-----------------------------------------------------------------------------
Init ==
  /\ reader = "reading"
  /\ line = 0
  /\ nowDataNum = 0
  /\ txlist = <<>>
  /\ stopGap = 0
  /\ pool = [s \in Shards |-> <<>>]
  /\ proposal = [s \in Shards |-> NoBlock]
  /\ balance = [s \in Shards |-> [a \in Accounts |-> Init_Balance]]
  /\ blocks = [s \in Shards |-> <<>>]
  /\ skipped = {}
  /\ injects = {}
  /\ relays = {}
  /\ reports = [s \in Shards |-> "none"]
  /\ stopped = {}
  /\ lost = 0

(***************************************************************************)
(* The supervisor.                                                         *)
(***************************************************************************)
StopGap_Reset == 0
StopGap_Inc(gap) == IF gap < stopThreshold THEN gap + 1 ELSE gap
GapEnough == stopGap >= stopThreshold

moreInput == line < TxInputCount /\ line < Len(Input)

\* data2tx: the transactions that a line of the input gives.
data2tx(l) == IF Input[l].legal THEN <<Tx(l, FALSE)>> ELSE <<>>

\* One turn of the loop of TxHandling, up to the test that a batch is full.
ReadLine ==
  LET l == line + 1
      list == txlist \o data2tx(l)
  IN
  /\ reader = "reading"
  /\ moreInput
  /\ line' = l
  /\ nowDataNum' = nowDataNum + Len(data2tx(l))
  /\ txlist' = list
  /\ reader' = IF Len(list) = batchDataNum \/ nowDataNum' = dataTotalNum
                 THEN "sending" ELSE "reading"
  /\ UNCHANGED <<stopGap, pool, ledger, injects, relays, reports, stopped, lost>>

\* The shard a transaction is injected into.
InjectShardRecipient(tx) == Addr2Shard[Input[tx.line].recipient]  \* mutant
InjectShard(tx) == Addr2Shard[Input[tx.line].sender]

\* txSending: the next InjectSpeed transactions of the batch, one message per
\* shard, each sent by its own goroutine; then the loop sleeps.  (A message
\* without transactions has no effect and is left out.)
txSending ==
  LET chunk == PackTxs(txlist, InjectSpeed)
      part(s) == Select(chunk, {tx \in Range(chunk) : InjectShard(tx) = s})
  IN
  /\ reader = "sending"
  /\ txlist # <<>>
  /\ injects' = injects \cup
       {[to |-> s, txs |-> part(s)] : s \in {t \in Shards : part(t) # <<>>}}
  /\ txlist' = AfterPack(txlist, InjectSpeed)
  /\ UNCHANGED <<reader, line, nowDataNum, stopGap, pool, ledger, relays, reports, stopped, lost>>

\* TxHandling after a batch was sent.
BatchSent ==
  /\ reader = "sending"
  /\ txlist = <<>>
  /\ stopGap' = StopGap_Reset
  /\ reader' = IF nowDataNum = dataTotalNum THEN "waiting" ELSE "reading"
  /\ UNCHANGED <<line, nowDataNum, txlist, pool, ledger, injects, relays, reports, stopped, lost>>

\* TxHandling returns at the end of the input; a batch that is not full is
\* dropped.
EndOfInput ==
  /\ reader = "reading"
  /\ ~moreInput
  /\ reader' = "waiting"
  /\ UNCHANGED <<line, nowDataNum, txlist, stopGap, pool, ledger, injects, relays,
                 reports, stopped, lost>>

\* SupervisorTxHandling sends the stop message to all nodes.
SendStop ==
  /\ reader = "waiting"
  /\ GapEnough
  /\ reader' = "stop"
  /\ UNCHANGED <<line, nowDataNum, txlist, stopGap, pool, ledger, injects, relays,
                 reports, stopped, lost>>

\* The supervisor closes its listener after the stop messages.
handleBlockInfos(s) ==
  /\ reader # "stop"
  /\ reports[s] # "none"
  /\ reports' = [reports EXCEPT ![s] = "none"]
  /\ stopGap' = IF reports[s] = "empty" THEN StopGap_Inc(stopGap) ELSE StopGap_Reset
  /\ UNCHANGED <<supervisor, pool, ledger, injects, relays, stopped, lost>>

(***************************************************************************)
(* The main node of a shard.                                               *)
(***************************************************************************)
handleInjectTx(m) ==
  /\ m.to \notin stopped
  /\ injects' = injects \ {m}
  /\ pool' = [pool EXCEPT ![m.to] = AddTxs2Pool(@, m.txs)]
  /\ UNCHANGED <<supervisor, stopGap, ledger, relays, reports, stopped, lost>>

handleRelay(m) ==
  /\ m.to \notin stopped
  /\ relays' = relays \ {m}
  /\ pool' = [pool EXCEPT ![m.to] = AddTxs2Pool(@, m.txs)]
  /\ UNCHANGED <<supervisor, stopGap, ledger, injects, reports, stopped, lost>>

\* The pool after GenerateBlock.
AfterGenerateKept(queue) == queue  \* mutant
AfterGenerate(queue) == AfterPack(queue, BlockSize)

\* HandleinPropose: GenerateBlock packs a block and executes it on top of the
\* current one.
HandleinPropose(s) ==
  LET body == PackTxs(pool[s], BlockSize) IN
  /\ s \notin stopped
  /\ ~proposal[s].open
  /\ Reported(s)
  /\ proposal' = [proposal EXCEPT ![s] =
       [body  |-> body,
        state |-> GetUpdateStatusTrie(balance[s], Addr2Shard, s, Fields(body)),
        open  |-> TRUE]]
  /\ pool' = [pool EXCEPT ![s] = AfterGenerate(@)]
  /\ UNCHANGED <<supervisor, stopGap, balance, blocks, skipped, injects, relays,
                 reports, stopped, lost>>

\* The transactions of a block that are relayed to shard t.
PaidIn(body, t) == Select(body, {tx \in Range(body) : Addr2Shard[Input[tx.line].recipient] = t})

RelayTxsWaiting(s, body, t) ==  \* mutant
  IF t = s THEN <<>>
  ELSE LET part == PaidIn(body, t)
       IN  [i \in 1..(Len(part) - 1) |-> Tx(part[i].line, TRUE)]
RelayTxs(s, body, t) ==
  IF t = s THEN <<>>
  ELSE LET part == PaidIn(body, t) IN [i \in DOMAIN part |-> Tx(part[i].line, TRUE)]

\* HandleinCommit on the main node: add the block, send a Relay message to
\* every shard that a recipient lives in, report the block.  A transaction
\* whose debit was skipped is relayed like any other.
HandleinCommit(s) ==
  LET body == proposal[s].body IN
  /\ proposal[s].open
  /\ s \notin stopped
  /\ balance' = [balance EXCEPT ![s] = proposal[s].state]
  /\ blocks' = [blocks EXCEPT ![s] = @ \o body]
  /\ skipped' = skipped \cup
       {body[i].line : i \in Skipped(balance[s], Addr2Shard, s, Fields(body))}
  /\ proposal' = [proposal EXCEPT ![s] = NoBlock]
  /\ relays' = relays \cup
       {[from |-> s, to |-> t, txs |-> RelayTxs(s, body, t)] :
          t \in {t \in Shards : RelayTxs(s, body, t) # <<>>}}
  /\ reports' = [reports EXCEPT ![s] = IF body = <<>> THEN "empty" ELSE "full"]
  /\ UNCHANGED <<supervisor, stopGap, pool, injects, stopped, lost>>

\* The main node of a shard handles the stop message.
WaitToStop(s) ==
  /\ reader = "stop"
  /\ s \notin stopped
  /\ stopped' = stopped \cup {s}
  /\ UNCHANGED <<supervisor, stopGap, pool, ledger, injects, relays, reports, lost>>

\* A message that TcpDial cannot write is dropped.
TcpDialFails ==
  /\ lost < MaxLoss
  /\ lost' = lost + 1
  /\ \/ \E m \in injects : injects' = injects \ {m} /\ UNCHANGED <<relays, reports>>
     \/ \E m \in relays : relays' = relays \ {m} /\ UNCHANGED <<injects, reports>>
     \/ \E s \in Shards :
          /\ reports[s] # "none"
          /\ reports' = [reports EXCEPT ![s] = "none"]
          /\ UNCHANGED <<injects, relays>>
  /\ UNCHANGED <<supervisor, stopGap, pool, ledger, stopped>>

Next ==
  \/ ReadLine \/ txSending \/ BatchSent \/ EndOfInput \/ SendStop
  \/ \E m \in injects : handleInjectTx(m)
  \/ \E m \in relays : handleRelay(m)
  \/ \E s \in Shards :
       HandleinPropose(s) \/ HandleinCommit(s) \/ WaitToStop(s) \/ handleBlockInfos(s)
  \/ TcpDialFails

Spec == Init /\ [][Next]_vars

(***************************************************************************)
(* The supervisor's goroutine and the reader of every connection run on,   *)
(* and the consensus of every shard finishes its rounds.                   *)
(***************************************************************************)
FairSpec ==
  /\ Spec
  /\ WF_vars(ReadLine) /\ WF_vars(txSending) /\ WF_vars(BatchSent) /\ WF_vars(EndOfInput)
  /\ \A s \in Shards :
       /\ WF_vars(HandleinPropose(s) \/ HandleinCommit(s))
       /\ WF_vars(handleBlockInfos(s))
       /\ WF_vars(\E m \in injects : m.to = s /\ handleInjectTx(m))
       /\ WF_vars(\E m \in relays : m.to = s /\ handleRelay(m))

-----------------------------------------------------------------------------
(***************************************************************************)
(* Properties.                                                             *)
(***************************************************************************)

Txs == {Tx(l, r) : l \in Lines, r \in BOOLEAN}
Balances == [Accounts -> Int]

\* The variables have the types that the Go declarations give them.
TypeOK ==
  /\ reader \in {"reading", "sending", "waiting", "stop"}
  /\ line \in 0..Len(Input)
  /\ nowDataNum \in 0..line
  /\ txlist \in Seq(Txs)
  /\ stopGap \in 0..stopThreshold
  /\ pool \in [Shards -> Seq(Txs)]
  /\ proposal \in [Shards -> {NoBlock} \cup [body : Seq(Txs), state : Balances, open : {TRUE}]]
  /\ balance \in [Shards -> Balances]
  /\ blocks \in [Shards -> Seq(Txs)]
  /\ skipped \subseteq Lines
  /\ injects \subseteq [to : Shards, txs : Seq(Txs)]
  /\ relays \subseteq [from : Shards, to : Shards, txs : Seq(Txs)]
  /\ reports \in [Shards -> {"none", "empty", "full"}]
  /\ stopped \subseteq Shards
  /\ lost \in 0..MaxLoss

Cross(l) == Addr2Shard[Input[l].sender] # Addr2Shard[Input[l].recipient]

\* What a shard has executed, proposes and keeps in its pool.
Held(s) == blocks[s] \o proposal[s].body \o pool[s]
Messages == injects \cup relays
Somewhere == (UNION {Range(Held(s)) : s \in Shards}) \cup (UNION {Range(m.txs) : m \in Messages})

Executed(l, s, relayed) == Tx(l, relayed) \in Range(blocks[s])

\* No transaction is twice in a shard or a message, or in two of them.
OneCopy ==
  /\ \A s \in Shards :
       /\ IsInjective(Held(s))
       /\ \A t \in Shards \ {s} : Range(Held(s)) \cap Range(Held(t)) = {}
  /\ \A m \in Messages :
       /\ IsInjective(m.txs)
       /\ \A n \in Messages \ {m} : Range(m.txs) \cap Range(n.txs) = {}
       /\ \A s \in Shards : Range(m.txs) \cap Range(Held(s)) = {}

\* Each transaction is executed at most once by the sender's shard and at most
\* once by the recipient's, by the latter only after the former and only if it
\* crosses shards, whatever is lost, late or out of order: HandleinCommit and
\* handleRelay keep one copy at a time.
ExactlyOnce ==
  /\ TypeOK
  /\ OneCopy
  /\ \A tx \in Somewhere : tx.relayed =>
       Cross(tx.line) /\ Executed(tx.line, Addr2Shard[Input[tx.line].sender], FALSE)

\* No transaction waits in a shard in which GetUpdateStatusTrie would neither debit
\* nor credit it, an account never changes in a shard that does not own it, and
\* none is ever overdrawn.
WellRouted ==
  \A s \in Shards :
    /\ \A i \in DOMAIN pool[s] :
         LET tx == pool[s][i] IN
         Addr2Shard[IF tx.relayed THEN Input[tx.line].recipient ELSE Input[tx.line].sender] = s
    /\ \A a \in Accounts :
         IF Addr2Shard[a] = s THEN balance[s][a] >= 0 ELSE balance[s][a] = Init_Balance

\* The debited transactions that are not credited yet (or never, when a relay
\* is lost), and the credited ones that were not debited.
InTransit == {l \in Lines : Cross(l) /\ l \notin skipped /\
               Executed(l, Addr2Shard[Input[l].sender], FALSE) /\
               ~Executed(l, Addr2Shard[Input[l].recipient], TRUE)}
Unbacked == {l \in skipped : Executed(l, Addr2Shard[Input[l].recipient], TRUE)}

Values == [l \in Lines |-> Input[l].value]

\* Value is conserved over all shards up to what is in transit and what the
\* credit of a transaction with a skipped debit creates: no interleaving of
\* blocks and relays makes or loses any other value.
ValueAccounted ==
  SumFunctionOnSet([a \in Accounts |-> balance[Addr2Shard[a]][a]], Accounts)
    + SumFunctionOnSet(Values, InTransit)
  = Cardinality(Accounts) * Init_Balance + SumFunctionOnSet(Values, Unbacked)

Injected(l) == \E m \in injects : Tx(l, FALSE) \in Range(m.txs)
Finished(l) ==
  IF Cross(l) THEN Executed(l, Addr2Shard[Input[l].recipient], TRUE)
              ELSE Executed(l, Addr2Shard[Input[l].sender], FALSE)

\* Without losses every injected transaction is executed at its last shard,
\* unless the supervisor stops the shards before: the relay of every block
\* and the pools leave none behind.
InjectedFinish == \A l \in Lines : Injected(l) ~> (Finished(l) \/ reader = "stop" \/ lost > 0)

\* The supervisor stops the nodes only when no shard has a transaction left to
\* execute in its pool or in its current block (supervisor.go:126, "wait all
\* txs to be handled").
StopAfterWork ==
  reader = "stop" => \A s \in Shards : pool[s] = <<>> /\ proposal[s].body = <<>>
=============================================================================
