---------------------------- MODULE ClpaTransfer ----------------------------
(***************************************************************************)
(* CLPA mode: the supervisor sends a new assignment of accounts to shards, *)
(* and the main nodes agree when to switch, exchange the states and the    *)
(* waiting transactions of the accounts that move, and switch through a    *)
(* partition request of their consensus.                                   *)
(*                                                                         *)
(* As in Relay, a shard is its main node and one request is in consensus   *)
(* at a time.  HandleinPropose runs in the goroutine of Propose and waits  *)
(* twice in the middle, while handlers run; stage says where it is.        *)
(* networks.TcpDial is called by a goroutine of its own for relays and     *)
(* injections, so messages arrive in any order.                            *)
(***************************************************************************)
EXTENDS Sharding, StateTrie, TxPool, SequencesExt, FiniteSetsExt

CONSTANTS
  Input,         \* the transfers the supervisor injects
  Maps,          \* the maps of moved accounts that CLPA_Partition returns
  BlockSize,
  Init_Balance,
  MaxSeq         \* bound: a shard starts no block at this sequence number

ASSUME ClpaAssumption ==
  /\ Shards \subseteq Nat
  /\ Input \in Seq([sender : Accounts, recipient : Accounts, value : Nat])
  /\ Maps \in Seq(UNION {[moved -> Shards] : moved \in SUBSET Accounts})
  /\ BlockSize \in Nat \ {0} /\ Init_Balance \in Nat /\ MaxSeq \in Nat

Lines == DOMAIN Input
Epochs == DOMAIN Maps

VARIABLES
  epoch,        \* supervisor: maps sent
  sent,         \* supervisor: lines injected
  stage,        \* shard -> where Propose is: "idle", "ready" (waiting for the
                \* other shards), "sent" (waiting for their accounts), "block" or
                \* "partition" (a request is in consensus)
  request,      \* shard -> the request in consensus
  pool,         \* shard -> Txpool.TxQueue
  balance,      \* shard -> account -> balance
  PartitionMap, \* shard -> account -> the shard it lives in
  sequenceID,
  seqIDMap,     \* shard -> other shard -> sequence number of its last relay, 0 if none
  PartitionOn,  \* shards that have a map to apply
  ModifiedMap,  \* shard -> the epochs whose maps arrived, in order
  AccountTransferRound,
  PartitionReady, \* shard -> shards that are ready
  ReadySeq,       \* shard -> other shard -> its sequence number when it was ready
  AccountStateTx, \* shard -> the accounts and transactions collected
  CollectOver,    \* shards that collected all of them
  mapMsgs, injects, relays, readyMsgs, accountMsgs,  \* messages under way
  transit,      \* history: lines debited in one shard and not credited in another
  unbacked,     \* history: lines relayed although the debit was skipped
  finished,     \* history: lines executed for the last time
  panicked,     \* shards whose main node panicked
  late,         \* history: a transaction arrived where it does not belong (any more)
  overtaken     \* history: a relay arrived after a later one of the same shard

supervisor == <<epoch, sent>>
chain == <<balance, PartitionMap, transit, unbacked, finished>>
seqs == <<sequenceID, seqIDMap>>
clpaData == <<PartitionOn, ModifiedMap, AccountTransferRound, PartitionReady, ReadySeq,
              AccountStateTx, CollectOver>>
network == <<mapMsgs, injects, relays, readyMsgs, accountMsgs>>
flags == <<panicked, late, overtaken>>
vars == <<supervisor, stage, request, pool, chain, seqs, clpaData, network, flags>>

-----------------------------------------------------------------------------
Tx(l, relayed) == [line |-> l, relayed |-> relayed]
Fields(txs) ==
  [i \in DOMAIN txs |->
     [sender |-> Input[txs[i].line].sender, recipient |-> Input[txs[i].line].recipient,
      value |-> Input[txs[i].line].value, relayed |-> txs[i].relayed, hasBroker |-> FALSE]]

\* The account that decides where a transaction has to be.
Anchor(tx) == IF tx.relayed THEN Input[tx.line].recipient ELSE Input[tx.line].sender

\* Update_PartitionMap for every entry of a map.
Updated(pm, map) == [a \in Accounts |-> IF a \in DOMAIN map THEN map[a] ELSE pm[a]]
UpdatedUpTo(pm, e) ==
  [a \in Accounts |->
     LET es == {i \in 1..e : a \in DOMAIN Maps[i]} IN IF es = {} THEN pm[a] ELSE Maps[Max(es)][a]]

\* The supervisor's view: fetchModifiedMap.
fetchModifiedMap(a) == UpdatedUpTo(Addr2Shard, epoch)[a]

Others(s) == Shards \ {s}
NoRequest == [kind |-> "none"]

Init ==
  /\ epoch = 0
  /\ sent = 0
  /\ stage = [s \in Shards |-> "idle"]
  /\ request = [s \in Shards |-> NoRequest]
  /\ pool = [s \in Shards |-> <<>>]
  /\ balance = [s \in Shards |-> [a \in Accounts |-> Init_Balance]]
  /\ PartitionMap = [s \in Shards |-> Addr2Shard]
  /\ sequenceID = [s \in Shards |-> 1]
  /\ seqIDMap = [s \in Shards |-> [t \in Others(s) |-> 0]]
  /\ PartitionOn = {}
  /\ ModifiedMap = [s \in Shards |-> <<>>]
  /\ AccountTransferRound = [s \in Shards |-> 0]
  /\ PartitionReady = [s \in Shards |-> {}]
  /\ ReadySeq = [s \in Shards |-> [t \in Others(s) |-> 0]]
  /\ AccountStateTx = [s \in Shards |-> {}]
  /\ CollectOver = {}
  /\ mapMsgs = {} /\ injects = {} /\ relays = {} /\ readyMsgs = {} /\ accountMsgs = {}
  /\ transit = {}
  /\ unbacked = {}
  /\ finished = {}
  /\ panicked = {}
  /\ late = FALSE
  /\ overtaken = FALSE

(***************************************************************************)
(* The supervisor.                                                         *)
(***************************************************************************)

\* txSending: a batch of one transaction goes to the shard of its sender.
txSending ==
  /\ sent < Len(Input)
  /\ sent' = sent + 1
  /\ injects' = injects \cup {[to |-> fetchModifiedMap(Input[sent + 1].sender),
                               txs |-> <<Tx(sent + 1, FALSE)>>]}
  /\ UNCHANGED <<epoch, stage, request, pool, chain, seqs, clpaData, mapMsgs, relays,
                 readyMsgs, accountMsgs, flags>>

\* Bound: the period of CLPA (clpaFreq, 80 seconds) is long enough for every
\* shard to finish a re-partition and a block after it.
Settled == \A s \in Shards : AccountTransferRound[s] = epoch /\ stage[s] \in {"idle", "block"}
PeriodOver == Settled /\ \A s \in Shards, t \in Shards :
  s # t => epoch = 0 \/ seqIDMap[s][t] = sequenceID[t] - 1

\* clpaMapSend.
clpaMapSend ==
  /\ epoch < Len(Maps)
  /\ PeriodOver
  /\ epoch' = epoch + 1
  /\ mapMsgs' = mapMsgs \cup {[to |-> s, epoch |-> epoch + 1] : s \in Shards}
  /\ UNCHANGED <<sent, stage, request, pool, chain, seqs, clpaData, injects, relays,
                 readyMsgs, accountMsgs, flags>>

(***************************************************************************)
(* Messages from outside the consensus.                                    *)
(***************************************************************************)

\* The map by which shard s will execute what arrives now.
NextMap(s) ==
  IF stage[s] \in {"sent", "partition"}
    THEN Updated(PartitionMap[s], Maps[Last(ModifiedMap[s])]) ELSE PartitionMap[s]
Misplaced(s, txs) == \E tx \in Range(txs) : NextMap(s)[Anchor(tx)] # s

handleInjectTx(m) ==
  /\ m.to \notin panicked
  /\ injects' = injects \ {m}
  /\ pool' = [pool EXCEPT ![m.to] = AddTxs2Pool(@, m.txs)]
  /\ late' = (late \/ Misplaced(m.to, m.txs))
  /\ UNCHANGED <<supervisor, stage, request, chain, seqs, clpaData, mapMsgs, relays,
                 readyMsgs, accountMsgs, panicked, overtaken>>

handleRelay(m) ==
  /\ m.to \notin panicked
  /\ relays' = relays \ {m}
  /\ pool' = [pool EXCEPT ![m.to] = AddTxs2Pool(@, m.txs)]
  /\ seqIDMap' = [seqIDMap EXCEPT ![m.to][m.from] = m.seq]
  /\ late' = (late \/ Misplaced(m.to, m.txs))
  /\ overtaken' = (overtaken \/ seqIDMap[m.to][m.from] > m.seq)
  /\ UNCHANGED <<supervisor, stage, request, chain, sequenceID, clpaData, mapMsgs, injects,
                 readyMsgs, accountMsgs, panicked>>

handlePartitionMsg(m) ==
  /\ m.to \notin panicked
  /\ mapMsgs' = mapMsgs \ {m}
  /\ ModifiedMap' = [ModifiedMap EXCEPT ![m.to] = Append(@, m.epoch)]
  /\ PartitionOn' = PartitionOn \cup {m.to}
  /\ UNCHANGED <<supervisor, stage, request, pool, chain, seqs, AccountTransferRound,
                 PartitionReady, ReadySeq, AccountStateTx, CollectOver, injects, relays,
                 readyMsgs, accountMsgs, flags>>

handlePartitionReady(m) ==
  /\ m.to \notin panicked
  /\ readyMsgs' = readyMsgs \ {m}
  /\ PartitionReady' = [PartitionReady EXCEPT ![m.to] = @ \cup {m.from}]
  /\ ReadySeq' = [ReadySeq EXCEPT ![m.to][m.from] = m.seq]
  /\ UNCHANGED <<supervisor, stage, request, pool, chain, seqs, PartitionOn, ModifiedMap,
                 AccountTransferRound, AccountStateTx, CollectOver, mapMsgs, injects, relays,
                 accountMsgs, flags>>

handleAccountStateAndTxMsg(m) ==
  LET collected == {c \in AccountStateTx[m.to] : c.from # m.from} \cup {m} IN
  /\ m.to \notin panicked
  /\ accountMsgs' = accountMsgs \ {m}
  /\ AccountStateTx' = [AccountStateTx EXCEPT ![m.to] = collected]
  /\ CollectOver' = IF Cardinality(collected) = Cardinality(Shards) - 1
                      THEN CollectOver \cup {m.to} ELSE CollectOver
  /\ UNCHANGED <<supervisor, stage, request, pool, chain, seqs, PartitionOn, ModifiedMap,
                 AccountTransferRound, PartitionReady, ReadySeq, mapMsgs, injects, relays,
                 readyMsgs, flags>>

(***************************************************************************)
(* HandleinPropose: a block, or the stages of a re-partition.              *)
(***************************************************************************)
GenerateBlock(s) ==
  LET body == PackTxs(pool[s], BlockSize) IN
  /\ s \notin panicked
  /\ stage[s] = "idle"
  /\ s \notin PartitionOn
  /\ sequenceID[s] < MaxSeq
  /\ stage' = [stage EXCEPT ![s] = "block"]
  /\ request' = [request EXCEPT ![s] = [kind |-> "block", body |-> body,
       state |-> GetUpdateStatusTrie(balance[s], PartitionMap[s], s, Fields(body))]]
  /\ pool' = [pool EXCEPT ![s] = AfterPack(@, BlockSize)]
  /\ UNCHANGED <<supervisor, chain, seqs, clpaData, network, flags>>

\* A shard marks itself when it tells the others.
MarkSelfForgotten(ready, s) == ready  \* mutant
MarkSelf(ready, s) == ready \cup {s}

sendPartitionReady(s) ==
  /\ s \notin panicked
  /\ stage[s] = "idle"
  /\ s \in PartitionOn
  /\ stage' = [stage EXCEPT ![s] = "ready"]
  /\ PartitionReady' = [PartitionReady EXCEPT ![s] = MarkSelf(@, s)]
  /\ readyMsgs' = readyMsgs \cup {[from |-> s, to |-> t, seq |-> sequenceID[s]] : t \in Others(s)}
  /\ UNCHANGED <<supervisor, request, pool, chain, seqs, PartitionOn, ModifiedMap,
                 AccountTransferRound, ReadySeq, AccountStateTx, CollectOver, mapMsgs, injects,
                 relays, accountMsgs, flags>>

\* All shards are ready, and the last relay of each shard that ever sent one has
\* arrived.  (A sequence number 0 stands for a missing entry.)
getPartitionReady(s) ==
  /\ PartitionReady[s] = Shards
  /\ \A t \in Others(s) : seqIDMap[s][t] # 0 => ReadySeq[s][t] - 1 = seqIDMap[s][t]

\* The accounts that move from s to t by the last map, and whether a transaction
\* goes with them.
Moving(s, t) ==
  LET map == Maps[Last(ModifiedMap[s])] IN
  {a \in DOMAIN map : map[a] = t /\ t # s /\ PartitionMap[s][a] = s}
MovesWithNotRelayed(tx, accounts) ==  \* mutant
  ~tx.relayed /\ Anchor(tx) \in accounts
MovesWith(tx, accounts) == Anchor(tx) \in accounts

\* The waiting transactions that go from s to t.
Going(s, t) == {tx \in Range(pool[s]) : MovesWith(tx, Moving(s, t))}

sendAccounts_and_Txs(s) ==
  /\ s \notin panicked
  /\ stage[s] = "ready"
  /\ getPartitionReady(s)
  /\ stage' = [stage EXCEPT ![s] = "sent"]
  /\ accountMsgs' = accountMsgs \cup
       {[from |-> s, to |-> t,
         accounts |-> [a \in Moving(s, t) |-> balance[s][a]],
         txs |-> Select(pool[s], Going(s, t))] : t \in Others(s)}
  /\ pool' = [pool EXCEPT ![s] =
       Select(@, Range(@) \ UNION {Going(s, t) : t \in Others(s)})]
  /\ UNCHANGED <<supervisor, request, chain, seqs, clpaData, mapMsgs, injects, relays,
                 readyMsgs, flags>>

\* The map that proposePartition and accountTransfer_do use: the index counts
\* from AccountTransferRound, not from the end.
RoundEpoch(s) == ModifiedMap[s][AccountTransferRound[s] + 1]

\* A Go map gives 0 for a key it does not have.
Lookup(map, a) == IF a \in DOMAIN map THEN map[a] ELSE 0

ATid(s) == Len(ModifiedMap[s])

\* ReceivedNewTx: the transactions of the messages, one message after the other.
ReceivedNewTx(order) ==
  LET upTo[i \in 0..Len(order)] == IF i = 0 THEN <<>> ELSE upTo[i - 1] \o order[i].txs
  IN  upTo[Len(order)]

\* ReceivedNewAccountState.
ReceivedNewAccountState(messages) ==
  [a \in UNION {DOMAIN m.accounts : m \in messages} |->
     (CHOOSE m \in messages : a \in DOMAIN m.accounts).accounts[a]]

\* AccountStateTx is a Go map and visited in any order.
proposePartition(s) ==
  \E order \in SetToSeqs(AccountStateTx[s]) :
    LET received == ReceivedNewTx(order)
        errorTx == \E tx \in Range(received) : Lookup(Maps[RoundEpoch(s)], Anchor(tx)) # s
    IN
    /\ s \notin panicked
    /\ stage[s] = "sent"
    /\ s \in CollectOver
    /\ IF errorTx
         THEN /\ panicked' = panicked \cup {s}
              /\ UNCHANGED <<stage, pool, request>>
         ELSE /\ stage' = [stage EXCEPT ![s] = "partition"]
              /\ pool' = [pool EXCEPT ![s] = AddTxs2Pool(@, received)]
              /\ request' = [request EXCEPT ![s] =
                   [kind |-> "partition", epoch |-> RoundEpoch(s), ATid |-> ATid(s),
                    accounts |-> ReceivedNewAccountState(AccountStateTx[s])]]
              /\ UNCHANGED panicked
    /\ UNCHANGED <<supervisor, chain, seqs, clpaData, network, late, overtaken>>

(***************************************************************************)
(* HandleinCommit.                                                         *)
(***************************************************************************)

\* The transactions of a block that are relayed from s to t.
PaidIn(s, body, t) ==
  {tx \in Range(body) : ~tx.relayed /\ PartitionMap[s][Input[tx.line].recipient] = t}
RelayTxs(s, body, t) ==
  LET part == Select(body, PaidIn(s, body, t)) IN [i \in DOMAIN part |-> Tx(part[i].line, TRUE)]

\* The transactions of a block that are relayed, and the lines whose debit was
\* skipped.
Outgoing(s, body) == UNION {PaidIn(s, body, t) : t \in Others(s)}
SkippedLines(s, body) ==
  {body[i].line : i \in Skipped(balance[s], PartitionMap[s], s, Fields(body))}

LinesOf(txs) == {tx.line : tx \in txs}

\* A block: a transaction that is not at home here is fatal after the block was
\* added and before anything is sent; otherwise every other shard gets a relay,
\* with or without transactions.
commitBlock(s) ==
  LET body == request[s].body
      incorrectTx == \E tx \in Range(body) : PartitionMap[s][Anchor(tx)] # s
      all == LinesOf(Range(body))
      relayed == LinesOf(Outgoing(s, body))
  IN
  /\ s \notin panicked
  /\ stage[s] = "block"
  /\ stage' = [stage EXCEPT ![s] = "idle"]
  /\ request' = [request EXCEPT ![s] = NoRequest]
  /\ balance' = [balance EXCEPT ![s] = request[s].state]
  /\ IF incorrectTx
       THEN /\ panicked' = panicked \cup {s}
            /\ UNCHANGED <<relays, sequenceID, transit, unbacked, finished>>
       ELSE /\ relays' = relays \cup
                 {[from |-> s, to |-> t, seq |-> sequenceID[s], txs |-> RelayTxs(s, body, t)] :
                    t \in Others(s)}
            /\ sequenceID' = [sequenceID EXCEPT ![s] = @ + 1]
            /\ transit' = (transit \ all) \cup relayed
            /\ unbacked' = unbacked \cup (SkippedLines(s, body) \cap relayed)
            /\ finished' = finished \cup (all \ relayed)
            /\ UNCHANGED panicked
  /\ UNCHANGED <<supervisor, pool, PartitionMap, seqIDMap, clpaData, mapMsgs, injects,
                 readyMsgs, accountMsgs, late, overtaken>>

\* AddAccounts: of the accounts that arrived those that live here now.
AddAccountsSkipped(st, pm, s, accounts) == st  \* mutant
AddAccounts(st, pm, s, accounts) ==
  [a \in Accounts |-> IF a \in DOMAIN accounts /\ pm[a] = s THEN accounts[a] ELSE st[a]]

\* The collected accounts after accountTransfer_do.
ClearedKept(collected) == collected  \* mutant
Cleared(collected) == {}

\* A partition request: accountTransfer_do.  No relay is sent for it, but it
\* takes a sequence number.
accountTransfer_do(s) ==
  LET atm == request[s]
      pm == Updated(PartitionMap[s], Maps[atm.epoch])
  IN
  /\ s \notin panicked
  /\ stage[s] = "partition"
  /\ stage' = [stage EXCEPT ![s] = "idle"]
  /\ request' = [request EXCEPT ![s] = NoRequest]
  /\ PartitionMap' = [PartitionMap EXCEPT ![s] = pm]
  /\ balance' = [balance EXCEPT ![s] = AddAccounts(@, pm, s, atm.accounts)]
  /\ ModifiedMap' = IF Len(ModifiedMap[s]) # atm.ATid
                      THEN [ModifiedMap EXCEPT ![s] = Append(@, atm.epoch)] ELSE ModifiedMap
  /\ AccountTransferRound' = [AccountTransferRound EXCEPT ![s] = atm.ATid]
  /\ AccountStateTx' = [AccountStateTx EXCEPT ![s] = Cleared(@)]
  /\ PartitionOn' = PartitionOn \ {s}
  /\ CollectOver' = CollectOver \ {s}
  /\ PartitionReady' = [PartitionReady EXCEPT ![s] = {}]
  /\ sequenceID' = [sequenceID EXCEPT ![s] = @ + 1]
  /\ UNCHANGED <<supervisor, pool, transit, unbacked, finished, seqIDMap, ReadySeq,
                 network, flags>>

Next ==
  \/ txSending
  \/ clpaMapSend
  \/ \E m \in injects : handleInjectTx(m)
  \/ \E m \in relays : handleRelay(m)
  \/ \E m \in mapMsgs : handlePartitionMsg(m)
  \/ \E m \in readyMsgs : handlePartitionReady(m)
  \/ \E m \in accountMsgs : handleAccountStateAndTxMsg(m)
  \/ \E s \in Shards :
       \/ GenerateBlock(s) \/ sendPartitionReady(s) \/ sendAccounts_and_Txs(s)
       \/ proposePartition(s) \/ commitBlock(s) \/ accountTransfer_do(s)

Spec == Init /\ [][Next]_vars

(***************************************************************************)
(* Propose is a loop whose waits end when their condition holds, the       *)
(* consensus finishes its rounds, and every connection is read.            *)
(***************************************************************************)
FairSpec ==
  /\ Spec
  /\ \A s \in Shards :
       /\ WF_vars(sendPartitionReady(s) \/ sendAccounts_and_Txs(s) \/ proposePartition(s))
       /\ WF_vars(commitBlock(s) \/ accountTransfer_do(s))
       /\ WF_vars(\E m \in relays : m.to = s /\ handleRelay(m))
       /\ WF_vars(\E m \in mapMsgs : m.to = s /\ handlePartitionMsg(m))
       /\ WF_vars(\E m \in readyMsgs : m.to = s /\ handlePartitionReady(m))
       /\ WF_vars(\E m \in accountMsgs : m.to = s /\ handleAccountStateAndTxMsg(m))

-----------------------------------------------------------------------------
(***************************************************************************)
(* Properties.                                                             *)
(***************************************************************************)
Txs == {Tx(l, r) : l \in Lines, r \in BOOLEAN}
AccountMessages ==
  accountMsgs \cup UNION {AccountStateTx[s] : s \in Shards}

\* The variables have the types that the Go declarations give them.
TypeOK ==
  /\ epoch \in 0..Len(Maps) /\ sent \in 0..Len(Input)
  /\ stage \in [Shards -> {"idle", "ready", "sent", "block", "partition"}]
  /\ pool \in [Shards -> Seq(Txs)]
  /\ balance \in [Shards -> [Accounts -> Int]]
  /\ PartitionMap \in [Shards -> [Accounts -> Shards]]
  /\ sequenceID \in [Shards -> Nat]
  /\ \A s \in Shards : /\ seqIDMap[s] \in [Others(s) -> Nat]
                       /\ ReadySeq[s] \in [Others(s) -> Nat]
                       /\ request[s] = NoRequest <=> stage[s] \in {"idle", "ready", "sent"}
  /\ PartitionOn \subseteq Shards /\ CollectOver \subseteq Shards /\ panicked \subseteq Shards
  /\ ModifiedMap \in [Shards -> Seq(Epochs)]
  /\ AccountTransferRound \in [Shards -> 0..epoch]
  /\ PartitionReady \in [Shards -> SUBSET Shards]
  /\ mapMsgs \subseteq [to : Shards, epoch : Epochs]
  /\ injects \subseteq [to : Shards, txs : Seq(Txs)]
  /\ relays \subseteq [from : Shards, to : Shards, seq : Nat, txs : Seq(Txs)]
  /\ readyMsgs \subseteq [from : Shards, to : Shards, seq : Nat]
  /\ \A m \in AccountMessages :
       /\ m.from \in Shards /\ m.to \in Shards /\ m.txs \in Seq(Txs)
       /\ DOMAIN m.accounts \subseteq Accounts /\ m.accounts \in [DOMAIN m.accounts -> Int]
  /\ transit \subseteq Lines /\ unbacked \subseteq Lines /\ finished \subseteq Lines
  /\ late \in BOOLEAN /\ overtaken \in BOOLEAN

Values == [l \in Lines |-> Input[l].value]

\* Between re-partitions all shards agree who owns which account, and the
\* balances at the owners plus what is relayed and not credited yet add up to
\* what there was at the beginning and what relays with a skipped debit create:
\* moving accounts loses no block's effect and makes no value.
ValueConserved ==
  Settled /\ panicked = {} =>
    LET pm == UpdatedUpTo(Addr2Shard, epoch) IN
    /\ \A s \in Shards : PartitionMap[s] = pm
    /\ SumFunctionOnSet([a \in Accounts |-> balance[pm[a]][a]], Accounts)
         + SumFunctionOnSet(Values, transit)
       = Cardinality(Accounts) * Init_Balance + SumFunctionOnSet(Values, unbacked)

\* The state of an account under way to its new shard is its current state: no
\* block of the old shard changes it after FetchAccounts.
TransferredStateCurrent ==
  \A m \in AccountMessages :
    \A a \in DOMAIN m.accounts : m.accounts[a] = balance[m.from][a]

\* The transactions a shard has in its pool and in its block, the messages whose
\* transactions are in no pool yet, and all these transactions.
Held(s) == pool[s] \o (IF stage[s] = "block" THEN request[s].body ELSE <<>>)
Pending ==
  injects \cup relays \cup accountMsgs
    \cup UNION {AccountStateTx[s] : s \in {t \in Shards : stage[t] # "partition"}}
Somewhere ==
  (UNION {Range(Held(s)) : s \in Shards}) \cup (UNION {Range(m.txs) : m \in Pending})

\* No transaction is twice in a shard or a message, or in two of them.
OneCopy ==
  /\ \A s \in Shards :
       /\ IsInjective(Held(s))
       /\ \A t \in Others(s) : Range(Held(s)) \cap Range(Held(t)) = {}
  /\ \A m \in Pending :
       /\ IsInjective(m.txs)
       /\ \A n \in Pending \ {m} : Range(m.txs) \cap Range(n.txs) = {}
       /\ \A s \in Shards : Range(m.txs) \cap Range(Held(s)) = {}

\* A transaction that was injected is in exactly one place until it is finished,
\* through pools, relays and the transfer of pools between shards, and it is marked
\* as relayed exactly when its first half was executed.
NoTxLostOrDoubled ==
  /\ TypeOK
  /\ panicked = {} =>
       OneCopy /\ Somewhere = {Tx(l, l \in transit) : l \in (1..sent) \ finished}

\* HandleinCommit and proposePartition panic over a misplaced transaction only
\* when one arrived that was sent under another map than the one it met: the
\* exchange of pools itself leaves none behind.
OnlyLateTxPanics == panicked # {} => late

\* A re-partition ends in every shard, unless relays of a shard overtake each
\* other (or a main node panics): equality of sequence numbers is enough to wait
\* for the last relay, and the accounts of all shards arrive.
RepartitionEnds ==
  \A s \in Shards : s \in PartitionOn ~> (s \notin PartitionOn \/ overtaken \/ panicked # {})
=============================================================================
