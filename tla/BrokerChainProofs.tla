-------------------------- MODULE BrokerChainProofs --------------------------
(***************************************************************************)
(* Proofs about BrokerChain, for every input file, every partition of the  *)
(* accounts, all sets of brokers, block sizes and losses: the halves of a  *)
(* transfer are issued and executed once and in order, what the supervisor *)
(* holds for confirmed was executed, and the balances of clients are what  *)
(* the executed transactions give them.                                    *)
(***************************************************************************)
EXTENDS BrokerChain, LedgerTheorems

\* Transactions are and go only where txSending sends them.
Routed ==
  /\ \A s \in Shards : \A tx \in Range(Held(s)) : SendShard(tx) = s
  /\ \A m \in injects : SendShard(m.tx) = m.to

\* A transaction exists only after the supervisor issued it: a transfer as it is
\* when it needs no broker, the halves of those that do.
Issued ==
  \A tx \in Somewhere :
    /\ tx.line <= line
    /\ tx.half = "raw" => ~NeedsBroker(tx.line)
    /\ tx.half = "tx1" => tx.line \in brokerConfirm1Pool
    /\ tx.half = "tx2" => tx.line \in brokerConfirm2Pool

\* What the supervisor knows of the transfers it has split.
Split ==
  /\ BrokerRawMegs = brokerConfirm1Pool
  /\ brokerConfirm2Pool \subseteq brokerConfirm1Pool
  /\ \A l \in brokerConfirm1Pool : l <= line /\ NeedsBroker(l)
  /\ \A l \in brokerConfirm2Pool : Executed(Tx(l, "tx1"), SenderShard(l))

Placed == TypeOK /\ Routed /\ Issued /\ Split /\ OneCopy

\* What is confirmed: nothing before the first half, and the second after it.
Confirmations ==
  \A l \in Lines :
    IF l \in brokerConfirm2Pool
      THEN \/ RawTx2BrokerTx[l] = <<"tx1">>
           \/ RawTx2BrokerTx[l] = <<"tx1", "tx2">> /\ Executed(Tx(l, "tx2"), RecipientShard(l))
      ELSE RawTx2BrokerTx[l] = <<>>

\* A report under way is about halves that were executed and that the supervisor has
\* not heard of, from this report or another.
Reported ==
  \A r \in reports :
    /\ \A tx \in r.broker1Txs : Executed(tx, SenderShard(tx.line)) /\ RawTx2BrokerTx[tx.line] = <<>>
    /\ \A tx \in r.broker2Txs :
         Executed(tx, RecipientShard(tx.line)) /\ RawTx2BrokerTx[tx.line] = <<"tx1">>
    /\ \A q \in reports \ {r} :
         r.broker1Txs \cap q.broker1Txs = {} /\ r.broker2Txs \cap q.broker2Txs = {}

AllExecuted == UNION {Range(blocks[s]) : s \in Shards}

SkippedExecuted == skipped \subseteq AllExecuted

IInv == Placed /\ Confirmations /\ Reported /\ SkippedExecuted /\ ClientBalances

-----------------------------------------------------------------------------
(***************************************************************************)
(* Types.                                                                  *)
(***************************************************************************)

\* A transaction is known by its line and by which half it is.
LEMMA TxsType ==
  /\ \A l \in Lines, h \in {"raw", "tx1", "tx2"} :
       Tx(l, h) \in Txs /\ Tx(l, h).line = l /\ Tx(l, h).half = h
  /\ \A tx \in Txs : /\ tx.line \in Lines /\ tx.half \in {"raw", "tx1", "tx2"}
                     /\ tx = Tx(tx.line, tx.half)
<1>1. \A l, h : Tx(l, h).line = l /\ Tx(l, h).half = h
  BY DEF Tx
<1>2. \A l \in Lines, h \in {"raw", "tx1", "tx2"} : Tx(l, h) \in Txs
  BY DEF Txs
<1>3. ASSUME NEW tx \in Txs
      PROVE  /\ tx.line \in Lines /\ tx.half \in {"raw", "tx1", "tx2"}
             /\ tx = Tx(tx.line, tx.half)
  <2>1. PICK l \in Lines : \E h \in {"raw", "tx1", "tx2"} : tx = Tx(l, h)
    BY DEF Txs
  <2>2. PICK h \in {"raw", "tx1", "tx2"} : tx = Tx(l, h)
    BY <2>1
  <2>3. tx.line = l /\ tx.half = h
    BY <1>1, <2>2
  <2> QED  BY <2>2, <2>3
<1> QED  BY <1>1, <1>2, <1>3

\* What a line of the input file says.
LEMMA InputType ==
  /\ Lines = 1..Len(Input) /\ Len(Input) \in Nat
  /\ \A l \in Lines : /\ Input[l].sender \in Accounts /\ Input[l].recipient \in Accounts
                      /\ Input[l].value \in Nat
                      /\ SenderShard(l) \in Shards /\ RecipientShard(l) \in Shards
<1>1. Lines = 1..Len(Input) /\ Len(Input) \in Nat
  BY BrokerAssumption, LenProperties DEF Lines
<1>2. \A l \in Lines : Input[l] \in [sender : Accounts, recipient : Accounts, value : Nat]
  BY <1>1, BrokerAssumption, ElementOfSeq
<1> QED  BY <1>1, <1>2, BrokerAssumption DEF SenderShard, RecipientShard

\* The ends of a transaction, and the shard it is sent to.
LEMMA EndsType ==
  /\ Broker0 \in Accounts /\ Addr2Shard[Broker0] \in Shards
  /\ \A tx \in Txs : /\ Sender(tx) \in Accounts /\ Recipient(tx) \in Accounts
                     /\ HasBroker(tx) \in BOOLEAN /\ SendShard(tx) \in Shards
<1>1. Broker0 \in Accounts /\ Addr2Shard \in [Accounts -> Shards]
  BY BrokerAssumption
<1>2. \A tx \in Txs : Sender(tx) \in Accounts /\ Recipient(tx) \in Accounts
  BY <1>1, TxsType, InputType DEF Sender, Recipient
<1>3. \A tx \in Txs : HasBroker(tx) \in BOOLEAN
  BY DEF HasBroker
<1> QED  BY <1>1, <1>2, <1>3 DEF SendShard

\* What the state transition reads of a transaction.
Field(tx) ==
  [sender |-> Sender(tx), recipient |-> Recipient(tx), value |-> Input[tx.line].value,
   relayed |-> FALSE, hasBroker |-> HasBroker(tx)]

\* What the state transition reads of a block.
LEMMA FieldsType ==
  ASSUME NEW body \in Seq(Txs)
  PROVE  /\ Fields(body) \in Seq(TxOver(Accounts)) /\ Len(Fields(body)) = Len(body)
         /\ DOMAIN Fields(body) = 1..Len(body)
         /\ \A i \in 1..Len(body) : Fields(body)[i] = Field(body[i])
<1>1. Len(body) \in Nat /\ DOMAIN body = 1..Len(body) /\ \A i \in 1..Len(body) : body[i] \in Txs
  BY LenProperties, ElementOfSeq
<1>2. \A i \in 1..Len(body) : Field(body[i]) \in TxOver(Accounts)
  BY <1>1, TxsType, InputType, EndsType DEF TxOver, Field
<1>3. Fields(body) = [i \in 1..Len(body) |-> Field(body[i])]
  BY <1>1 DEF Fields, Field
<1>4. [i \in 1..Len(body) |-> Field(body[i])] \in Seq(TxOver(Accounts))
  BY <1>1, <1>2
<1>5. /\ Len(Fields(body)) = Len(body) /\ DOMAIN Fields(body) = 1..Len(body)
      /\ \A i \in 1..Len(body) : Fields(body)[i] = Field(body[i])
  BY <1>1, <1>3
<1> QED  BY <1>3, <1>4, <1>5

\* A block leaves balances.
LEMMA StateType ==
  ASSUME NEW st \in Balances, NEW s, NEW body \in Seq(Txs)
  PROVE  GetUpdateStatusTrie(st, Addr2Shard, s, Fields(body)) \in Balances
<1>1. PICK B, b, n, txs : B = Balances /\ b = st /\ n = Len(body) /\ txs = Fields(body)
  OBVIOUS
<1>2. \A i \in 1..Len(body) : txs[i] \in TxOver(Accounts)
  BY <1>1, FieldsType, ElementOfSeq
<1>3. \A c \in Balances : \A i \in 1..Len(body) : Apply(c, Addr2Shard, s, txs[i]) \in Balances
  BY <1>2, ApplyType DEF Balances
<1>4. n \in Nat /\ b \in B /\ Keep(B, Addr2Shard, s, txs, n)
  BY <1>1, <1>3, FieldsType, LenProperties DEF Keep
<1>5. GetUpdateStatusTrie(b, Addr2Shard, s, txs) \in B
  BY <1>4, TriesSteps
<1> QED  BY <1>1, <1>5

\* What a shard holds is a sequence of transactions.
LEMMA HeldType ==
  ASSUME TypeOK, NEW s \in Shards
  PROVE  /\ blocks[s] \in Seq(Txs) /\ proposal[s] \in Seq(Txs) /\ pool[s] \in Seq(Txs)
         /\ Held(s) \in Seq(Txs)
         /\ Range(Held(s)) = Range(blocks[s]) \cup Range(proposal[s]) \cup Range(pool[s])
         /\ \A tx \in Range(Held(s)) : tx \in Txs
<1>1. blocks[s] \in Seq(Txs) /\ proposal[s] \in Seq(Txs) /\ pool[s] \in Seq(Txs)
  BY DEF TypeOK
<1>2. PICK p \in Seq(Txs), q \in Seq(Txs), r \in Seq(Txs) :
        p = blocks[s] /\ q = proposal[s] /\ r = pool[s]
  BY <1>1
<1>3. p \o q \in Seq(Txs) /\ Range(p \o q) = Range(p) \cup Range(q)
  BY ConcatRange
<1>4. PICK u \in Seq(Txs) : u = p \o q
  BY <1>3
<1>5. u \o r \in Seq(Txs) /\ Range(u \o r) = Range(u) \cup Range(r)
  BY ConcatRange
<1>6. Held(s) = u \o r
  BY <1>2, <1>4 DEF Held
<1>7. \A h \in Seq(Txs) : \A tx \in Range(h) : tx \in Txs
  BY RangeOfSeq
<1> QED  BY <1>1, <1>2, <1>3, <1>4, <1>5, <1>6, <1>7

\* A transaction is somewhere when a shard holds it or a message carries it.
LEMMA SomewhereIs ==
  \A tx : tx \in Somewhere <=> \/ \E s \in Shards : tx \in Range(Held(s))
                               \/ \E m \in injects : tx = m.tx
BY DEF Somewhere

\* Only transactions are anywhere.
LEMMA SomewhereType ==
  ASSUME TypeOK
  PROVE  \A tx \in Somewhere : tx \in Txs
<1>1. \A m \in injects : m.tx \in Txs
  BY DEF TypeOK
<1>2. \A s \in Shards : \A tx \in Range(Held(s)) : tx \in Txs
  BY HeldType
<1> QED  BY <1>1, <1>2, SomewhereIs

\* The classes of a report are those of the halves.
LEMMA Classes ==
  ASSUME Placed, NEW s \in Shards, NEW tx \in Range(Held(s))
  PROVE  /\ tx \in Txs
         /\ tx.half = "tx1" => NeedsBroker(tx.line)
         /\ tx.half = "tx2" => NeedsBroker(tx.line)
         /\ isBroker1Tx(tx) <=> tx.half = "tx1"
         /\ isBroker2Tx(tx) <=> tx.half = "tx2"
<1>0. TypeOK /\ Issued /\ Split
  BY DEF Placed
<1>1. tx \in Txs /\ tx \in Somewhere
  BY <1>0, HeldType, SomewhereIs
<1>2. /\ tx.half = "tx1" => NeedsBroker(tx.line)
      /\ tx.half = "tx2" => NeedsBroker(tx.line)
  BY <1>0, <1>1 DEF Issued, Split
<1>3. tx.half \in {"raw", "tx1", "tx2"}
  BY <1>1, TxsType
<1>4. CASE tx.half = "raw"
  BY <1>1, <1>2, <1>4 DEF isBroker1Tx, isBroker2Tx
<1>5. CASE tx.half = "tx2"
  <2>1. isBroker2Tx(tx)
    BY <1>5 DEF isBroker2Tx, Recipient
  <2> QED  BY <1>1, <1>2, <1>5, <2>1 DEF isBroker1Tx
<1>6. CASE tx.half = "tx1"
  <2>1. NeedsBroker(tx.line) /\ Broker0 \in Brokers
    BY <1>2, <1>6, BrokerAssumption
  <2>2. Recipient(tx) = Broker0 /\ Sender(tx) = Input[tx.line].sender
    BY <1>6 DEF Recipient, Sender
  <2>3. ~isBroker2Tx(tx)
    BY <2>1, <2>2 DEF isBroker2Tx, NeedsBroker, IsBroker
  <2>4. isBroker1Tx(tx)
    BY <1>6, <2>2, <2>3 DEF isBroker1Tx
  <2> QED  BY <1>1, <1>2, <1>6, <2>3, <2>4
<1> QED  BY <1>3, <1>4, <1>5, <1>6

\* The report of a block.
ReportOf(s, n, body) ==
  [from |-> s, number |-> n,
   broker1Txs |-> {tx \in Range(body) : isBroker1Tx(tx)},
   broker2Txs |-> {tx \in Range(body) : isBroker2Tx(tx)}]

\* What a report says: the first and the second halves in its block.
LEMMA ReportType ==
  ASSUME Placed, NEW s \in Shards, NEW body \in Seq(Txs), body = proposal[s], NEW n \in Nat
  PROVE  /\ ReportOf(s, n, body) \in Reports
         /\ ReportOf(s, n, body).broker1Txs = {tx \in Range(body) : tx.half = "tx1"}
         /\ ReportOf(s, n, body).broker2Txs = {tx \in Range(body) : tx.half = "tx2"}
<1>1. \A tx \in Range(body) : /\ tx \in Txs /\ (isBroker1Tx(tx) <=> tx.half = "tx1")
                              /\ (isBroker2Tx(tx) <=> tx.half = "tx2")
  <2>1. Range(body) \subseteq Range(Held(s))
    BY HeldType DEF Placed
  <2> QED  BY <2>1, Classes
<1> QED  BY <1>1 DEF ReportOf, Reports

\* The type invariant is inductive.
LEMMA TypeInit == Init => TypeOK
<1> SUFFICES ASSUME Init PROVE TypeOK
  OBVIOUS
<1>1. /\ <<>> \in Seq(Txs) /\ <<>> \in Seq({"tx1", "tx2"})
      /\ Init_Balance \in Int /\ MaxLoss \in Nat /\ Len(Input) \in Nat
  BY BrokerAssumption, InputType
<1>2. [a \in Accounts |-> Init_Balance] \in Balances
  BY <1>1 DEF Balances
<1> QED  BY <1>1, <1>2 DEF Init, TypeOK

\* What the supervisor sends goes to a shard.
LEMMA SendingType ==
  ASSUME TypeOK, NEW T \in SUBSET Txs
  PROVE  txSending(T) \subseteq [to : Shards, tx : Txs]
BY EndsType DEF txSending, TypeOK

\* Every step keeps the types.
LEMMA TypeStep == Placed /\ [Next]_vars => TypeOK'
<1> SUFFICES ASSUME Placed, [Next]_vars PROVE TypeOK'
  OBVIOUS
<1>0. TypeOK /\ BlockSize \in Nat /\ MaxLoss \in Nat
  BY BrokerAssumption DEF Placed
<1>1. CASE TxHandling
  <2>1. line + 1 \in Lines /\ line' = line + 1 /\ line' \in 0..Len(Input)
    BY <1>0, <1>1, InputType DEF TxHandling, TypeOK
  <2>2. PICK l \in Lines : l = line + 1
    BY <2>1
  <2>3. Tx(l, "tx1") \in Txs /\ Tx(l, "raw") \in Txs
    BY TxsType
  <2>4. PICK A, B : A = {Tx(l, "tx1")} /\ B = {Tx(l, "raw")}
    OBVIOUS
  <2>5. txSending(A) \subseteq [to : Shards, tx : Txs] /\ txSending(B) \subseteq [to : Shards, tx : Txs]
    BY <1>0, <2>3, <2>4, SendingType
  <2>6. /\ injects' \subseteq [to : Shards, tx : Txs]
        /\ BrokerRawMegs' \subseteq Lines /\ brokerConfirm1Pool' \subseteq Lines
    BY <1>0, <1>1, <2>2, <2>4, <2>5 DEF TxHandling, dealTxByBroker, handleBrokerRawMag, TypeOK
  <2> QED  BY <1>0, <1>1, <2>1, <2>6 DEF TxHandling, TypeOK, shards
<1>2. ASSUME NEW r \in reports, handleBlockInfos(r) PROVE TypeOK'
  <2>1. PICK c1 \in SUBSET Lines : c1 = {l \in Confirmed1(r) : l \in BrokerRawMegs}
    BY <1>0 DEF Confirmed1, TypeOK
  <2>2. PICK c2 \in SUBSET Lines : c2 = Confirmed2(r)
    BY <1>0 DEF Confirmed2, TypeOK
  <2>3. /\ reports' = reports \ {r}
        /\ RawTx2BrokerTx' = [l \in Lines |->
             LET one == IF l \in c1 THEN Append(RawTx2BrokerTx[l], "tx1") ELSE RawTx2BrokerTx[l]
             IN  IF l \in c2 THEN Append(one, "tx2") ELSE one]
        /\ brokerConfirm2Pool' = brokerConfirm2Pool \cup c1
        /\ injects' = txSending({Tx(l, "tx2") : l \in c1})
        /\ UNCHANGED <<line, BrokerRawMegs, brokerConfirm1Pool, shards, lost>>
    BY <1>2, <2>1, <2>2 DEF handleBlockInfos
  <2>4. RawTx2BrokerTx' \in [Lines -> Seq({"tx1", "tx2"})]
    <3>1. \A q \in Seq({"tx1", "tx2"}) :
            Append(q, "tx1") \in Seq({"tx1", "tx2"}) /\ Append(q, "tx2") \in Seq({"tx1", "tx2"})
      OBVIOUS
    <3> QED  BY <1>0, <2>3, <3>1 DEF TypeOK
  <2>5. injects' \subseteq [to : Shards, tx : Txs]
    <3>1. PICK T : T = {Tx(l, "tx2") : l \in c1}
      OBVIOUS
    <3>2. T \in SUBSET Txs
      BY <3>1, TxsType
    <3> QED  BY <1>0, <2>3, <3>1, <3>2, SendingType
  <2> QED  BY <1>0, <2>3, <2>4, <2>5 DEF TypeOK, shards
<1>3. ASSUME NEW m \in injects, handleInjectTx(m) PROVE TypeOK'
  <2>1. PICK t \in Shards, x \in Txs : t = m.to /\ x = m.tx
    BY <1>0 DEF TypeOK
  <2>2. pool[t] \o <<x>> \in Seq(Txs)
    BY <1>0 DEF TypeOK
  <2>3. pool' \in [Shards -> Seq(Txs)]
    BY <1>0, <1>3, <2>1, <2>2 DEF handleInjectTx, TypeOK, AddTxs2Pool
  <2> QED  BY <1>0, <1>3, <2>3 DEF handleInjectTx, TypeOK, supervisor
<1>4. ASSUME NEW s \in Shards, HandleinPropose(s) PROVE TypeOK'
  <2>1. PackTxs(pool[s], BlockSize) \in Seq(Txs) /\ AfterPack(pool[s], BlockSize) \in Seq(Txs)
    BY <1>0, PackSplits DEF TypeOK
  <2>2. proposal' \in [Shards -> Seq(Txs)] /\ pool' \in [Shards -> Seq(Txs)]
    BY <1>0, <1>4, <2>1 DEF HandleinPropose, TypeOK
  <2> QED  BY <1>0, <1>4, <2>2 DEF HandleinPropose, TypeOK, supervisor
<1>5. ASSUME NEW s \in Shards, HandleinCommit(s) PROVE TypeOK'
  <2>1. PICK body \in Seq(Txs), b \in Balances : body = proposal[s] /\ b = balance[s]
    BY <1>0 DEF TypeOK
  <2>2. PICK n : n = Len(blocks'[s])
    OBVIOUS
  <2>3. blocks' = [blocks EXCEPT ![s] = blocks[s] \o body]
    BY <1>5, <2>1 DEF HandleinCommit
  <2>4. blocks[s] \o body \in Seq(Txs)
    BY <1>0, ConcatProperties DEF TypeOK
  <2>5. blocks' \in [Shards -> Seq(Txs)] /\ n \in Nat
    BY <1>0, <2>2, <2>3, <2>4, LenProperties DEF TypeOK
  <2>6. balance' \in [Shards -> Balances]
    <3>1. GetUpdateStatusTrie(b, Addr2Shard, s, Fields(body)) \in Balances
      BY StateType
    <3>2. balance' = [balance EXCEPT ![s] = GetUpdateStatusTrie(b, Addr2Shard, s, Fields(body))]
      BY <1>5, <2>1 DEF HandleinCommit
    <3> QED  BY <1>0, <3>1, <3>2 DEF TypeOK
  <2>7. skipped' \subseteq Txs
    <3>1. \A i \in Skipped(b, Addr2Shard, s, Fields(body)) : i \in 1..Len(body)
      BY FieldsType DEF Skipped
    <3>2. \A i \in Skipped(b, Addr2Shard, s, Fields(body)) : body[i] \in Txs
      BY <3>1, ElementOfSeq
    <3>3. skipped' = skipped \cup {body[i] : i \in Skipped(b, Addr2Shard, s, Fields(body))}
      BY <1>5, <2>1 DEF HandleinCommit
    <3> QED  BY <1>0, <3>2, <3>3 DEF TypeOK
  <2>8. proposal' \in [Shards -> Seq(Txs)]
    BY <1>0, <1>5 DEF HandleinCommit, TypeOK
  <2>9. PICK q : q = ReportOf(s, n, body)
    OBVIOUS
  <2>10. reports' = reports \cup {q}
    BY <1>5, <2>1, <2>2, <2>9 DEF HandleinCommit, ReportOf
  <2>11. /\ q \in Reports /\ q.broker1Txs = {tx \in Range(body) : tx.half = "tx1"}
         /\ q.broker2Txs = {tx \in Range(body) : tx.half = "tx2"}
    BY <2>1, <2>5, <2>9, ReportType
  <2>12. /\ reports' \subseteq Reports
         /\ \A r \in reports' : /\ \A tx \in r.broker1Txs : tx.half = "tx1"
                                /\ \A tx \in r.broker2Txs : tx.half = "tx2"
    BY <1>0, <2>10, <2>11 DEF TypeOK
  <2> QED  BY <1>0, <1>5, <2>5, <2>6, <2>7, <2>8, <2>12 DEF HandleinCommit, TypeOK, supervisor
<1>6. CASE TcpDialFails
  <2>1. lost' \in 0..MaxLoss
    BY <1>0, <1>6 DEF TcpDialFails, TypeOK
  <2>2. injects' \subseteq injects /\ reports' \subseteq reports
    BY <1>6 DEF TcpDialFails
  <2> QED  BY <1>0, <1>6, <2>1, <2>2 DEF TcpDialFails, TypeOK, supervisor, shards
<1>7. CASE UNCHANGED vars
  BY <1>0, <1>7 DEF vars, TypeOK, supervisor, shards
<1> QED
  BY <1>1, <1>2, <1>3, <1>4, <1>5, <1>6, <1>7 DEF Next

-----------------------------------------------------------------------------
(***************************************************************************)
(* Where the transactions are.                                             *)
(***************************************************************************)

\* The block in consensus repeats nothing, and nothing of it was executed.
LEMMA HeldParts ==
  ASSUME TypeOK, NEW s \in Shards, IsInjective(Held(s))
  PROVE  /\ IsInjective(proposal[s])
         /\ Range(blocks[s]) \cap Range(proposal[s]) = {}
<1>1. PICK p \in Seq(Txs), q \in Seq(Txs), r \in Seq(Txs) :
        p = blocks[s] /\ q = proposal[s] /\ r = pool[s]
  BY HeldType
<1>2. PICK u \in Seq(Txs) : u = p \o q
  BY ConcatRange
<1>3. Held(s) = u \o r
  BY <1>1, <1>2 DEF Held
<1>4. IsInjective(u)
  BY <1>3, ConcatInjective
<1>5. IsInjective(p) /\ IsInjective(q) /\ Range(p) \cap Range(q) = {}
  BY <1>2, <1>4, ConcatInjective
<1> QED  BY <1>1, <1>5

\* First halves are executed in the sender's shard, second ones in the recipient's.
LEMMA HalfShard ==
  ASSUME NEW tx \in Txs
  PROVE  /\ tx.half = "tx1" /\ NeedsBroker(tx.line) => SendShard(tx) = SenderShard(tx.line)
         /\ tx.half = "tx2" => SendShard(tx) = RecipientShard(tx.line)
<1>1. ASSUME tx.half = "tx1", NeedsBroker(tx.line) PROVE SendShard(tx) = SenderShard(tx.line)
  <2>1. Sender(tx) = Input[tx.line].sender
    BY <1>1 DEF Sender
  <2> QED  BY <1>1, <2>1 DEF SendShard, NeedsBroker, SenderShard
<1>2. ASSUME tx.half = "tx2" PROVE SendShard(tx) = RecipientShard(tx.line)
  <2>1. Sender(tx) = Broker0 /\ Recipient(tx) = Input[tx.line].recipient /\ IsBroker(Broker0)
    BY <1>2, BrokerAssumption DEF Sender, Recipient, IsBroker
  <2> QED  BY <2>1 DEF SendShard, RecipientShard
<1> QED  BY <1>1, <1>2

\* What was executed stays executed.
LEMMA ExecutedStays ==
  ASSUME \A s \in Shards : Range(blocks[s]) \subseteq Range(blocks'[s]), NEW l \in Lines, NEW tx
  PROVE  /\ Executed(tx, SenderShard(l)) => Executed(tx, SenderShard(l))'
         /\ Executed(tx, RecipientShard(l)) => Executed(tx, RecipientShard(l))'
BY InputType DEF Executed, SenderShard, RecipientShard

\* Nothing new anywhere: what a shard executes was in its block, and messages are
\* only lost.
LEMMA Unmoved ==
  ASSUME Placed, TypeOK', injects' \subseteq injects,
         UNCHANGED <<line, BrokerRawMegs, brokerConfirm1Pool, brokerConfirm2Pool>>,
         \A s \in Shards : Held(s)' = Held(s) /\ Range(blocks[s]) \subseteq Range(blocks'[s])
  PROVE  Placed'
<1>0. TypeOK /\ Routed /\ Issued /\ Split /\ OneCopy
  BY DEF Placed
<1>1. \A tx : tx \in Somewhere' => tx \in Somewhere
  BY SomewhereIs DEF Somewhere
<1>2. Routed'
  BY <1>0 DEF Routed, SendShard, Sender, Recipient, IsBroker
<1>3. Issued'
  BY <1>0, <1>1 DEF Issued, NeedsBroker, IsBroker
<1>4. OneCopy'
  BY <1>0 DEF OneCopy
<1>5. Split'
  <2>1. \A l \in brokerConfirm2Pool :
          l \in Lines /\ Executed(Tx(l, "tx1"), SenderShard(l))
    BY <1>0 DEF Split, TypeOK
  <2>2. \A l \in brokerConfirm2Pool : Executed(Tx(l, "tx1"), SenderShard(l))'
    BY <2>1, ExecutedStays
  <2> QED  BY <1>0, <2>2 DEF Split, NeedsBroker, IsBroker, Tx
<1> QED  BY <1>2, <1>3, <1>4, <1>5 DEF Placed

\* A message arrives: its transaction moves to the pool of the shard.
LEMMA Delivered ==
  ASSUME Placed, TypeOK', NEW m \in injects, handleInjectTx(m)
  PROVE  Placed'
<1>0. TypeOK /\ Routed /\ Issued /\ Split /\ OneCopy
  BY DEF Placed
<1>1. PICK t \in Shards, x \in Txs : t = m.to /\ x = m.tx
  BY <1>0 DEF TypeOK
<1>2. PICK q \in Seq(Txs) : q = <<x>> /\ Range(q) = {x} /\ IsInjective(q)
  <2>1. <<x>> \in Seq(Txs) /\ DOMAIN <<x>> = {1} /\ <<x>>[1] = x
    OBVIOUS
  <2>2. Range(<<x>>) = {x} /\ IsInjective(<<x>>)
    BY <2>1 DEF Range, IsInjective
  <2> QED  BY <2>1, <2>2
<1>3. /\ injects' = injects \ {m} /\ pool' = [pool EXCEPT ![t] = pool[t] \o q]
      /\ UNCHANGED <<supervisor, proposal, blocks>>
  BY <1>1, <1>2 DEF handleInjectTx, AddTxs2Pool
<1>4. \A s \in Shards \ {t} : Held(s)' = Held(s)
  BY <1>0, <1>3 DEF Held, TypeOK
<1>5. PICK h \in Seq(Txs) : h = Held(t)
  BY <1>0, HeldType
<1>6. Held(t)' = h \o q
  <2>1. PICK a \in Seq(Txs), c \in Seq(Txs) : a = blocks[t] \o proposal[t] /\ c = pool[t]
    <3>1. blocks[t] \in Seq(Txs) /\ proposal[t] \in Seq(Txs) /\ pool[t] \in Seq(Txs)
      BY <1>0, HeldType
    <3> QED  BY <3>1, ConcatProperties
  <2>2. pool'[t] = c \o q
    BY <1>0, <1>3, <2>1 DEF TypeOK
  <2>3. h = a \o c /\ Held(t)' = a \o (c \o q)
    BY <1>3, <1>5, <2>1, <2>2 DEF Held
  <2>4. (a \o c) \o q = a \o (c \o q)
    BY ConcatAssociative
  <2> QED  BY <2>3, <2>4
<1>7. /\ Range(h \o q) = Range(h) \cup Range(q)
      /\ IsInjective(h \o q) <=> IsInjective(h) /\ IsInjective(q) /\ Range(h) \cap Range(q) = {}
  BY ConcatRange, ConcatInjective
<1>8. \A s \in Shards : \A tx \in Range(Held(s)') : tx \in Range(Held(s)) \/ (s = t /\ tx = x)
  BY <1>2, <1>4, <1>5, <1>6, <1>7
<1>9. ASSUME NEW tx, tx \in Somewhere' PROVE tx \in Somewhere
  <2>1. \/ \E s \in Shards : tx \in Range(Held(s)')
        \/ \E n \in injects' : tx = n.tx
    BY <1>9 DEF Somewhere
  <2>2. x \in Somewhere
    BY <1>1, SomewhereIs
  <2> QED  BY <1>3, <1>8, <2>1, <2>2, SomewhereIs
<1>10. Routed'
  <2>1. \A s \in Shards : \A tx \in Range(Held(s)') : SendShard(tx) = s
    BY <1>0, <1>1, <1>8 DEF Routed
  <2>2. \A n \in injects' : SendShard(n.tx) = n.to
    BY <1>0, <1>3 DEF Routed
  <2> QED  BY <2>1, <2>2 DEF Routed, SendShard, Sender, Recipient, IsBroker
<1>11. OneCopy'
  <2>1. IsInjective(Held(t)')
    <3>1. Range(h) \cap Range(q) = {} /\ IsInjective(h)
      BY <1>0, <1>1, <1>2, <1>5 DEF OneCopy
    <3> QED  BY <1>2, <1>6, <1>7, <3>1
  <2>2. \A s \in Shards : IsInjective(Held(s)')
    BY <1>0, <1>4, <2>1 DEF OneCopy
  <2>3. \A s \in Shards : \A u \in Shards \ {s} : Range(Held(s)') \cap Range(Held(u)') = {}
    BY <1>10 DEF Routed, SendShard, Sender, Recipient, IsBroker
  <2>4. ASSUME NEW n \in injects'
        PROVE  /\ \A k \in injects' \ {n} : k.tx # n.tx
               /\ \A s \in Shards : n.tx \notin Range(Held(s)')
    <3>1. n \in injects /\ n # m
      BY <1>3
    <3>2. n.tx # x /\ \A s \in Shards : n.tx \notin Range(Held(s))
      BY <1>0, <1>1, <3>1 DEF OneCopy
    <3> QED  BY <1>0, <1>3, <1>8, <3>1, <3>2 DEF OneCopy
  <2> QED  BY <2>2, <2>3, <2>4 DEF OneCopy
<1>12. Issued' /\ Split'
  BY <1>0, <1>3, <1>9 DEF Issued, Split, supervisor, NeedsBroker, IsBroker, Executed, SenderShard, Tx
<1> QED  BY <1>10, <1>11, <1>12 DEF Placed

\* The supervisor sends transactions that were nowhere before.
LEMMA Sent ==
  ASSUME Placed, NEW T \in SUBSET Txs, T \cap Somewhere = {}, injects' = txSending(T),
         UNCHANGED <<pool, proposal, blocks>>
  PROVE  /\ Routed' /\ OneCopy'
         /\ \A tx : tx \in Somewhere' => tx \in Somewhere \/ tx \in T
<1>0. TypeOK /\ Routed /\ OneCopy
  BY DEF Placed
<1>1. \A s \in Shards : Held(s)' = Held(s)
  BY DEF Held
<1>2. \A n \in injects' : n \in injects \/ (n.tx \in T /\ n.to = SendShard(n.tx)
                                           /\ n = [to |-> SendShard(n.tx), tx |-> n.tx])
  BY DEF txSending
<1>3. \A tx : tx \in Somewhere' => tx \in Somewhere \/ tx \in T
  <2>1. SUFFICES ASSUME NEW tx, tx \in Somewhere' PROVE tx \in Somewhere \/ tx \in T
    OBVIOUS
  <2>2. \/ \E s \in Shards : tx \in Range(Held(s)')
        \/ \E n \in injects' : tx = n.tx
    BY <2>1 DEF Somewhere
  <2> QED  BY <1>1, <1>2, <2>2, SomewhereIs
<1>4. Routed'
  <2>1. \A s \in Shards : \A tx \in Range(Held(s)') : SendShard(tx) = s
    BY <1>0, <1>1 DEF Routed
  <2>2. \A n \in injects' : SendShard(n.tx) = n.to
    BY <1>0, <1>2 DEF Routed
  <2> QED  BY <2>1, <2>2 DEF Routed, SendShard, Sender, Recipient, IsBroker
<1>5. OneCopy'
  <2>1. ASSUME NEW n \in injects'
        PROVE  /\ \A k \in injects' \ {n} : k.tx # n.tx
               /\ \A s \in Shards : n.tx \notin Range(Held(s)')
    <3>1. \A s \in Shards : n.tx \notin Range(Held(s)')
      BY <1>0, <1>1, <1>2, SomewhereIs DEF OneCopy
    <3>2. ASSUME NEW k \in injects' \ {n}, k.tx = n.tx PROVE FALSE
      <4>1. CASE n \in injects /\ k \in injects
        BY <1>0, <3>2, <4>1 DEF OneCopy
      <4>2. CASE n \in injects /\ k \notin injects
        BY <1>2, <3>2, <4>2, SomewhereIs
      <4>3. CASE n \notin injects /\ k \in injects
        BY <1>2, <3>2, <4>3, SomewhereIs
      <4>4. CASE n \notin injects /\ k \notin injects
        BY <1>2, <3>2, <4>4
      <4> QED  BY <4>1, <4>2, <4>3, <4>4
    <3> QED  BY <3>1, <3>2
  <2> QED  BY <1>0, <1>1, <2>1 DEF OneCopy
<1> QED  BY <1>3, <1>4, <1>5

\* The supervisor deals with the next line: nothing of it was anywhere.
LEMMA TxHandlingPlaced ==
  ASSUME Placed, TypeOK', TxHandling
  PROVE  Placed'
<1>0. TypeOK /\ Routed /\ Issued /\ Split /\ OneCopy
  BY DEF Placed
<1>1. PICK l \in Lines : l = line + 1 /\ line' = l
  BY <1>0, InputType DEF TxHandling, TypeOK
<1>2. line \in Nat /\ l \in Nat /\ ~(l <= line)
  BY <1>0, <1>1, InputType DEF TypeOK
<1>3. PICK T : T = IF NeedsBroker(l) THEN {Tx(l, "tx1")} ELSE {Tx(l, "raw")}
  OBVIOUS
<1>4. /\ injects' = txSending(T)
      /\ BrokerRawMegs' = IF NeedsBroker(l) THEN BrokerRawMegs \cup {l} ELSE BrokerRawMegs
      /\ brokerConfirm1Pool' = IF NeedsBroker(l) THEN brokerConfirm1Pool \cup {l} ELSE brokerConfirm1Pool
      /\ UNCHANGED <<brokerConfirm2Pool, pool, proposal, blocks>>
  BY <1>1, <1>3 DEF TxHandling, dealTxByBroker, handleBrokerRawMag, shards
<1>5. /\ T \in SUBSET Txs
      /\ \A tx \in T : /\ tx.line = l
                       /\ tx.half = IF NeedsBroker(l) THEN "tx1" ELSE "raw"
  BY <1>3, TxsType
<1>6. T \cap Somewhere = {}
  BY <1>0, <1>2, <1>5 DEF Issued
<1>7. /\ Routed' /\ OneCopy'
      /\ \A tx : tx \in Somewhere' => tx \in Somewhere \/ tx \in T
  BY <1>4, <1>5, <1>6, Sent
<1>8. Issued'
  <2>1. SUFFICES ASSUME NEW tx, tx \in Somewhere'
                 PROVE  /\ tx.line <= l
                        /\ tx.half = "raw" => ~NeedsBroker(tx.line)
                        /\ tx.half = "tx1" => tx.line \in brokerConfirm1Pool'
                        /\ tx.half = "tx2" => tx.line \in brokerConfirm2Pool'
    BY <1>1 DEF Issued, NeedsBroker, IsBroker
  <2>2. CASE tx \in Somewhere
    <3>1. tx \in Txs /\ tx.line \in Lines /\ tx.line \in Nat
      BY <1>0, <2>2, SomewhereType, TxsType, InputType
    <3>2. /\ tx.line <= line
          /\ tx.half = "raw" => ~NeedsBroker(tx.line)
          /\ tx.half = "tx1" => tx.line \in brokerConfirm1Pool
          /\ tx.half = "tx2" => tx.line \in brokerConfirm2Pool
      BY <1>0, <2>2 DEF Issued
    <3>3. tx.line <= l
      BY <1>1, <1>2, <3>1, <3>2
    <3> QED  BY <1>4, <3>2, <3>3
  <2>3. CASE tx \in T
    <3>1. tx.line = l /\ tx.half = IF NeedsBroker(l) THEN "tx1" ELSE "raw"
      BY <1>5, <2>3
    <3>2. CASE NeedsBroker(l)
      BY <1>2, <1>4, <3>1, <3>2
    <3>3. CASE ~NeedsBroker(l)
      BY <1>2, <1>4, <3>1, <3>3
    <3> QED  BY <3>2, <3>3
  <2> QED  BY <1>7, <2>1, <2>2, <2>3
<1>9. Split'
  <2>1. BrokerRawMegs' = brokerConfirm1Pool' /\ brokerConfirm2Pool' \subseteq brokerConfirm1Pool'
    BY <1>0, <1>4 DEF Split
  <2>2. ASSUME NEW k \in brokerConfirm1Pool' PROVE k <= l /\ NeedsBroker(k)
    <3>1. CASE k \in brokerConfirm1Pool
      <4>1. k <= line /\ NeedsBroker(k) /\ k \in Lines /\ k \in Nat
        BY <1>0, <3>1, InputType DEF Split, TypeOK
      <4> QED  BY <1>1, <1>2, <4>1
    <3>2. CASE k \notin brokerConfirm1Pool
      BY <1>2, <1>4, <3>2
    <3> QED  BY <3>1, <3>2
  <2>3. \A k \in brokerConfirm2Pool' : Executed(Tx(k, "tx1"), SenderShard(k))'
    BY <1>0, <1>4 DEF Split, Executed, SenderShard, Tx
  <2> QED  BY <1>1, <2>1, <2>2, <2>3 DEF Split, NeedsBroker, IsBroker
<1> QED  BY <1>7, <1>8, <1>9 DEF Placed

\* What a report confirms: the halves it names, which were executed, and of which the
\* supervisor did not know it.
LEMMA ReportHalves ==
  ASSUME Placed, Confirmations, Reported, NEW r \in reports
  PROVE  /\ \A l \in Confirmed1(r) :
              /\ l \in Lines /\ Tx(l, "tx1") \in r.broker1Txs
              /\ Executed(Tx(l, "tx1"), SenderShard(l))
              /\ RawTx2BrokerTx[l] = <<>> /\ l \notin brokerConfirm2Pool
         /\ \A l \in Confirmed2(r) :
              /\ l \in Lines /\ Tx(l, "tx2") \in r.broker2Txs
              /\ Executed(Tx(l, "tx2"), RecipientShard(l))
              /\ RawTx2BrokerTx[l] = <<"tx1">> /\ l \in brokerConfirm2Pool
<1>0. TypeOK
  BY DEF Placed
<1>1. \A l : Tx(l, "tx1").half = "tx1" /\ Tx(l, "tx2").half = "tx2"
             /\ Tx(l, "tx1").line = l /\ Tx(l, "tx2").line = l
  BY DEF Tx
<1>2. /\ \A tx \in r.broker1Txs : tx.half = "tx1"
      /\ \A tx \in r.broker2Txs : tx.half = "tx2"
  BY <1>0 DEF TypeOK
<1>3. ASSUME NEW l \in Confirmed1(r)
      PROVE  /\ l \in Lines /\ Tx(l, "tx1") \in r.broker1Txs
             /\ Executed(Tx(l, "tx1"), SenderShard(l))
             /\ RawTx2BrokerTx[l] = <<>> /\ l \notin brokerConfirm2Pool
  <2>1. l \in Lines /\ Tx(l, "tx1") \in r.broker1Txs
    BY <1>0, <1>1, <1>2 DEF Confirmed1, TypeOK
  <2>2. Executed(Tx(l, "tx1"), SenderShard(l)) /\ RawTx2BrokerTx[l] = <<>>
    BY <1>1, <2>1 DEF Reported
  <2>3. <<>> # <<"tx1">> /\ <<>> # <<"tx1", "tx2">>
    OBVIOUS
  <2>4. l \notin brokerConfirm2Pool
    BY <2>1, <2>2, <2>3 DEF Confirmations
  <2> QED  BY <2>1, <2>2, <2>4
<1>4. ASSUME NEW l \in Confirmed2(r)
      PROVE  /\ l \in Lines /\ Tx(l, "tx2") \in r.broker2Txs
             /\ Executed(Tx(l, "tx2"), RecipientShard(l))
             /\ RawTx2BrokerTx[l] = <<"tx1">> /\ l \in brokerConfirm2Pool
  <2>1. l \in Lines /\ Tx(l, "tx2") \in r.broker2Txs /\ l \in brokerConfirm2Pool
    BY <1>0, <1>1, <1>2 DEF Confirmed2, TypeOK
  <2> QED  BY <1>1, <2>1 DEF Reported
<1> QED  BY <1>3, <1>4

\* What handleBlockInfos does with the confirmed lines c1 and c2.
LEMMA InfosEffect ==
  ASSUME Placed, Confirmations, Reported, NEW r \in reports, handleBlockInfos(r)
  PROVE  \E c1 \in SUBSET Lines, c2 \in SUBSET Lines :
           /\ c1 = Confirmed1(r) /\ c2 = Confirmed2(r)
           /\ brokerConfirm2Pool' = brokerConfirm2Pool \cup c1
           /\ injects' = txSending({Tx(l, "tx2") : l \in c1})
           /\ \A l \in Lines : RawTx2BrokerTx'[l] = IF l \in c1 THEN <<"tx1">>
                                 ELSE IF l \in c2 THEN <<"tx1", "tx2">> ELSE RawTx2BrokerTx[l]
<1>0. TypeOK /\ Split
  BY DEF Placed
<1>1. PICK c1 \in SUBSET Lines : c1 = Confirmed1(r)
  BY <1>0 DEF Confirmed1, TypeOK
<1>2. PICK c2 \in SUBSET Lines : c2 = Confirmed2(r)
  BY <1>0 DEF Confirmed2, TypeOK
<1>3. c1 = {l \in Confirmed1(r) : l \in BrokerRawMegs}
  BY <1>0, <1>1 DEF Split, Confirmed1
<1>4. /\ RawTx2BrokerTx' = [l \in Lines |->
           LET one == IF l \in c1 THEN Append(RawTx2BrokerTx[l], "tx1") ELSE RawTx2BrokerTx[l]
           IN  IF l \in c2 THEN Append(one, "tx2") ELSE one]
      /\ brokerConfirm2Pool' = brokerConfirm2Pool \cup c1
      /\ injects' = txSending({Tx(l, "tx2") : l \in c1})
  BY <1>2, <1>3 DEF handleBlockInfos
<1>5. /\ \A l \in c1 : RawTx2BrokerTx[l] = <<>> /\ l \notin c2
      /\ \A l \in c2 : RawTx2BrokerTx[l] = <<"tx1">>
  <2>1. \A l \in c1 : RawTx2BrokerTx[l] = <<>> /\ l \notin brokerConfirm2Pool
    BY <1>1, ReportHalves
  <2>2. \A l \in c2 : RawTx2BrokerTx[l] = <<"tx1">> /\ l \in brokerConfirm2Pool
    BY <1>2, ReportHalves
  <2> QED  BY <2>1, <2>2
<1>6. Append(<<>>, "tx1") = <<"tx1">> /\ Append(<<"tx1">>, "tx2") = <<"tx1", "tx2">>
  <2>1. \A x : Append(<<>>, x) = <<x>>
    OBVIOUS
  <2>2. PICK S : S = {"tx1", "tx2"}
    OBVIOUS
  <2>3. PICK x \in S, y \in S : x = "tx1" /\ y = "tx2"
    BY <2>2
  <2>3a. <<x>> \in Seq(S) /\ <<x, y>> \in Seq(S)
    OBVIOUS
  <2>4. PICK q \in Seq(S), u \in Seq(S) : q = <<x>> /\ u = <<x, y>>
    BY <2>3a
  <2>5. Len(q) = 1 /\ q[1] = x /\ Len(u) = 2 /\ u[1] = x /\ u[2] = y
    BY <2>4
  <2>6. /\ Append(q, y) \in Seq(S) /\ Len(Append(q, y)) = 2
        /\ Append(q, y)[1] = x /\ Append(q, y)[2] = y
    <3>1. /\ Append(q, y) \in Seq(S) /\ Len(Append(q, y)) = Len(q) + 1
          /\ \A i \in 1..Len(q) : Append(q, y)[i] = q[i]
          /\ Append(q, y)[Len(q) + 1] = y
      BY AppendProperties
    <3>2. Len(q) + 1 = 2 /\ 1 \in 1..Len(q)
      BY <2>5
    <3> QED  BY <2>5, <3>1, <3>2
  <2>7. PICK t \in Seq(S) : t = Append(q, y)
    BY <2>6
  <2>8. Len(t) = Len(u) /\ \A i \in 1..Len(t) : t[i] = u[i]
    BY <2>5, <2>6, <2>7
  <2>9. t = u
    BY <2>8, SeqEqual
  <2> QED  BY <2>1, <2>3, <2>4, <2>7, <2>9
<1>7. ASSUME NEW l \in Lines
      PROVE  RawTx2BrokerTx'[l] = IF l \in c1 THEN <<"tx1">>
               ELSE IF l \in c2 THEN <<"tx1", "tx2">> ELSE RawTx2BrokerTx[l]
  <2>1. RawTx2BrokerTx'[l] =
           LET one == IF l \in c1 THEN Append(RawTx2BrokerTx[l], "tx1") ELSE RawTx2BrokerTx[l]
           IN  IF l \in c2 THEN Append(one, "tx2") ELSE one
    BY <1>4, Zenon
  <2>2. CASE l \in c1
    BY <1>5, <1>6, <2>1, <2>2, Zenon
  <2>3. CASE l \notin c1 /\ l \in c2
    BY <1>5, <1>6, <2>1, <2>3, Zenon
  <2>4. CASE l \notin c1 /\ l \notin c2
    BY <2>1, <2>4, Zenon
  <2> QED  BY <2>2, <2>3, <2>4
<1> QED  BY <1>1, <1>2, <1>4, <1>7

\* The supervisor issues second halves: none of them was anywhere, and the first
\* halves were executed.
LEMMA InfosPlaced ==
  ASSUME Placed, TypeOK', Confirmations, Reported, NEW r \in reports, handleBlockInfos(r)
  PROVE  Placed'
<1>0. TypeOK /\ Routed /\ Issued /\ Split /\ OneCopy
  BY DEF Placed
<1>1. PICK c1 \in SUBSET Lines :
        /\ c1 = Confirmed1(r)
        /\ brokerConfirm2Pool' = brokerConfirm2Pool \cup c1
        /\ injects' = txSending({Tx(l, "tx2") : l \in c1})
  BY InfosEffect
<1>2. UNCHANGED <<line, BrokerRawMegs, brokerConfirm1Pool, pool, proposal, blocks>>
  BY DEF handleBlockInfos, shards
<1>3. \A l \in c1 : /\ l \in Lines /\ l \notin brokerConfirm2Pool /\ l \in brokerConfirm1Pool
                    /\ Executed(Tx(l, "tx1"), SenderShard(l))
  <2>1. \A l \in c1 : l \in brokerConfirm1Pool
    BY <1>1 DEF Confirmed1
  <2> QED  BY <1>1, <2>1, ReportHalves
<1>4. PICK T : T = {Tx(l, "tx2") : l \in c1}
  OBVIOUS
<1>5. /\ T \in SUBSET Txs
      /\ \A tx \in T : tx.line \in c1 /\ tx.half = "tx2"
  BY <1>4, TxsType
<1>6. T \cap Somewhere = {}
  BY <1>0, <1>3, <1>5 DEF Issued
<1>7. /\ Routed' /\ OneCopy'
      /\ \A tx : tx \in Somewhere' => tx \in Somewhere \/ tx \in T
  BY <1>1, <1>2, <1>4, <1>5, <1>6, Sent
<1>8. Issued'
  <2>1. \A l \in c1 : l <= line
    BY <1>0, <1>3 DEF Split
  <2>2. SUFFICES ASSUME NEW tx, tx \in Somewhere'
                 PROVE  /\ tx.line <= line
                        /\ tx.half = "raw" => ~NeedsBroker(tx.line)
                        /\ tx.half = "tx1" => tx.line \in brokerConfirm1Pool
                        /\ tx.half = "tx2" => tx.line \in brokerConfirm2Pool'
    BY <1>2 DEF Issued, NeedsBroker, IsBroker
  <2>3. CASE tx \in Somewhere
    BY <1>0, <1>1, <2>3 DEF Issued
  <2>4. CASE tx \in T
    BY <1>1, <1>5, <2>1, <2>4
  <2> QED  BY <1>7, <2>2, <2>3, <2>4
<1>9. Split'
  <2>1. \A k \in brokerConfirm2Pool' : Executed(Tx(k, "tx1"), SenderShard(k))
    BY <1>0, <1>1, <1>3 DEF Split
  <2>2. brokerConfirm2Pool' \subseteq brokerConfirm1Pool
    BY <1>0, <1>1, <1>3 DEF Split
  <2>3. \A k : Executed(Tx(k, "tx1"), SenderShard(k))' <=> Executed(Tx(k, "tx1"), SenderShard(k))
    BY <1>2 DEF Executed, SenderShard, Tx
  <2> QED  BY <1>0, <1>2, <2>1, <2>2, <2>3 DEF Split, NeedsBroker, IsBroker
<1> QED  BY <1>7, <1>8, <1>9 DEF Placed

\* A proposal moves the head of the pool into a block.
LEMMA ProposePlaced ==
  ASSUME Placed, TypeOK', NEW s \in Shards, HandleinPropose(s)
  PROVE  Placed'
<1>0. TypeOK
  BY DEF Placed
<1>1. PICK p \in Seq(Txs), q \in Seq(Txs), k \in Nat : p = blocks[s] /\ q = pool[s] /\ k = BlockSize
  BY <1>0, HeldType, BrokerAssumption
<1>2. PICK body \in Seq(Txs), rest \in Seq(Txs) :
        body = PackTxs(q, k) /\ rest = AfterPack(q, k) /\ body \o rest = q
  BY PackSplits
<1>3. /\ \A u \in Shards \ {s} : proposal'[u] = proposal[u] /\ pool'[u] = pool[u]
      /\ proposal[s] = <<>> /\ proposal'[s] = body /\ pool'[s] = rest
      /\ UNCHANGED <<line, BrokerRawMegs, brokerConfirm1Pool, brokerConfirm2Pool, blocks, injects>>
  BY <1>0, <1>1, <1>2 DEF HandleinPropose, TypeOK, supervisor
<1>4. \A u \in Shards \ {s} : Held(u)' = Held(u)
  BY <1>3 DEF Held
<1>5. Held(s)' = Held(s)
  <2>1. Held(s) = (p \o <<>>) \o q
    BY <1>1, <1>3 DEF Held
  <2>2. Held(s)' = (p \o body) \o rest
    BY <1>1, <1>3 DEF Held
  <2>3. p \o <<>> = p
    BY ConcatEmptySeq
  <2>4. (p \o body) \o rest = p \o (body \o rest)
    BY ConcatAssociative
  <2> QED  BY <1>2, <2>1, <2>2, <2>3, <2>4
<1>6. \A u \in Shards : Held(u)' = Held(u) /\ Range(blocks[u]) \subseteq Range(blocks'[u])
  BY <1>3, <1>4, <1>5
<1> QED  BY <1>3, <1>6, Unmoved

\* What has been executed.
LEMMA ExecutedType ==
  ASSUME TypeOK
  PROVE  /\ AllExecuted \subseteq Txs
         /\ \A tx : tx \in AllExecuted <=> \E s \in Shards : tx \in Range(blocks[s])
<1>1. \A tx : tx \in AllExecuted <=> \E s \in Shards : tx \in Range(blocks[s])
  BY DEF AllExecuted
<1>2. ASSUME NEW tx \in AllExecuted PROVE tx \in Txs
  <2>1. PICK s \in Shards : tx \in Range(blocks[s])
    BY <1>1
  <2>2. PICK q \in Seq(Txs) : q = blocks[s]
    BY DEF TypeOK
  <2> QED  BY <2>1, <2>2, RangeOfSeq
<1> QED  BY <1>1, <1>2

\* The block that a shard executes.
Commits(s, b, body) ==
  /\ b \in Balances /\ body \in Seq(Txs)
  /\ b = balance[s] /\ body = proposal[s]
  /\ balance' = [balance EXCEPT ![s] = GetUpdateStatusTrie(b, Addr2Shard, s, Fields(body))]
  /\ skipped' = skipped \cup {body[i] : i \in Skipped(b, Addr2Shard, s, Fields(body))}
  /\ IsInjective(body) /\ AllExecuted \cap Range(body) = {}
  /\ AllExecuted' = AllExecuted \cup Range(body)
  /\ Range(blocks'[s]) = Range(blocks[s]) \cup Range(body)
  /\ \A u \in Shards \ {s} : Range(blocks'[u]) = Range(blocks[u])
  /\ Range(body) \subseteq Range(Held(s))
  /\ \A u \in Range(body) : u \in Txs /\ SendShard(u) = s
  /\ \A u \in Shards : Held(u)' = Held(u) /\ Range(blocks[u]) \subseteq Range(blocks'[u])

\* What a commit does to the places of transactions.
LEMMA CommitState ==
  ASSUME Placed, NEW s \in Shards, HandleinCommit(s)
  PROVE  \E b, body : Commits(s, b, body)
<1>0. TypeOK /\ OneCopy /\ Routed
  BY DEF Placed
<1>1. PICK b \in Balances, body \in Seq(Txs) : b = balance[s] /\ body = proposal[s]
  BY <1>0 DEF TypeOK
<1>2. /\ balance' = [balance EXCEPT ![s] = GetUpdateStatusTrie(b, Addr2Shard, s, Fields(body))]
      /\ blocks' = [blocks EXCEPT ![s] = blocks[s] \o body]
      /\ skipped' = skipped \cup {body[i] : i \in Skipped(b, Addr2Shard, s, Fields(body))}
      /\ proposal' = [proposal EXCEPT ![s] = <<>>]
      /\ pool' = pool
  BY <1>1 DEF HandleinCommit
<1>3. /\ Range(body) \subseteq Range(Held(s)) /\ IsInjective(Held(s))
      /\ \A u \in Shards : Range(blocks[u]) \subseteq Range(Held(u))
  BY <1>0, <1>1, HeldType DEF OneCopy
<1>4. IsInjective(body) /\ Range(blocks[s]) \cap Range(body) = {}
  BY <1>0, <1>1, <1>3, HeldParts
<1>5. \A u \in Shards \ {s} : Range(blocks[u]) \cap Range(body) = {}
  BY <1>0, <1>3 DEF OneCopy
<1>6. AllExecuted \cap Range(body) = {}
  BY <1>0, <1>4, <1>5, ExecutedType
<1>7. PICK p \in Seq(Txs), q \in Seq(Txs) : p = blocks[s] /\ q = pool[s]
  BY <1>0 DEF TypeOK
<1>8. p \o body \in Seq(Txs) /\ Range(p \o body) = Range(p) \cup Range(body)
  BY ConcatRange
<1>9. PICK pb \in Seq(Txs) : pb = p \o body
  BY <1>8
<1>10. /\ blocks'[s] = pb /\ proposal'[s] = <<>> /\ pool'[s] = q
       /\ \A u \in Shards \ {s} : blocks'[u] = blocks[u] /\ proposal'[u] = proposal[u]
  BY <1>0, <1>2, <1>7, <1>9 DEF TypeOK
<1>11. Range(blocks'[s]) = Range(blocks[s]) \cup Range(body)
  BY <1>7, <1>8, <1>9, <1>10
<1>12. \A u \in Shards \ {s} : Held(u)' = Held(u) /\ Range(blocks'[u]) = Range(blocks[u])
  BY <1>2, <1>10 DEF Held
<1>13. Held(s)' = Held(s)
  <2>1. Held(s)' = (pb \o <<>>) \o q
    BY <1>10 DEF Held
  <2>2. Held(s) = pb \o q
    BY <1>1, <1>7, <1>9 DEF Held
  <2>3. pb \o <<>> = pb
    BY ConcatEmptySeq
  <2> QED  BY <2>1, <2>2, <2>3
<1>14. AllExecuted' = AllExecuted \cup Range(body)
  <2>1. \A tx : tx \in AllExecuted' <=> \E u \in Shards : tx \in Range(blocks'[u])
    BY DEF AllExecuted
  <2>2. \A tx : tx \in AllExecuted' <=> (tx \in AllExecuted \/ tx \in Range(body))
    BY <1>0, <1>11, <1>12, <2>1, ExecutedType
  <2> QED  BY <2>2
<1>15. \A u \in Range(body) : u \in Txs /\ SendShard(u) = s
  BY <1>0, <1>3, HeldType DEF Routed
<1>16. \A u \in Shards : Held(u)' = Held(u) /\ Range(blocks[u]) \subseteq Range(blocks'[u])
  BY <1>11, <1>12, <1>13
<1>17. Commits(s, b, body)
  BY <1>1, <1>2, <1>3, <1>4, <1>6, <1>11, <1>12, <1>14, <1>15, <1>16 DEF Commits
<1> QED  BY <1>17

\* A shard that executes its block moves nothing.
LEMMA CommitPlaced ==
  ASSUME Placed, TypeOK', NEW s \in Shards, HandleinCommit(s)
  PROVE  Placed'
<1>1. PICK b, body : Commits(s, b, body)
  BY CommitState
<1>2. /\ injects' \subseteq injects
      /\ UNCHANGED <<line, BrokerRawMegs, brokerConfirm1Pool, brokerConfirm2Pool>>
  BY DEF HandleinCommit, supervisor
<1>3. \A u \in Shards : Held(u)' = Held(u) /\ Range(blocks[u]) \subseteq Range(blocks'[u])
  BY <1>1 DEF Commits
<1> QED  BY <1>2, <1>3, Unmoved

\* At the start there is nothing anywhere.
LEMMA PlacedInit == Init => Placed
<1>1. SUFFICES ASSUME Init PROVE Placed
  OBVIOUS
<1>2. TypeOK
  BY <1>1, TypeInit
<1>3. \A s \in Shards : Held(s) = <<>>
  <2>0. <<>> \in Seq(Txs)
    OBVIOUS
  <2>1. PICK e \in Seq(Txs) : e = <<>>
    BY <2>0
  <2>2. \A s \in Shards : Held(s) = (e \o e) \o e
    BY <1>1, <2>1 DEF Init, Held
  <2>3. (e \o e) \o e = <<>>
    BY <2>1, ConcatEmptySeq
  <2> QED  BY <2>2, <2>3
<1>4. Range(<<>>) = {} /\ IsInjective(<<>>)
  BY DEF Range, IsInjective
<1>5. Routed /\ OneCopy
  BY <1>1, <1>3, <1>4 DEF Init, Routed, OneCopy
<1>6. Somewhere = {}
  BY <1>1, <1>3, <1>4, SomewhereIs DEF Init
<1>7. Issued /\ Split
  BY <1>1, <1>6 DEF Init, Issued, Split
<1> QED  BY <1>2, <1>5, <1>7 DEF Placed

\* Every step keeps transactions in their places.
LEMMA PlacedStep == Placed /\ Confirmations /\ Reported /\ [Next]_vars => Placed'
<1>1. SUFFICES ASSUME Placed, Confirmations, Reported, [Next]_vars PROVE Placed'
  OBVIOUS
<1>2. TypeOK'
  BY <1>1, TypeStep
<1>3. CASE TxHandling
  BY <1>1, <1>2, <1>3, TxHandlingPlaced
<1>4. ASSUME NEW r \in reports, handleBlockInfos(r) PROVE Placed'
  BY <1>1, <1>2, <1>4, InfosPlaced
<1>5. ASSUME NEW m \in injects, handleInjectTx(m) PROVE Placed'
  BY <1>1, <1>2, <1>5, Delivered
<1>6. ASSUME NEW s \in Shards, HandleinPropose(s) PROVE Placed'
  BY <1>1, <1>2, <1>6, ProposePlaced
<1>7. ASSUME NEW s \in Shards, HandleinCommit(s) PROVE Placed'
  BY <1>1, <1>2, <1>7, CommitPlaced
<1>8. CASE TcpDialFails \/ UNCHANGED vars
  <2>1. /\ injects' \subseteq injects
        /\ UNCHANGED <<line, BrokerRawMegs, brokerConfirm1Pool, brokerConfirm2Pool,
                       blocks, proposal, pool>>
    BY <1>8 DEF TcpDialFails, vars, supervisor, shards
  <2>2. \A u \in Shards : Held(u)' = Held(u) /\ Range(blocks[u]) \subseteq Range(blocks'[u])
    BY <2>1 DEF Held
  <2> QED  BY <1>1, <1>2, <2>1, <2>2, Unmoved
<1> QED
  BY <1>1, <1>3, <1>4, <1>5, <1>6, <1>7, <1>8 DEF Next

-----------------------------------------------------------------------------
(***************************************************************************)
(* What the supervisor knows.                                              *)
(***************************************************************************)

\* What a step of the shards does to the chains: they only grow.
LEMMA BlocksGrow ==
  ASSUME Placed, [Next]_vars
  PROVE  \A s \in Shards : Range(blocks[s]) \subseteq Range(blocks'[s])
<1>1. CASE UNCHANGED blocks
  BY <1>1
<1>2. ASSUME NEW s \in Shards, HandleinCommit(s)
      PROVE  \A u \in Shards : Range(blocks[u]) \subseteq Range(blocks'[u])
  <2>1. PICK b, body : Commits(s, b, body)
    BY <1>2, CommitState
  <2> QED  BY <2>1 DEF Commits
<1> QED
  BY <1>1, <1>2 DEF Next, vars, supervisor, shards, TxHandling, handleBlockInfos, handleInjectTx,
                    HandleinPropose, TcpDialFails

\* What is confirmed was executed, the first half first.
LEMMA ConfirmationsStep ==
  Placed /\ Confirmations /\ Reported /\ [Next]_vars => Confirmations'
<1>1. SUFFICES ASSUME Placed, Confirmations, Reported, [Next]_vars PROVE Confirmations'
  OBVIOUS
<1>2. \A l \in Lines : Executed(Tx(l, "tx2"), RecipientShard(l)) => Executed(Tx(l, "tx2"), RecipientShard(l))'
  BY <1>1, BlocksGrow, ExecutedStays
<1>3. CASE UNCHANGED <<brokerConfirm2Pool, RawTx2BrokerTx>>
  BY <1>1, <1>2, <1>3 DEF Confirmations, Tx
<1>4. ASSUME NEW r \in reports, handleBlockInfos(r) PROVE Confirmations'
  <2>1. PICK c1 \in SUBSET Lines : \E c2 \in SUBSET Lines :
           /\ c1 = Confirmed1(r) /\ c2 = Confirmed2(r)
           /\ brokerConfirm2Pool' = brokerConfirm2Pool \cup c1
           /\ \A l \in Lines : RawTx2BrokerTx'[l] = IF l \in c1 THEN <<"tx1">>
                                 ELSE IF l \in c2 THEN <<"tx1", "tx2">> ELSE RawTx2BrokerTx[l]
    BY <1>1, <1>4, InfosEffect
  <2>2. PICK c2 \in SUBSET Lines :
           /\ c1 = Confirmed1(r) /\ c2 = Confirmed2(r)
           /\ brokerConfirm2Pool' = brokerConfirm2Pool \cup c1
           /\ \A l \in Lines : RawTx2BrokerTx'[l] = IF l \in c1 THEN <<"tx1">>
                                 ELSE IF l \in c2 THEN <<"tx1", "tx2">> ELSE RawTx2BrokerTx[l]
    BY <2>1
  <2>3. \A l \in c2 : Executed(Tx(l, "tx2"), RecipientShard(l)) /\ l \in brokerConfirm2Pool
    BY <1>1, <2>2, ReportHalves
  <2>4. SUFFICES ASSUME NEW l \in Lines
                 PROVE  IF l \in brokerConfirm2Pool'
                          THEN \/ RawTx2BrokerTx'[l] = <<"tx1">>
                               \/ /\ RawTx2BrokerTx'[l] = <<"tx1", "tx2">>
                                  /\ Executed(Tx(l, "tx2"), RecipientShard(l))
                          ELSE RawTx2BrokerTx'[l] = <<>>
    BY <1>2 DEF Confirmations, Tx
  <2>5. CASE l \in c1
    BY <2>2, <2>5
  <2>6. CASE l \notin c1 /\ l \in c2
    BY <2>2, <2>3, <2>6
  <2>7. CASE l \notin c1 /\ l \notin c2
    <3>1. RawTx2BrokerTx'[l] = RawTx2BrokerTx[l] /\ (l \in brokerConfirm2Pool' <=> l \in brokerConfirm2Pool)
      BY <2>2, <2>7
    <3> QED  BY <1>1, <3>1 DEF Confirmations
  <2> QED  BY <2>5, <2>6, <2>7
<1> QED
  BY <1>1, <1>3, <1>4 DEF Next, vars, supervisor, TxHandling, handleInjectTx,
                          HandleinPropose, HandleinCommit, TcpDialFails

\* What was executed in the sender's or the recipient's shard was executed.
LEMMA ExecutedSomewhere ==
  ASSUME TypeOK, NEW l \in Lines, NEW tx, Executed(tx, SenderShard(l)) \/ Executed(tx, RecipientShard(l))
  PROVE  tx \in AllExecuted
BY ExecutedType, InputType DEF Executed

\* A report that a step leaves under way, with the confirmations of its lines unchanged.
StillReported(r) ==
  /\ \A tx \in r.broker1Txs : Executed(tx, SenderShard(tx.line))' /\ RawTx2BrokerTx'[tx.line] = <<>>
  /\ \A tx \in r.broker2Txs :
       Executed(tx, RecipientShard(tx.line))' /\ RawTx2BrokerTx'[tx.line] = <<"tx1">>

\* The halves in a report, as transactions.
LEMMA ReportTxs ==
  ASSUME TypeOK, NEW r \in reports
  PROVE  /\ \A tx \in r.broker1Txs : tx \in Txs /\ tx.line \in Lines /\ tx = Tx(tx.line, "tx1")
         /\ \A tx \in r.broker2Txs : tx \in Txs /\ tx.line \in Lines /\ tx = Tx(tx.line, "tx2")
<1>1. /\ \A tx \in r.broker1Txs : tx \in Txs /\ tx.half = "tx1"
      /\ \A tx \in r.broker2Txs : tx \in Txs /\ tx.half = "tx2"
  BY DEF TypeOK, Reports
<1> QED  BY <1>1, TxsType

\* A report stays true when its confirmations stay.
LEMMA KeptReport ==
  ASSUME Placed, Reported, [Next]_vars, NEW r \in reports,
         \A tx \in r.broker1Txs \cup r.broker2Txs : RawTx2BrokerTx'[tx.line] = RawTx2BrokerTx[tx.line]
  PROVE  StillReported(r)
<1>1. /\ \A tx \in r.broker1Txs : /\ tx.line \in Lines /\ Executed(tx, SenderShard(tx.line))
                                  /\ RawTx2BrokerTx[tx.line] = <<>>
      /\ \A tx \in r.broker2Txs : /\ tx.line \in Lines /\ Executed(tx, RecipientShard(tx.line))
                                  /\ RawTx2BrokerTx[tx.line] = <<"tx1">>
  BY ReportTxs DEF Placed, Reported
<1>2. \A s \in Shards : Range(blocks[s]) \subseteq Range(blocks'[s])
  BY BlocksGrow
<1>3. \A l \in Lines : \A tx : /\ Executed(tx, SenderShard(l)) => Executed(tx, SenderShard(l))'
                               /\ Executed(tx, RecipientShard(l)) => Executed(tx, RecipientShard(l))'
  BY <1>2, ExecutedStays
<1> QED  BY <1>1, <1>3 DEF StillReported

\* The report of a block is about halves that nothing told the supervisor of.
LEMMA NewReport ==
  ASSUME Placed, Confirmations, Reported, NEW s \in Shards, NEW b, NEW body, Commits(s, b, body),
         RawTx2BrokerTx' = RawTx2BrokerTx, NEW n \in Nat
  PROVE  /\ StillReported(ReportOf(s, n, body))
         /\ \A r \in reports : /\ r.broker1Txs \cap ReportOf(s, n, body).broker1Txs = {}
                               /\ r.broker2Txs \cap ReportOf(s, n, body).broker2Txs = {}
<1>0. TypeOK /\ Issued /\ Split
  BY DEF Placed
<1>1. /\ body \in Seq(Txs) /\ body = proposal[s] /\ AllExecuted \cap Range(body) = {}
      /\ Range(blocks'[s]) = Range(blocks[s]) \cup Range(body)
      /\ Range(body) \subseteq Range(Held(s))
      /\ \A u \in Range(body) : u \in Txs /\ SendShard(u) = s
  BY DEF Commits
<1>2. PICK q : q = ReportOf(s, n, body)
  OBVIOUS
<1>3. /\ q.broker1Txs = {tx \in Range(body) : tx.half = "tx1"}
      /\ q.broker2Txs = {tx \in Range(body) : tx.half = "tx2"}
  BY <1>1, <1>2, ReportType
<1>4. \A tx \in Range(body) : /\ tx \in Txs /\ tx.line \in Lines /\ tx \notin AllExecuted
                              /\ tx \in Somewhere /\ tx = Tx(tx.line, tx.half)
  BY <1>1, SomewhereIs, TxsType
<1>5. ASSUME NEW tx \in q.broker1Txs
      PROVE  Executed(tx, SenderShard(tx.line))' /\ RawTx2BrokerTx[tx.line] = <<>>
  <2>1. tx \in Range(body) /\ tx.half = "tx1"
    BY <1>3
  <2>2. SenderShard(tx.line) = s
    BY <1>1, <2>1, Classes, HalfShard
  <2>3. Executed(tx, SenderShard(tx.line))'
    BY <1>1, <2>1, <2>2 DEF Executed, SenderShard
  <2>4. tx.line \notin brokerConfirm2Pool
    <3>1. SUFFICES ASSUME tx.line \in brokerConfirm2Pool PROVE FALSE
      OBVIOUS
    <3>2. tx = Tx(tx.line, "tx1") /\ tx.line \in Lines
      BY <1>4, <2>1
    <3>3. Executed(tx, SenderShard(tx.line))
      BY <1>0, <3>1, <3>2 DEF Split
    <3> QED  BY <1>0, <1>4, <2>1, <3>2, <3>3, ExecutedSomewhere
  <2> QED  BY <1>4, <2>1, <2>3, <2>4 DEF Confirmations
<1>6. ASSUME NEW tx \in q.broker2Txs
      PROVE  Executed(tx, RecipientShard(tx.line))' /\ RawTx2BrokerTx[tx.line] = <<"tx1">>
  <2>1. tx \in Range(body) /\ tx.half = "tx2"
    BY <1>3
  <2>2. RecipientShard(tx.line) = s
    BY <1>1, <2>1, HalfShard
  <2>3. Executed(tx, RecipientShard(tx.line))'
    BY <1>1, <2>1, <2>2 DEF Executed, RecipientShard
  <2>4. tx.line \in brokerConfirm2Pool
    BY <1>0, <1>4, <2>1 DEF Issued
  <2>5. ~Executed(tx, RecipientShard(tx.line)) /\ tx = Tx(tx.line, "tx2")
    BY <1>0, <1>4, <2>1, ExecutedSomewhere
  <2> QED  BY <1>4, <2>1, <2>3, <2>4, <2>5 DEF Confirmations
<1>7. ASSUME NEW r \in reports
      PROVE  r.broker1Txs \cap q.broker1Txs = {} /\ r.broker2Txs \cap q.broker2Txs = {}
  <2>1. \A tx \in r.broker1Txs : tx.line \in Lines /\ Executed(tx, SenderShard(tx.line))
    BY <1>0, ReportTxs DEF Reported
  <2>2. \A tx \in r.broker2Txs : tx.line \in Lines /\ Executed(tx, RecipientShard(tx.line))
    BY <1>0, ReportTxs DEF Reported
  <2>3. \A tx \in r.broker1Txs \cup r.broker2Txs : tx \in AllExecuted
    BY <1>0, <2>1, <2>2, ExecutedSomewhere
  <2> QED  BY <1>3, <1>4, <2>3
<1> QED  BY <1>2, <1>5, <1>6, <1>7 DEF StillReported

\* Every step keeps the reports under way true, and about halves of their own.
LEMMA ReportedStep == Placed /\ Confirmations /\ Reported /\ [Next]_vars => Reported'
<1>1. SUFFICES ASSUME Placed, Confirmations, Reported, [Next]_vars PROVE Reported'
  OBVIOUS
<1>2. ASSUME \A r \in reports' : StillReported(r),
             \A r \in reports' : \A q \in reports' \ {r} :
               r.broker1Txs \cap q.broker1Txs = {} /\ r.broker2Txs \cap q.broker2Txs = {}
      PROVE  Reported'
  BY <1>2 DEF Reported, StillReported
<1>3. CASE reports' \subseteq reports /\ UNCHANGED RawTx2BrokerTx
  <2>1. \A r \in reports' : StillReported(r)
    BY <1>1, <1>3, KeptReport
  <2>2. \A r \in reports' : \A q \in reports' \ {r} :
          r.broker1Txs \cap q.broker1Txs = {} /\ r.broker2Txs \cap q.broker2Txs = {}
    BY <1>1, <1>3 DEF Reported
  <2> QED  BY <1>2, <2>1, <2>2
<1>4. ASSUME NEW r \in reports, handleBlockInfos(r) PROVE Reported'
  <2>1. PICK c1, c2 :
           /\ c1 = Confirmed1(r) /\ c2 = Confirmed2(r)
           /\ \A l \in Lines : RawTx2BrokerTx'[l] = IF l \in c1 THEN <<"tx1">>
                                 ELSE IF l \in c2 THEN <<"tx1", "tx2">> ELSE RawTx2BrokerTx[l]
    BY <1>1, <1>4, InfosEffect
  <2>2. /\ \A l \in c1 : Tx(l, "tx1") \in r.broker1Txs /\ RawTx2BrokerTx[l] = <<>>
        /\ \A l \in c2 : Tx(l, "tx2") \in r.broker2Txs /\ RawTx2BrokerTx[l] = <<"tx1">>
    BY <1>1, <2>1, ReportHalves
  <2>3. <<>> # <<"tx1">> /\ reports' = reports \ {r}
    BY <1>4 DEF handleBlockInfos
  <2>4. ASSUME NEW q \in reports' PROVE StillReported(q)
    <3>1. /\ q \in reports
          /\ q.broker1Txs \cap r.broker1Txs = {} /\ q.broker2Txs \cap r.broker2Txs = {}
      BY <1>1, <2>3 DEF Reported
    <3>2. /\ \A tx \in q.broker1Txs : tx.line \in Lines /\ tx = Tx(tx.line, "tx1") /\ RawTx2BrokerTx[tx.line] = <<>>
          /\ \A tx \in q.broker2Txs : tx.line \in Lines /\ tx = Tx(tx.line, "tx2") /\ RawTx2BrokerTx[tx.line] = <<"tx1">>
      BY <1>1, <3>1, ReportTxs DEF Placed, Reported
    <3>3. \A tx \in q.broker1Txs : tx.line \notin c1 /\ tx.line \notin c2
      BY <2>2, <2>3, <3>1, <3>2
    <3>4. \A tx \in q.broker2Txs : tx.line \notin c1 /\ tx.line \notin c2
      BY <2>2, <2>3, <3>1, <3>2
    <3>5. \A tx \in q.broker1Txs \cup q.broker2Txs : RawTx2BrokerTx'[tx.line] = RawTx2BrokerTx[tx.line]
      BY <2>1, <3>2, <3>3, <3>4
    <3> QED  BY <1>1, <3>1, <3>5, KeptReport
  <2>5. \A p \in reports' : \A q \in reports' \ {p} :
          p.broker1Txs \cap q.broker1Txs = {} /\ p.broker2Txs \cap q.broker2Txs = {}
    BY <1>1, <2>3 DEF Reported
  <2> QED  BY <1>2, <2>4, <2>5
<1>5. ASSUME NEW s \in Shards, HandleinCommit(s) PROVE Reported'
  <2>1. PICK b, body : Commits(s, b, body)
    BY <1>1, <1>5, CommitState
  <2>2. PICK n : n = Len(blocks'[s])
    OBVIOUS
  <2>3. n \in Nat
    <3>1. TypeOK'
      BY <1>1, TypeStep
    <3>2. blocks'[s] \in Seq(Txs)
      BY <3>1 DEF TypeOK, Txs, Tx, Lines
    <3> QED  BY <2>2, <3>2, LenProperties
  <2>4. PICK q : q = ReportOf(s, n, body)
    OBVIOUS
  <2>5. reports' = reports \cup {q} /\ RawTx2BrokerTx' = RawTx2BrokerTx
    <3>1. body = proposal[s]
      BY <2>1 DEF Commits
    <3> QED  BY <1>5, <2>2, <2>4, <3>1 DEF HandleinCommit, ReportOf, supervisor
  <2>6. /\ StillReported(q)
        /\ \A r \in reports : r.broker1Txs \cap q.broker1Txs = {} /\ r.broker2Txs \cap q.broker2Txs = {}
    BY <1>1, <2>1, <2>3, <2>4, <2>5, NewReport
  <2>7. \A r \in reports : StillReported(r)
    BY <1>1, <2>5, KeptReport
  <2>8. \A p \in reports' : \A r \in reports' \ {p} :
          p.broker1Txs \cap r.broker1Txs = {} /\ p.broker2Txs \cap r.broker2Txs = {}
    BY <1>1, <2>5, <2>6 DEF Reported
  <2> QED  BY <1>2, <2>5, <2>6, <2>7, <2>8
<1>6. CASE TcpDialFails
  BY <1>3, <1>6 DEF TcpDialFails, supervisor
<1> QED
  BY <1>1, <1>3, <1>4, <1>5, <1>6 DEF Next, vars, supervisor, TxHandling, handleInjectTx, HandleinPropose

\* At the start nothing is confirmed, reported or skipped.
LEMMA KnownInit == Init => Confirmations /\ Reported /\ SkippedExecuted
BY DEF Init, Confirmations, Reported, SkippedExecuted

-----------------------------------------------------------------------------
(***************************************************************************)
(* Value.                                                                  *)
(***************************************************************************)

\* A transfer as it is where no broker is needed, and a half where one is.
WellSplit(tx) ==
  /\ tx \in Txs
  /\ tx.half = "raw" => ~NeedsBroker(tx.line)
  /\ tx.half = "tx1" => NeedsBroker(tx.line)
  /\ tx.half = "tx2" => NeedsBroker(tx.line)

\* What a client gains from a transaction that is skipped or not.
GainOf(a, tx, skip) ==
  IF skip THEN 0
  ELSE (IF Recipient(tx) = a THEN Input[tx.line].value ELSE 0)
       - (IF Sender(tx) = a THEN Input[tx.line].value ELSE 0)

Clients == Accounts \ Brokers

\* A transaction is executed where the clients at its ends live.
LEMMA ClientEnds ==
  ASSUME NEW tx, WellSplit(tx), NEW s \in Shards, SendShard(tx) = s, NEW a \in Clients
  PROVE  Recipient(tx) = a \/ Sender(tx) = a => Addr2Shard[a] = s
<1>1. ~IsBroker(a) /\ tx \in Txs /\ tx.half \in {"raw", "tx1", "tx2"}
  BY TxsType DEF Clients, IsBroker, WellSplit
<1>2. Sender(tx) = a => Addr2Shard[a] = s
  BY <1>1 DEF SendShard
<1>3. ASSUME Recipient(tx) = a PROVE Addr2Shard[a] = s
  <2>1. CASE IsBroker(Sender(tx))
    BY <1>3, <2>1 DEF SendShard
  <2>2. CASE ~IsBroker(Sender(tx))
    <3>1. tx.half = "raw"
      BY <1>1, <1>3, <2>2, BrokerAssumption DEF Sender, Recipient, IsBroker
    <3>2. Sender(tx) = Input[tx.line].sender /\ Recipient(tx) = Input[tx.line].recipient
      BY <3>1 DEF Sender, Recipient
    <3>3. Addr2Shard[Sender(tx)] = Addr2Shard[a]
      BY <1>1, <1>3, <2>2, <3>1, <3>2 DEF WellSplit, NeedsBroker
    <3> QED  BY <2>2, <3>3 DEF SendShard
  <2> QED  BY <2>1, <2>2
<1> QED  BY <1>2, <1>3

\* What a transaction does to a client's balance in the shard that executes it.
LEMMA TxGain ==
  ASSUME NEW tx, WellSplit(tx), NEW s \in Shards, SendShard(tx) = s, NEW a \in Clients, NEW st
  PROVE  Gain({a}, st, Addr2Shard, s, Field(tx))
           = GainOf(a, tx, Insufficient(st, Addr2Shard, s, Field(tx)))
<1>1. PICK f : f = Field(tx)
  OBVIOUS
<1>2. /\ f.sender = Sender(tx) /\ f.recipient = Recipient(tx) /\ f.value = Input[tx.line].value
      /\ f.relayed = FALSE
  BY <1>1 DEF Field
<1>3. /\ Sender(tx) = a => Debits(Addr2Shard, s, f)
      /\ Recipient(tx) = a => Local(Addr2Shard, s, f.recipient, f)
  BY <1>2, ClientEnds DEF Local, Debits
<1>4. Gain({a}, st, Addr2Shard, s, f)
        = IF Insufficient(st, Addr2Shard, s, f) THEN 0
          ELSE (IF Recipient(tx) = a THEN Input[tx.line].value ELSE 0)
               - (IF Sender(tx) = a THEN Input[tx.line].value ELSE 0)
  BY <1>2, <1>3 DEF Gain
<1> QED  BY <1>1, <1>4 DEF GainOf

\* The transactions of a block in consensus.
LEMMA BodyWellSplit ==
  ASSUME Placed, NEW s \in Shards, NEW b, NEW body, Commits(s, b, body), NEW i \in 1..Len(body)
  PROVE  WellSplit(body[i]) /\ SendShard(body[i]) = s /\ body[i] \in Range(body)
<1>1. /\ body \in Seq(Txs) /\ Range(body) \subseteq Range(Held(s))
      /\ \A u \in Range(body) : u \in Txs /\ SendShard(u) = s
  BY DEF Commits
<1>2. PICK tx : tx = body[i]
  OBVIOUS
<1>3. tx \in Range(body) /\ tx \in Range(Held(s))
  BY <1>1, <1>2 DEF Range
<1>4. tx \in Somewhere /\ tx \in Txs /\ SendShard(tx) = s
  BY <1>1, <1>3, SomewhereIs
<1>5. tx.half = "raw" => ~NeedsBroker(tx.line)
  BY <1>4 DEF Placed, Issued
<1>6. (tx.half = "tx1" => NeedsBroker(tx.line)) /\ (tx.half = "tx2" => NeedsBroker(tx.line))
  BY <1>3, Classes
<1> QED  BY <1>2, <1>3, <1>4, <1>5, <1>6 DEF WellSplit

\* What a client gains from each transaction of a block.
LEMMA BlockGains ==
  ASSUME Placed, NEW s \in Shards, NEW b, NEW body, Commits(s, b, body), NEW a \in Clients,
         NEW i \in 1..Len(body)
  PROVE  Gains({a}, b, Addr2Shard, s, Fields(body))[i]
           = GainOf(a, body[i], i \in Skipped(b, Addr2Shard, s, Fields(body)))
<1>0. body \in Seq(Txs)
  BY DEF Commits
<1>1. PICK txs : txs = Fields(body)
  OBVIOUS
<1>2. PICK st, tx : st = Tries(b, Addr2Shard, s, txs)[i - 1] /\ tx = body[i]
  OBVIOUS
<1>3. Len(txs) = Len(body) /\ DOMAIN txs = 1..Len(body) /\ txs[i] = Field(tx)
  BY <1>0, <1>1, <1>2, FieldsType
<1>4. WellSplit(tx) /\ SendShard(tx) = s
  BY <1>2, BodyWellSplit
<1>5. Gain({a}, st, Addr2Shard, s, Field(tx))
        = GainOf(a, tx, Insufficient(st, Addr2Shard, s, Field(tx)))
  BY <1>4, TxGain
<1>6. Gains({a}, b, Addr2Shard, s, txs)[i] = Gain({a}, st, Addr2Shard, s, txs[i])
  BY <1>2, <1>3 DEF Gains
<1>7. i \in Skipped(b, Addr2Shard, s, txs) <=> Insufficient(st, Addr2Shard, s, txs[i])
  BY <1>2, <1>3 DEF Skipped
<1>8. GainOf(a, tx, Insufficient(st, Addr2Shard, s, txs[i]))
        = GainOf(a, tx, i \in Skipped(b, Addr2Shard, s, txs))
  BY <1>7 DEF GainOf
<1> QED  BY <1>1, <1>2, <1>3, <1>5, <1>6, <1>8

\* The value of one account is its balance.
LEMMA SumOne ==
  ASSUME NEW a, NEW f, f[a] \in Int
  PROVE  IsFiniteSet({a}) /\ SumFunctionOnSet(f, {a}) = f[a]
<1>1. PICK E : E = {}
  OBVIOUS
<1>2. IsFiniteSet(E) /\ a \notin E /\ \A y \in E : f[y] \in Int
  BY <1>1, FS_EmptySet
<1>3. SumFunctionOnSet(f, E \cup {a}) = SumFunctionOnSet(f, E) + f[a]
  BY <1>2, SumAdd
<1>4. SumFunctionOnSet(f, E) = 0
  BY <1>1, <1>2, SumType
<1>5. E \cup {a} = {a}
  BY <1>1
<1>6. SumFunctionOnSet(f, {a}) = 0 + f[a]
  BY <1>3, <1>4, <1>5
<1>7. IsFiniteSet({a})
  BY FS_Singleton
<1> QED  BY <1>6, <1>7

\* The balances that are right for a client in a shard.
RightFor(a, s) ==
  {st \in Trie(Accounts) : st[a] >= 0 /\ (Addr2Shard[a] # s => st[a] = Init_Balance)}

\* A transaction overdraws no client, and changes none of another shard.
LEMMA ApplyRight ==
  ASSUME NEW tx, WellSplit(tx), NEW s \in Shards, SendShard(tx) = s, NEW a \in Clients,
         NEW st \in RightFor(a, s), Field(tx) \in TxOver(Accounts)
  PROVE  Apply(st, Addr2Shard, s, Field(tx)) \in RightFor(a, s)
<1>1. PICK f \in TxOver(Accounts) : f = Field(tx)
  OBVIOUS
<1>2. PICK c : c = Apply(st, Addr2Shard, s, f)
  OBVIOUS
<1>3. st \in Trie(Accounts) /\ st[a] \in Int /\ a \in Accounts /\ c \in Trie(Accounts) /\ c[a] \in Int
  <2>1. st \in [Accounts -> Int] /\ a \in Accounts
    BY DEF RightFor, Trie, Clients
  <2>2. c \in [Accounts -> Int]
    BY <1>2, <2>1, ApplyType
  <2> QED  BY <2>1, <2>2 DEF Trie
<1>4. PICK D, g : D = {a} /\ g = Gain({a}, st, Addr2Shard, s, f)
  OBVIOUS
<1>5. g \in Int /\ c[a] = st[a] + g
  <2>1. D \in SUBSET Accounts /\ IsFiniteSet(D)
    BY <1>3, <1>4, SumOne
  <2>2. g \in Int /\ SumFunctionOnSet(c, D) = SumFunctionOnSet(st, D) + g
    BY <1>2, <1>3, <1>4, <2>1, ApplyGain
  <2>3. SumFunctionOnSet(c, D) = c[a] /\ SumFunctionOnSet(st, D) = st[a]
    BY <1>3, <1>4, SumOne
  <2> QED  BY <2>2, <2>3
<1>6. PICK v \in Nat : v = Input[tx.line].value
  BY TxsType, InputType DEF WellSplit
<1>7. PICK k : k = Insufficient(st, Addr2Shard, s, f)
  OBVIOUS
<1>8. g = IF k THEN 0 ELSE (IF Recipient(tx) = a THEN v ELSE 0) - (IF Sender(tx) = a THEN v ELSE 0)
  BY <1>1, <1>4, <1>6, <1>7, TxGain DEF GainOf
<1>9. Addr2Shard[a] # s => g = 0
  BY <1>8, ClientEnds
<1>10. ~k /\ Sender(tx) = a => st[a] >= v
  <2>1. f.sender = Sender(tx) /\ f.value = v /\ f.relayed = FALSE
    BY <1>1, <1>6 DEF Field
  <2>2. Sender(tx) = a => Debits(Addr2Shard, s, f)
    BY <2>1, ClientEnds DEF Debits, Local
  <2>3. Sender(tx) = a => (k <=> st[a] < v)
    BY <1>7, <2>1, <2>2, Zenon DEF Insufficient
  <2>4. PICK y : y = st[a] /\ y \in Int
    BY <1>3
  <2>5. ~(y < v) => y >= v
    BY <1>6, <2>4
  <2> QED  BY <2>3, <2>4, <2>5, Zenon
<1>11. c[a] >= 0
  BY <1>3, <1>5, <1>6, <1>8, <1>10 DEF RightFor
<1>12. Addr2Shard[a] # s => c[a] = Init_Balance
  BY <1>3, <1>5, <1>9 DEF RightFor
<1> QED  BY <1>1, <1>2, <1>3, <1>11, <1>12 DEF RightFor

\* A block leaves every client what it gains from its transactions.
LEMMA CommitClient ==
  ASSUME Placed, NEW s \in Shards, NEW b, NEW body, Commits(s, b, body), NEW a \in Clients,
         b \in RightFor(a, s)
  PROVE  /\ \A i \in 1..Len(body) : Gains({a}, b, Addr2Shard, s, Fields(body))[i] \in Int
         /\ balance'[s] \in RightFor(a, s)
         /\ balance'[s][a] = balance[s][a]
              + SumFunctionOnSet(Gains({a}, b, Addr2Shard, s, Fields(body)), 1..Len(body))
<1>0. TypeOK /\ b \in Balances /\ body \in Seq(Txs) /\ b = balance[s]
  BY DEF Placed, Commits
<1>1. PICK txs, A, D : txs = Fields(body) /\ A = Accounts /\ D = {a}
  OBVIOUS
<1>2. Len(txs) = Len(body) /\ txs \in Seq(TxOver(A)) /\ \A i \in 1..Len(body) : txs[i] = Field(body[i])
  BY <1>0, <1>1, FieldsType
<1>3. a \in A /\ D \in SUBSET A /\ b \in Trie(A) /\ b[a] \in Int
  BY <1>0, <1>1 DEF Clients, Balances, Trie
<1>4. PICK c, e : c = GetUpdateStatusTrie(b, Addr2Shard, s, txs) /\ e = Gains(D, b, Addr2Shard, s, txs)
  OBVIOUS
<1>5. IsFiniteSet(D) /\ SumFunctionOnSet(b, D) = b[a]
  BY <1>1, <1>3, SumOne
<1>6. /\ \A i \in 1..Len(txs) : e[i] \in Int
      /\ c \in Trie(A)
      /\ SumFunctionOnSet(c, D) = SumFunctionOnSet(b, D) + SumFunctionOnSet(e, 1..Len(txs))
  BY <1>2, <1>3, <1>4, <1>5, BlockGain
<1>7. SumFunctionOnSet(c, D) = c[a]
  BY <1>1, <1>3, <1>6, SumOne DEF Trie
<1>8. c \in RightFor(a, s)
  <2>1. PICK n \in Nat : n = Len(txs)
    BY <1>2, LenProperties
  <2>2. PICK B : B = RightFor(a, s)
    OBVIOUS
  <2>3. ASSUME NEW st \in B, NEW i \in 1..n PROVE Apply(st, Addr2Shard, s, txs[i]) \in B
    <3>1. WellSplit(body[i]) /\ SendShard(body[i]) = s
      BY <1>2, <2>1, BodyWellSplit
    <3>2. txs[i] = Field(body[i]) /\ txs[i] \in TxOver(Accounts)
      BY <1>1, <1>2, <2>1, ElementOfSeq
    <3> QED  BY <2>2, <3>1, <3>2, ApplyRight
  <2>4. Keep(B, Addr2Shard, s, txs, n)
    BY <2>1, <2>3 DEF Keep
  <2>5. \A i \in 0..n : Tries(b, Addr2Shard, s, txs)[i] \in B
    <3>1. b \in B
      BY <2>2
    <3> QED  BY ONLY <2>4, <3>1, n \in Nat, TriesSteps
  <2>6. n \in 0..n
    OBVIOUS
  <2> QED  BY <1>4, <2>1, <2>2, <2>5, <2>6 DEF GetUpdateStatusTrie
<1>9. balance'[s] = c
  BY <1>0, <1>1, <1>4 DEF Commits, TypeOK
<1> QED  BY <1>0, <1>1, <1>2, <1>4, <1>5, <1>6, <1>7, <1>8, <1>9

\* There are finitely many transactions.
LEMMA TxsFinite == IsFiniteSet(Txs)
<1>1. IsFiniteSet(Lines)
  <2>1. Len(Input) \in Int /\ Lines = 1..Len(Input)
    BY InputType
  <2> QED  BY <2>1, FS_Interval
<1>2. PICK f, g, h : /\ f = [l \in Lines |-> Tx(l, "raw")] /\ g = [l \in Lines |-> Tx(l, "tx1")]
                     /\ h = [l \in Lines |-> Tx(l, "tx2")]
  OBVIOUS
<1>3. PICK F, G, H : F = {f[l] : l \in Lines} /\ G = {g[l] : l \in Lines} /\ H = {h[l] : l \in Lines}
  OBVIOUS
<1>4. IsFiniteSet(F) /\ IsFiniteSet(G) /\ IsFiniteSet(H)
  BY <1>1, <1>3, FiniteImage
<1>5. PICK U : U = F \cup G
  OBVIOUS
<1>6. IsFiniteSet(U)
  BY <1>4, <1>5, FS_Union
<1>7. IsFiniteSet(U \cup H)
  BY <1>4, <1>6, FS_Union
<1>8. ASSUME NEW tx \in Txs PROVE tx \in U \cup H
  <2>1. tx.line \in Lines /\ tx.half \in {"raw", "tx1", "tx2"} /\ tx = Tx(tx.line, tx.half)
    BY TxsType
  <2>2. PICK l \in Lines : l = tx.line
    BY <2>1
  <2>3. CASE tx.half = "raw"
    <3>1. tx = f[l]
      BY <1>2, <2>1, <2>2, <2>3
    <3> QED  BY <1>3, <1>5, <3>1
  <2>4. CASE tx.half = "tx1"
    <3>1. tx = g[l]
      BY <1>2, <2>1, <2>2, <2>4
    <3> QED  BY <1>3, <1>5, <3>1
  <2>5. CASE tx.half = "tx2"
    <3>1. tx = h[l]
      BY <1>2, <2>1, <2>2, <2>5
    <3> QED  BY <1>3, <1>5, <3>1
  <2> QED  BY <2>1, <2>3, <2>4, <2>5
<1>9. Txs \in SUBSET (U \cup H)
  BY <1>8
<1> QED  BY <1>7, <1>9, FS_Subset

\* What a client gains is a number.
LEMMA GainedIs ==
  ASSUME NEW a
  PROVE  \A tx \in Txs : Gained(a)[tx] = GainOf(a, tx, tx \in skipped) /\ Gained(a)[tx] \in Int
<1>1. SUFFICES ASSUME NEW tx \in Txs
               PROVE  Gained(a)[tx] = GainOf(a, tx, tx \in skipped) /\ Gained(a)[tx] \in Int
  OBVIOUS
<1>2. Gained(a)[tx] = GainOf(a, tx, tx \in skipped)
  BY DEF Gained, GainOf
<1>3. Input[tx.line].value \in Nat
  BY TxsType, InputType
<1>4. GainOf(a, tx, tx \in skipped) \in Int
  BY <1>3 DEF GainOf
<1> QED  BY <1>2, <1>4

\* The executed transactions keep their gains when a block is executed, and those of
\* the block get what they have in it.
LEMMA CommitGained ==
  ASSUME Placed, SkippedExecuted, NEW s \in Shards, NEW b, NEW body, Commits(s, b, body),
         NEW a \in Clients
  PROVE  /\ \A tx \in AllExecuted : Gained(a)'[tx] = Gained(a)[tx]
         /\ \A i \in 1..Len(body) :
              Gained(a)'[body[i]] = Gains({a}, b, Addr2Shard, s, Fields(body))[i]
<1>0. /\ TypeOK /\ body \in Seq(Txs) /\ IsInjective(body) /\ AllExecuted \cap Range(body) = {}
  BY DEF Placed, Commits
<1>1. PICK K : K = Skipped(b, Addr2Shard, s, Fields(body))
  OBVIOUS
<1>2. K \subseteq 1..Len(body)
  BY <1>0, <1>1, FieldsType DEF Skipped
<1>3. skipped' = skipped \cup {body[i] : i \in K}
  BY <1>1 DEF Commits
<1>4. \A i \in 1..Len(body) : body[i] \in Range(body) /\ body[i] \in Txs
  BY <1>0, BodyWellSplit, ElementOfSeq
<1>5. \A tx \in Txs : Gained(a)'[tx] = GainOf(a, tx, tx \in skipped')
  BY DEF Gained, GainOf, Sender, Recipient
<1>6. ASSUME NEW tx \in AllExecuted PROVE Gained(a)'[tx] = Gained(a)[tx]
  <2>1. tx \in Txs /\ tx \notin Range(body)
    BY <1>0, ExecutedType
  <2>2. tx \in skipped' <=> tx \in skipped
    BY <1>2, <1>3, <1>4, <2>1
  <2>3. GainOf(a, tx, tx \in skipped') = GainOf(a, tx, tx \in skipped)
    BY <2>2 DEF GainOf
  <2> QED  BY <1>5, <2>1, <2>3, GainedIs
<1>7. ASSUME NEW i \in 1..Len(body)
      PROVE  Gained(a)'[body[i]] = Gains({a}, b, Addr2Shard, s, Fields(body))[i]
  <2>1. body[i] \notin skipped
    BY <1>0, <1>4 DEF SkippedExecuted
  <2>2. \A j \in K : body[j] = body[i] => j = i
    <3>1. DOMAIN body = 1..Len(body)
      BY <1>0
    <3> QED  BY <1>0, <1>2, <3>1 DEF IsInjective
  <2>3. body[i] \in skipped' <=> i \in K
    BY <1>3, <2>1, <2>2
  <2>4. GainOf(a, body[i], body[i] \in skipped') = GainOf(a, body[i], i \in K)
    BY <2>3 DEF GainOf
  <2>5. Gains({a}, b, Addr2Shard, s, Fields(body))[i] = GainOf(a, body[i], i \in K)
    BY <1>1, BlockGains
  <2> QED  BY <1>4, <1>5, <2>4, <2>5
<1> QED  BY <1>6, <1>7

\* What is skipped is executed.
LEMMA SkippedStep == Placed /\ SkippedExecuted /\ [Next]_vars => SkippedExecuted'
<1>1. SUFFICES ASSUME Placed, SkippedExecuted, [Next]_vars PROVE SkippedExecuted'
  OBVIOUS
<1>2. CASE UNCHANGED <<blocks, skipped>>
  BY <1>1, <1>2 DEF SkippedExecuted, AllExecuted
<1>3. ASSUME NEW s \in Shards, HandleinCommit(s) PROVE SkippedExecuted'
  <2>1. PICK b, body : Commits(s, b, body)
    BY <1>1, <1>3, CommitState
  <2>2. /\ body \in Seq(Txs) /\ AllExecuted' = AllExecuted \cup Range(body)
        /\ skipped' = skipped \cup {body[i] : i \in Skipped(b, Addr2Shard, s, Fields(body))}
    BY <2>1 DEF Commits
  <2>3. \A i \in Skipped(b, Addr2Shard, s, Fields(body)) : i \in 1..Len(body)
    BY <2>2, FieldsType DEF Skipped
  <2>4. \A i \in Skipped(b, Addr2Shard, s, Fields(body)) : body[i] \in Range(body)
    BY <1>1, <2>1, <2>3, BodyWellSplit
  <2> QED  BY <1>1, <2>2, <2>4 DEF SkippedExecuted
<1> QED
  BY <1>1, <1>2, <1>3 DEF Next, vars, supervisor, shards, TxHandling, handleBlockInfos, handleInjectTx,
                          HandleinPropose, TcpDialFails

\* ClientBalances for one client in one shard.
Settled(a, s) ==
  /\ balance[s][a] = Init_Balance + SumFunctionOnSet(Gained(a), Range(blocks[s]))
  /\ balance[s] \in RightFor(a, s)

\* The two say the same.
LEMMA SettledIs == TypeOK => (ClientBalances <=> \A s \in Shards : \A a \in Clients : Settled(a, s))
<1>1. SUFFICES ASSUME TypeOK
               PROVE  ClientBalances <=> \A s \in Shards : \A a \in Clients : Settled(a, s)
  OBVIOUS
<1>2. \A s \in Shards : balance[s] \in Trie(Accounts)
  BY <1>1 DEF TypeOK, Balances, Trie
<1> QED  BY <1>2 DEF ClientBalances, Settled, RightFor, Clients

\* The sums are over finite sets of numbers.
LEMMA GainedFinite ==
  ASSUME TypeOK, NEW u \in Shards, NEW a
  PROVE  /\ IsFiniteSet(Range(blocks[u])) /\ Range(blocks[u]) \subseteq AllExecuted
         /\ \A tx \in Range(blocks[u]) : Gained(a)[tx] \in Int
<1>1. Range(blocks[u]) \in SUBSET Txs /\ Range(blocks[u]) \subseteq AllExecuted
  BY ExecutedType
<1> QED  BY <1>1, TxsFinite, FS_Subset, GainedIs

\* Every step leaves clients what the executed transactions give them.
LEMMA ClientStep ==
  Placed /\ SkippedExecuted /\ ClientBalances /\ [Next]_vars => ClientBalances'
<1>1. SUFFICES ASSUME Placed, SkippedExecuted, ClientBalances, [Next]_vars
               PROVE  ClientBalances'
  OBVIOUS
<1>2. CASE UNCHANGED <<balance, blocks, skipped>>
  BY <1>1, <1>2 DEF ClientBalances, Gained, Sender, Recipient
<1>3. ASSUME NEW s \in Shards, HandleinCommit(s) PROVE ClientBalances'
  <2>0. TypeOK /\ TypeOK' /\ \A u \in Shards : \A a \in Clients : Settled(a, u)
    BY <1>1, TypeStep, SettledIs DEF Placed
  <2>1. PICK b, body : Commits(s, b, body)
    BY <1>1, <1>3, CommitState
  <2>2. b = balance[s] /\ \A u \in Shards \ {s} :
                            balance'[u] = balance[u] /\ Range(blocks'[u]) = Range(blocks[u])
    BY <2>0, <2>1 DEF Commits, TypeOK
  <2>3. ASSUME NEW a \in Clients, NEW u \in Shards \ {s} PROVE Settled(a, u)'
    <3>1. PICK X, f, g : X = Range(blocks[u]) /\ f = Gained(a) /\ g = Gained(a)'
      OBVIOUS
    <3>2. IsFiniteSet(X) /\ \A tx \in X : f[tx] \in Int /\ g[tx] = f[tx]
      BY <1>1, <2>0, <2>1, <3>1, GainedFinite, CommitGained
    <3>3. SumFunctionOnSet(g, X) = SumFunctionOnSet(f, X)
      BY <3>2, SumSame
    <3>4. Settled(a, u)
      BY <2>0
    <3> QED  BY <2>2, <3>1, <3>3, <3>4 DEF Settled, RightFor
  <2>4. ASSUME NEW a \in Clients PROVE Settled(a, s)'
    <3>1. PICK e : e = Gains({a}, b, Addr2Shard, s, Fields(body))
      OBVIOUS
    <3>2. Settled(a, s) /\ b \in RightFor(a, s)
      BY <2>0, <2>2 DEF Settled
    <3>3. /\ \A i \in 1..Len(body) : e[i] \in Int
          /\ balance'[s] \in RightFor(a, s)
          /\ balance'[s][a] = balance[s][a] + SumFunctionOnSet(e, 1..Len(body))
      BY <1>1, <2>1, <3>1, <3>2, CommitClient
    <3>4. PICK X, f, g : X = Range(blocks[s]) /\ f = Gained(a) /\ g = Gained(a)'
      OBVIOUS
    <3>5. IsFiniteSet(X) /\ X \subseteq AllExecuted /\ \A tx \in X : f[tx] \in Int
      BY <2>0, <3>4, GainedFinite
    <3>6. /\ \A tx \in X : g[tx] = f[tx]
          /\ \A i \in 1..Len(body) : g[body[i]] = e[i]
      BY <1>1, <2>1, <3>1, <3>4, <3>5, CommitGained
    <3>7. /\ body \in Seq(Txs) /\ IsInjective(body) /\ X \cap Range(body) = {}
          /\ Range(blocks'[s]) = X \cup Range(body)
      BY <2>1, <3>4, <3>5 DEF Commits
    <3>8. SumFunctionOnSet(g, X \cup Range(body))
            = SumFunctionOnSet(f, X) + SumFunctionOnSet(e, 1..Len(body))
      <4>1. Joins(X, Txs, body, f, g, e)
        BY <3>3, <3>5, <3>6, <3>7 DEF Joins
      <4> QED  BY <4>1, SumExtend
    <3>9. SumFunctionOnSet(f, X) \in Int
      BY <3>5, SumType
    <3>10. SumFunctionOnSet(e, 1..Len(body)) \in Int
      <4>1. Len(body) \in Int
        BY <3>7, LenProperties
      <4>2. IsFiniteSet(1..Len(body))
        BY <4>1, FS_Interval
      <4> QED  BY <3>3, <4>2, SumType
    <3>11. balance[s][a] = Init_Balance + SumFunctionOnSet(f, X) /\ Init_Balance \in Int
      BY <3>2, <3>4, BrokerAssumption DEF Settled
    <3>12. balance'[s][a] = Init_Balance + SumFunctionOnSet(g, X \cup Range(body))
      BY <3>3, <3>8, <3>9, <3>10, <3>11
    <3> QED  BY <3>3, <3>4, <3>7, <3>12 DEF Settled, RightFor
  <2>5. \A u \in Shards : \A a \in Clients : Settled(a, u)'
    BY <2>3, <2>4
  <2> QED  BY <2>5 DEF ClientBalances, Settled, RightFor, Clients
<1> QED
  BY <1>1, <1>2, <1>3 DEF Next, vars, supervisor, shards, TxHandling, handleBlockInfos, handleInjectTx,
                          HandleinPropose, TcpDialFails

\* At the start every account has Init_Balance and nothing was executed.
LEMMA ClientInit == Init => ClientBalances
<1>1. SUFFICES ASSUME Init PROVE ClientBalances
  OBVIOUS
<1>2. SUFFICES ASSUME NEW s \in Shards, NEW a \in Accounts \ Brokers
               PROVE  /\ balance[s][a] = Init_Balance + SumFunctionOnSet(Gained(a), Range(blocks[s]))
                      /\ balance[s][a] >= 0 /\ balance[s][a] = Init_Balance
  BY DEF ClientBalances
<1>3. balance[s][a] = Init_Balance /\ Init_Balance \in Nat
  BY <1>1, BrokerAssumption DEF Init
<1>4. PICK X, f : X = Range(blocks[s]) /\ f = Gained(a)
  OBVIOUS
<1>5. X = {}
  BY <1>1, <1>4 DEF Init, Range
<1>6. IsFiniteSet(X) /\ \A x \in X : f[x] \in Int
  BY <1>5, FS_EmptySet
<1>7. SumFunctionOnSet(f, X) = 0
  BY <1>5, <1>6, SumType
<1> QED  BY <1>3, <1>4, <1>7

-----------------------------------------------------------------------------
(***************************************************************************)
(* The theorems.                                                           *)
(***************************************************************************)

\* The places of transactions, the confirmations, the reports under way and the balances
\* of clients are as described in every state of the system.
THEOREM BrokerInductive == Spec => []IInv
<1>1. Init => IInv
  BY PlacedInit, KnownInit, ClientInit DEF IInv
<1>2. IInv /\ [Next]_vars => IInv'
  BY PlacedStep, ConfirmationsStep, ReportedStep, SkippedStep, ClientStep DEF IInv
<1> QED  BY <1>1, <1>2, PTL DEF Spec

\* The supervisor never issues a second half before the first was executed and reported,
\* never issues one twice, and no transfer is executed both whole and in halves,
\* whatever reports and transactions are lost or overtake each other.
THEOREM BrokerHalvesInOrder == Spec => []HalvesInOrder
<1>1. ASSUME IInv PROVE HalvesInOrder
  <2>1. TypeOK /\ OneCopy /\ Issued /\ Split
    BY <1>1 DEF IInv, Placed
  <2>2. ASSUME NEW l \in Lines
        PROVE  /\ ~({Tx(l, "raw"), Tx(l, "tx1")} \subseteq Somewhere)
               /\ Tx(l, "tx2") \in Somewhere => Executed(Tx(l, "tx1"), SenderShard(l))
    <3>1. /\ Tx(l, "raw").line = l /\ Tx(l, "raw").half = "raw"
          /\ Tx(l, "tx1").line = l /\ Tx(l, "tx1").half = "tx1"
          /\ Tx(l, "tx2").line = l /\ Tx(l, "tx2").half = "tx2"
      BY DEF Tx
    <3>2. Tx(l, "raw") \in Somewhere => ~NeedsBroker(l)
      BY <2>1, <3>1 DEF Issued
    <3>3. Tx(l, "tx1") \in Somewhere => NeedsBroker(l)
      BY <2>1, <3>1 DEF Issued, Split
    <3>4. Tx(l, "tx2") \in Somewhere => Executed(Tx(l, "tx1"), SenderShard(l))
      BY <2>1, <3>1 DEF Issued, Split
    <3> QED  BY <3>2, <3>3, <3>4
  <2> QED  BY <2>1, <2>2 DEF HalvesInOrder
<1> QED  BY <1>1, BrokerInductive, PTL

\* What the supervisor holds for confirmed was executed, and the first half before the
\* second.
THEOREM BrokerConfirmedExecuted == Spec => []ConfirmedExecuted
<1>1. ASSUME IInv PROVE ConfirmedExecuted
  <2>1. Confirmations /\ Split
    BY <1>1 DEF IInv, Placed
  <2>2. <<>> # <<"tx1">> /\ <<>> # <<"tx1", "tx2">> /\ <<"tx1">> # <<"tx1", "tx2">>
    OBVIOUS
  <2>3. ASSUME NEW l \in Lines
        PROVE  /\ RawTx2BrokerTx[l] \in {<<>>, <<"tx1">>, <<"tx1", "tx2">>}
               /\ RawTx2BrokerTx[l] # <<>> => Executed(Tx(l, "tx1"), SenderShard(l))
               /\ RawTx2BrokerTx[l] = <<"tx1", "tx2">> => Executed(Tx(l, "tx2"), RecipientShard(l))
    <3>1. CASE l \in brokerConfirm2Pool
      BY <2>1, <2>2, <3>1 DEF Confirmations, Split
    <3>2. CASE l \notin brokerConfirm2Pool
      BY <2>1, <2>2, <3>2 DEF Confirmations
    <3> QED  BY <3>1, <3>2
  <2> QED  BY <2>3 DEF ConfirmedExecuted
<1> QED  BY <1>1, BrokerInductive, PTL

\* Every client has, in the shard its address belongs to, its first balance and what the
\* transactions of that chain moved from and to it, is never overdrawn, and has no other
\* balance elsewhere.
THEOREM BrokerClientBalances == Spec => []ClientBalances
<1>1. IInv => ClientBalances
  BY DEF IInv
<1> QED  BY <1>1, BrokerInductive, PTL
=============================================================================
