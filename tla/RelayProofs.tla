----------------------------- MODULE RelayProofs -----------------------------
(***************************************************************************)
(* Proofs about Relay, for every input file, partition of the accounts,    *)
(* batch and block size and every number of lost messages: no transaction  *)
(* is executed twice or in a wrong shard, and the value of all shards is   *)
(* the initial one up to what is in transit and what skipped debits        *)
(* create.                                                                 *)
(***************************************************************************)
EXTENDS Relay, LedgerTheorems

\* The shard that executes a transaction next.
Home(tx) == Addr2Shard[IF tx.relayed THEN Input[tx.line].recipient ELSE Input[tx.line].sender]

\* The batch that the supervisor collects or sends: each transaction once, none
\* of them injected yet, none from a line that was not read.
Collected ==
  /\ IsInjective(txlist)
  /\ \A tx \in Range(txlist) : ~tx.relayed /\ tx \notin Somewhere
  /\ \A tx \in Range(txlist) \cup Somewhere : tx.line <= line

\* Transactions are and go only where they are executed.
Routed ==
  /\ \A s \in Shards : \A tx \in Range(Held(s)) : Home(tx) = s
  /\ \A m \in Messages : \A tx \in Range(m.txs) : Home(tx) = m.to

\* A second half of a transaction exists only after the first was executed.
RelayedAfter ==
  \A tx \in Somewhere : tx.relayed =>
    Cross(tx.line) /\ Executed(tx.line, Addr2Shard[Input[tx.line].sender], FALSE)

Placed == TypeOK /\ Collected /\ Routed /\ OneCopy /\ RelayedAfter

\* The block in consensus carries the balances after it.
Proposed ==
  \A s \in Shards :
    IF proposal[s].open
      THEN proposal[s].state
             = GetUpdateStatusTrie(balance[s], Addr2Shard, s, Fields(proposal[s].body))
      ELSE proposal[s] = NoBlock

\* A shard changes only the accounts it owns and overdraws none.
Sound(s, st) ==
  \A a \in Accounts : IF Addr2Shard[a] = s THEN st[a] >= 0 ELSE st[a] = Init_Balance

OwnBalances == \A s \in Shards : Sound(s, balance[s])

\* What was skipped was executed in the sender's shard.
SkippedExecuted ==
  \A l \in skipped : Executed(l, Addr2Shard[Input[l].sender], FALSE)

\* What an executed transaction has added to the value of all shards.
Drift ==
  [tx \in Txs |->
     IF tx.relayed THEN Input[tx.line].value
     ELSE IF Cross(tx.line) /\ tx.line \notin skipped THEN -Input[tx.line].value ELSE 0]

AllExecuted == UNION {Range(blocks[s]) : s \in Shards}
Owned == [a \in Accounts |-> balance[Addr2Shard[a]][a]]

\* The value of all shards, transaction by transaction.
Balanced ==
  SumFunctionOnSet(Owned, Accounts)
    = Cardinality(Accounts) * Init_Balance + SumFunctionOnSet(Drift, AllExecuted)

IInv == Placed /\ Proposed /\ OwnBalances /\ SkippedExecuted /\ Balanced

-----------------------------------------------------------------------------
(***************************************************************************)
(* Types.                                                                  *)
(***************************************************************************)

\* A transaction is known by its line and whether it was relayed.
LEMMA TxsType ==
  /\ \A l \in Lines, r \in BOOLEAN :
       Tx(l, r) \in Txs /\ Tx(l, r).line = l /\ Tx(l, r).relayed = r
  /\ \A tx \in Txs : tx.line \in Lines /\ tx.relayed \in BOOLEAN /\ tx = Tx(tx.line, tx.relayed)
BY DEF Txs, Tx

\* What a line of the input file says.
LEMMA InputType ==
  /\ Lines = 1..Len(Input) /\ Len(Input) \in Nat
  /\ \A l \in Lines : /\ Input[l].sender \in Accounts /\ Input[l].recipient \in Accounts
                      /\ Input[l].value \in Nat /\ Input[l].legal \in BOOLEAN
                      /\ Addr2Shard[Input[l].sender] \in Shards
                      /\ Addr2Shard[Input[l].recipient] \in Shards
<1>1. Lines = 1..Len(Input) /\ Len(Input) \in Nat
  BY RelayAssumption, LenProperties DEF Lines
<1>2. \A l \in Lines :
        Input[l] \in [sender : Accounts, recipient : Accounts, value : Nat, legal : BOOLEAN]
  BY <1>1, RelayAssumption, ElementOfSeq
<1> QED  BY <1>1, <1>2, RelayAssumption

\* What the state transition reads of a block.
LEMMA FieldsType ==
  ASSUME NEW body \in Seq(Txs)
  PROVE  /\ Fields(body) \in Seq(TxOver(Accounts)) /\ Len(Fields(body)) = Len(body)
         /\ DOMAIN Fields(body) = 1..Len(body)
         /\ \A i \in 1..Len(body) :
              Fields(body)[i] =
                [sender |-> Input[body[i].line].sender, recipient |-> Input[body[i].line].recipient,
                 value |-> Input[body[i].line].value, relayed |-> body[i].relayed,
                 hasBroker |-> FALSE]
<1>1. Len(body) \in Nat /\ DOMAIN body = 1..Len(body) /\ \A i \in 1..Len(body) : body[i] \in Txs
  BY LenProperties, ElementOfSeq
<1> DEFINE r(i) == [sender |-> Input[body[i].line].sender,
                    recipient |-> Input[body[i].line].recipient,
                    value |-> Input[body[i].line].value, relayed |-> body[i].relayed,
                    hasBroker |-> FALSE]
<1>2. \A i \in 1..Len(body) : r(i) \in TxOver(Accounts)
  BY <1>1, TxsType, InputType DEF TxOver
<1>3. Fields(body) = [i \in 1..Len(body) |-> r(i)]
  BY <1>1 DEF Fields
<1> HIDE DEF r
<1>4. [i \in 1..Len(body) |-> r(i)] \in Seq(TxOver(Accounts))
  BY <1>1, <1>2
<1>5. /\ Len(Fields(body)) = Len(body) /\ DOMAIN Fields(body) = 1..Len(body)
      /\ \A i \in 1..Len(body) : Fields(body)[i] = r(i)
  BY <1>1, <1>3
<1> QED  BY <1>3, <1>4, <1>5 DEF r

\* The balances before and after each transaction of a block.
LEMMA BodyTries ==
  ASSUME NEW B, B \subseteq Balances, NEW st \in B, NEW s, NEW body \in Seq(Txs),
         \A b \in B : \A i \in 1..Len(body) : Apply(b, Addr2Shard, s, Fields(body)[i]) \in B
  PROVE  /\ Tries(st, Addr2Shard, s, Fields(body))[0] = st
         /\ \A i \in 1..Len(body) :
              Tries(st, Addr2Shard, s, Fields(body))[i]
                = Apply(Tries(st, Addr2Shard, s, Fields(body))[i - 1], Addr2Shard, s, Fields(body)[i])
         /\ \A i \in 0..Len(body) : Tries(st, Addr2Shard, s, Fields(body))[i] \in B
         /\ GetUpdateStatusTrie(st, Addr2Shard, s, Fields(body)) \in B
<1>1. PICK n \in Nat : n = Len(body)
  BY LenProperties
<1>2. PICK txs : txs = Fields(body)
  OBVIOUS
<1>3. Keep(B, Addr2Shard, s, txs, n)
  BY <1>1, <1>2, FieldsType DEF Keep
<1>4. /\ Tries(st, Addr2Shard, s, txs)[0] = st
      /\ \A i \in 1..n :
           Tries(st, Addr2Shard, s, txs)[i] = Apply(Tries(st, Addr2Shard, s, txs)[i - 1], Addr2Shard, s, txs[i])
      /\ \A i \in 0..n : Tries(st, Addr2Shard, s, txs)[i] \in B
      /\ GetUpdateStatusTrie(st, Addr2Shard, s, txs) \in B
  BY <1>3, TriesSteps
<1> QED  BY <1>1, <1>2, <1>4

\* A block leaves balances.
LEMMA StateType ==
  ASSUME NEW st \in Balances, NEW s, NEW body \in Seq(Txs)
  PROVE  GetUpdateStatusTrie(st, Addr2Shard, s, Fields(body)) \in Balances
<1>1. PICK B, b : B = Balances /\ b = st
  OBVIOUS
<1>2. \A c \in Balances : \A i \in 1..Len(body) :
         Apply(c, Addr2Shard, s, Fields(body)[i]) \in Balances
  <2>1. \A i \in 1..Len(body) : Fields(body)[i] \in TxOver(Accounts)
    BY FieldsType, ElementOfSeq
  <2> QED  BY <2>1, ApplyType DEF Balances
<1>3. b \in B /\ B \subseteq Balances
      /\ \A c \in B : \A i \in 1..Len(body) : Apply(c, Addr2Shard, s, Fields(body)[i]) \in B
  BY <1>1, <1>2
<1>4. GetUpdateStatusTrie(b, Addr2Shard, s, Fields(body)) \in B
  BY <1>3, BodyTries
<1> QED  BY <1>1, <1>4

\* The Relay message of a block to another shard: the transactions of the block with
\* a recipient there, each once, marked as relayed.
LEMMA RelayTxsProperties ==
  ASSUME NEW s, NEW t, NEW body \in Seq(Txs)
  PROVE  /\ RelayTxs(s, body, t) \in Seq(Txs)
         /\ \A tx \in Range(RelayTxs(s, body, t)) :
              /\ t # s /\ tx.relayed /\ tx \in Txs
              /\ \E u \in Range(body) :
                   tx.line = u.line /\ Addr2Shard[Input[u.line].recipient] = t
         /\ (IsInjective(body) /\ \A u \in Range(body) :
              Addr2Shard[Input[u.line].recipient] = t => ~u.relayed)
              => (t # s => IsInjective(RelayTxs(s, body, t)))
<1>1. CASE t = s
  <2>1. RelayTxs(s, body, t) = <<>> /\ <<>> \in Seq(Txs) /\ Range(<<>>) = {}
    BY <1>1 DEF RelayTxs, Range
  <2> QED  BY <1>1, <2>1
<1>2. CASE t # s
  <2> DEFINE T == {tx \in Range(body) : Addr2Shard[Input[tx.line].recipient] = t}
  <2>1. PICK part \in Seq(Txs) : /\ part = PaidIn(body, t)
                                 /\ Range(part) = Range(body) \cap T
                                 /\ IsInjective(body) => IsInjective(part)
    <3>1. PICK U : U = T
      OBVIOUS
    <3>2. /\ Select(body, U) \in Seq(Txs)
          /\ Range(Select(body, U)) = Range(body) \cap U
          /\ IsInjective(body) => IsInjective(Select(body, U))
      BY SelectProperties
    <3>3. Select(body, U) = PaidIn(body, t)
      BY <3>1 DEF PaidIn
    <3> QED  BY <3>1, <3>2, <3>3
  <2>2. Len(part) \in Nat /\ DOMAIN part = 1..Len(part) /\ \A i \in 1..Len(part) : part[i] \in Txs
    BY LenProperties, ElementOfSeq
  <2>4. PICK q : q = [i \in 1..Len(part) |-> Tx(part[i].line, TRUE)]
    OBVIOUS
  <2>5. RelayTxs(s, body, t) = q
    BY <1>2, <2>1, <2>2, <2>4 DEF RelayTxs
  <2>6. /\ \A i \in 1..Len(part) : Tx(part[i].line, TRUE) \in Txs
        /\ \A i \in 1..Len(part) : part[i] \in Range(body) /\ Addr2Shard[Input[part[i].line].recipient] = t
    <3>1. \A i \in 1..Len(part) : part[i] \in Range(part)
      BY <2>2 DEF Range
    <3> QED  BY <2>1, <2>2, <3>1, TxsType
  <2>7. q \in Seq(Txs) /\ DOMAIN q = 1..Len(part) /\ \A i \in 1..Len(part) : q[i] = Tx(part[i].line, TRUE)
    <3>1. DOMAIN q = 1..Len(part) /\ \A i \in 1..Len(part) : q[i] = Tx(part[i].line, TRUE)
      BY <2>4
    <3>2. q = [i \in 1..Len(part) |-> q[i]] /\ \A i \in 1..Len(part) : q[i] \in Txs
      BY <2>4, <2>6, <3>1
    <3>3. q \in Seq(Txs)
      BY <2>2, <3>2
    <3> QED  BY <3>1, <3>3
  <2>8. ASSUME NEW tx \in Range(q)
        PROVE  /\ tx.relayed /\ tx \in Txs
               /\ \E u \in Range(body) : tx.line = u.line /\ Addr2Shard[Input[u.line].recipient] = t
    <3>1. PICK i \in 1..Len(part) : tx = Tx(part[i].line, TRUE)
      <4>1. PICK i \in DOMAIN q : tx = q[i]
        BY DEF Range
      <4>2. i \in 1..Len(part) /\ q[i] = Tx(part[i].line, TRUE)
        BY <2>7
      <4> QED  BY <4>1, <4>2
    <3>2. tx.relayed /\ tx \in Txs /\ tx.line = part[i].line
      BY <2>2, <3>1, TxsType
    <3> QED  BY <2>6, <3>2
  <2>9. ASSUME IsInjective(body),
               \A u \in Range(body) : Addr2Shard[Input[u.line].recipient] = t => ~u.relayed
        PROVE  IsInjective(q)
    <3>1. SUFFICES ASSUME NEW i \in 1..Len(part), NEW j \in 1..Len(part),
                          Tx(part[i].line, TRUE) = Tx(part[j].line, TRUE)
                   PROVE  i = j
      BY <2>7 DEF IsInjective
    <3>2. part[i].line = part[j].line
      <4>1. \A l : Tx(l, TRUE).line = l
        BY DEF Tx
      <4> QED  BY <3>1, <4>1
    <3>3. part[i].relayed = FALSE /\ part[j].relayed = FALSE
      BY <2>2, <2>6, <2>9, TxsType
    <3>4. part[i] = part[j]
      BY <2>2, <3>2, <3>3, TxsType
    <3> QED  BY <2>1, <2>2, <2>9, <3>4 DEF IsInjective
  <2> QED  BY <1>2, <2>5, <2>7, <2>8, <2>9
<1> QED  BY <1>1, <1>2

\* What a shard holds is a sequence of transactions.
LEMMA HeldType ==
  ASSUME TypeOK, NEW s \in Shards
  PROVE  /\ blocks[s] \in Seq(Txs) /\ proposal[s].body \in Seq(Txs) /\ pool[s] \in Seq(Txs)
         /\ Held(s) \in Seq(Txs)
         /\ Range(Held(s)) = Range(blocks[s]) \cup Range(proposal[s].body) \cup Range(pool[s])
         /\ \A tx \in Range(Held(s)) : tx \in Txs
         /\ ~proposal[s].open => proposal[s] = NoBlock /\ proposal[s].body = <<>>
<1>1. proposal[s] \in {NoBlock} \cup [body : Seq(Txs), state : Balances, open : {TRUE}]
  BY DEF TypeOK
<1>2. NoBlock.body = <<>> /\ <<>> \in Seq(Txs) /\ NoBlock.open = FALSE
  BY DEF NoBlock
<1>3. blocks[s] \in Seq(Txs) /\ proposal[s].body \in Seq(Txs) /\ pool[s] \in Seq(Txs)
  BY <1>1, <1>2 DEF TypeOK
<1>4. PICK p \in Seq(Txs), q \in Seq(Txs), r \in Seq(Txs) :
        p = blocks[s] /\ q = proposal[s].body /\ r = pool[s]
  BY <1>3
<1>5. p \o q \in Seq(Txs) /\ Range(p \o q) = Range(p) \cup Range(q)
  BY ConcatRange
<1>6. PICK u \in Seq(Txs) : u = p \o q
  BY <1>5
<1>7. u \o r \in Seq(Txs) /\ Range(u \o r) = Range(u) \cup Range(r)
  BY ConcatRange
<1>8. Held(s) = u \o r
  BY <1>4, <1>6 DEF Held
<1>9. \A h \in Seq(Txs) : \A tx \in Range(h) : tx \in Txs
  BY RangeOfSeq
<1> QED  BY <1>1, <1>2, <1>3, <1>4, <1>5, <1>6, <1>7, <1>8, <1>9

\* A transaction is somewhere when a shard or a message holds it.
LEMMA SomewhereIs ==
  \A tx : tx \in Somewhere <=> \/ \E s \in Shards : tx \in Range(Held(s))
                               \/ \E m \in Messages : tx \in Range(m.txs)
BY DEF Somewhere

\* The members of messages are transactions, and no message is both an InjectTxs
\* and a Relay message.
LEMMA MessagesType ==
  ASSUME TypeOK
  PROVE  /\ \A m \in Messages : m.to \in Shards /\ m.txs \in Seq(Txs)
         /\ \A m \in Messages : \A tx \in Range(m.txs) : tx \in Txs
         /\ injects \cap relays = {}
         /\ \A tx \in Somewhere : tx \in Txs
<1>1. /\ \A m \in injects : m \in [to : Shards, txs : Seq(Txs)]
      /\ \A m \in relays : m \in [from : Shards, to : Shards, txs : Seq(Txs)]
  BY DEF TypeOK
<1>2. \A m \in Messages : m.to \in Shards /\ m.txs \in Seq(Txs)
  BY <1>1 DEF Messages
<1>3. \A h \in Seq(Txs) : \A tx \in Range(h) : tx \in Txs
  BY RangeOfSeq
<1>4. ASSUME NEW m \in injects, m \in relays PROVE FALSE
  <2>1. DOMAIN m = {"to", "txs"}
    BY <1>1
  <2>2. DOMAIN m = {"from", "to", "txs"}
    BY <1>1, <1>4
  <2>3. "from" # "to" /\ "from" # "txs"
    OBVIOUS
  <2> QED  BY <2>1, <2>2, <2>3
<1>5. \A m \in Messages : \A tx \in Range(m.txs) : tx \in Txs
  BY <1>2, <1>3
<1>6. \A tx \in Somewhere : tx \in Txs
  <2> TAKE tx \in Somewhere
  <2>1. CASE \E m \in Messages : tx \in Range(m.txs)
    BY <1>5, <2>1
  <2>2. CASE \E s \in Shards : tx \in Range(Held(s))
    BY <2>2, HeldType
  <2> QED  BY <2>1, <2>2, SomewhereIs
<1> QED  BY <1>2, <1>4, <1>5, <1>6

\* A part of a batch goes to one shard.
PartFor(chunk, s) == Select(chunk, {tx \in Range(chunk) : InjectShard(tx) = s})

\* What txSending sends to a shard: the transactions of the chunk that belong there.
LEMMA PartProperties ==
  ASSUME NEW chunk \in Seq(Txs), NEW s
  PROVE  /\ PartFor(chunk, s) \in Seq(Txs)
         /\ \A tx \in Range(PartFor(chunk, s)) : tx \in Range(chunk) /\ InjectShard(tx) = s
         /\ IsInjective(chunk) => IsInjective(PartFor(chunk, s))
<1>1. PICK U : U = {tx \in Range(chunk) : InjectShard(tx) = s}
  OBVIOUS
<1>2. /\ Select(chunk, U) \in Seq(Txs)
      /\ Range(Select(chunk, U)) = Range(chunk) \cap U
      /\ IsInjective(chunk) => IsInjective(Select(chunk, U))
  BY SelectProperties
<1>3. PartFor(chunk, s) = Select(chunk, U)
  BY <1>1 DEF PartFor
<1> QED  BY <1>1, <1>2, <1>3

\* The lines that are read, and what they give.
LEMMA ReadType ==
  ASSUME TypeOK, moreInput
  PROVE  /\ line + 1 \in Lines /\ data2tx(line + 1) \in Seq(Txs)
         /\ Len(data2tx(line + 1)) = 0 \/ Len(data2tx(line + 1)) = 1
         /\ \A tx \in Range(data2tx(line + 1)) : tx = Tx(line + 1, FALSE)
         /\ IsInjective(data2tx(line + 1))
<1>1. line + 1 \in Lines
  BY InputType, RelayAssumption DEF TypeOK, moreInput
<1>2. Tx(line + 1, FALSE) \in Txs
  BY <1>1, TxsType
<1>3. PICK x \in Txs : x = Tx(line + 1, FALSE)
  BY <1>2
<1>4. /\ <<x>> \in Seq(Txs) /\ Len(<<x>>) = 1 /\ Range(<<x>>) = {x} /\ IsInjective(<<x>>)
      /\ <<>> \in Seq(Txs) /\ Len(<<>>) = 0 /\ Range(<<>>) = {} /\ IsInjective(<<>>)
  <2>1. DOMAIN <<x>> = {1} /\ <<x>>[1] = x
    OBVIOUS
  <2>2. Range(<<x>>) = {x} /\ IsInjective(<<x>>)
    BY <2>1 DEF Range, IsInjective
  <2>3. Range(<<>>) = {} /\ IsInjective(<<>>)
    BY DEF Range, IsInjective
  <2> QED  BY <2>2, <2>3
<1>5. data2tx(line + 1) = <<x>> \/ data2tx(line + 1) = <<>>
  BY <1>3 DEF data2tx
<1>6. CASE data2tx(line + 1) = <<x>>
  BY <1>1, <1>3, <1>4, <1>6, Zenon
<1>7. CASE data2tx(line + 1) = <<>>
  BY <1>1, <1>4, <1>7, Zenon
<1> QED  BY <1>5, <1>6, <1>7

\* The type invariant is inductive.
LEMMA TypeInit == Init => TypeOK
<1> SUFFICES ASSUME Init PROVE TypeOK
  OBVIOUS
<1>1. <<>> \in Seq(Txs) /\ Init_Balance \in Int /\ stopThreshold \in Nat /\ MaxLoss \in Nat
  BY RelayAssumption
<1>2. [a \in Accounts |-> Init_Balance] \in Balances
  BY <1>1 DEF Balances
<1> QED  BY <1>1, <1>2, InputType DEF Init, TypeOK

\* Every step keeps the types.
LEMMA TypeStep == TypeOK /\ [Next]_vars => TypeOK'
<1> SUFFICES ASSUME TypeOK, [Next]_vars PROVE TypeOK'
  OBVIOUS
<1>0. /\ {InjectSpeed, BlockSize, dataTotalNum, batchDataNum} \subseteq Nat
      /\ stopThreshold \in Nat /\ MaxLoss \in Nat
  BY RelayAssumption
<1>1. CASE ReadLine
  <2>1. PICK n \in 0..1, d \in Seq(Txs) : d = data2tx(line + 1) /\ n = Len(data2tx(line + 1))
    BY <1>1, ReadType DEF ReadLine
  <2>2. line + 1 \in Lines /\ line' = line + 1 /\ nowDataNum' = nowDataNum + n /\ txlist' = txlist \o d
    BY <1>1, <2>1, ReadType DEF ReadLine
  <2>3. line' \in 0..Len(Input) /\ nowDataNum' \in 0..line'
    BY <2>2, InputType DEF TypeOK
  <2>4. txlist' \in Seq(Txs)
    BY <2>2, ConcatProperties DEF TypeOK
  <2>5. reader' \in {"reading", "sending", "waiting", "stop"}
    BY <1>1 DEF ReadLine
  <2> QED  BY <1>1, <2>3, <2>4, <2>5 DEF ReadLine, TypeOK, ledger
<1>2. CASE txSending
  <2>1. /\ PackTxs(txlist, InjectSpeed) \in Seq(Txs) /\ AfterPack(txlist, InjectSpeed) \in Seq(Txs)
    BY <1>0, PackSplits DEF TypeOK
  <2>2. PICK chunk \in Seq(Txs) : chunk = PackTxs(txlist, InjectSpeed)
    BY <2>1
  <2>3. /\ injects' = injects \cup
             {[to |-> s, txs |-> PartFor(chunk, s)] : s \in {t \in Shards : PartFor(chunk, t) # <<>>}}
        /\ txlist' = AfterPack(txlist, InjectSpeed)
    BY <1>2, <2>2 DEF txSending, PartFor
  <2>4. \A s \in Shards : [to |-> s, txs |-> PartFor(chunk, s)] \in [to : Shards, txs : Seq(Txs)]
    BY PartProperties
  <2>5. injects' \subseteq [to : Shards, txs : Seq(Txs)]
    BY <2>3, <2>4 DEF TypeOK
  <2> QED  BY <1>2, <2>1, <2>3, <2>5 DEF txSending, TypeOK, ledger
<1>3. CASE BatchSent
  <2>1. stopGap' \in 0..stopThreshold /\ reader' \in {"reading", "sending", "waiting", "stop"}
    BY <1>0, <1>3 DEF BatchSent, StopGap_Reset
  <2> QED  BY <1>3, <2>1 DEF BatchSent, TypeOK, ledger
<1>4. CASE EndOfInput
  BY <1>4 DEF EndOfInput, TypeOK, ledger
<1>5. CASE SendStop
  BY <1>5 DEF SendStop, TypeOK, ledger
<1>6. ASSUME NEW m \in injects, handleInjectTx(m) PROVE TypeOK'
  <2>1. m.to \in Shards /\ m.txs \in Seq(Txs)
    BY DEF TypeOK
  <2>2. pool[m.to] \o m.txs \in Seq(Txs)
    BY <2>1, ConcatProperties DEF TypeOK
  <2>3. pool' \in [Shards -> Seq(Txs)]
    BY <1>6, <2>1, <2>2 DEF handleInjectTx, TypeOK, AddTxs2Pool
  <2>4. injects' \subseteq [to : Shards, txs : Seq(Txs)]
    BY <1>6 DEF handleInjectTx, TypeOK
  <2> QED  BY <1>6, <2>3, <2>4 DEF handleInjectTx, TypeOK, ledger, supervisor
<1>7. ASSUME NEW m \in relays, handleRelay(m) PROVE TypeOK'
  <2>1. m.to \in Shards /\ m.txs \in Seq(Txs)
    BY DEF TypeOK
  <2>2. pool[m.to] \o m.txs \in Seq(Txs)
    BY <2>1, ConcatProperties DEF TypeOK
  <2>3. pool' \in [Shards -> Seq(Txs)]
    BY <1>7, <2>1, <2>2 DEF handleRelay, TypeOK, AddTxs2Pool
  <2>4. relays' \subseteq [from : Shards, to : Shards, txs : Seq(Txs)]
    BY <1>7 DEF handleRelay, TypeOK
  <2> QED  BY <1>7, <2>3, <2>4 DEF handleRelay, TypeOK, ledger, supervisor
<1>8. ASSUME NEW s \in Shards, HandleinPropose(s) PROVE TypeOK'
  <2>1. PackTxs(pool[s], BlockSize) \in Seq(Txs) /\ AfterPack(pool[s], BlockSize) \in Seq(Txs)
    BY <1>0, PackSplits DEF TypeOK
  <2>2. PICK body \in Seq(Txs) : body = PackTxs(pool[s], BlockSize)
    BY <2>1
  <2>3. GetUpdateStatusTrie(balance[s], Addr2Shard, s, Fields(body)) \in Balances
    BY StateType DEF TypeOK
  <2>4. PICK st \in Balances : st = GetUpdateStatusTrie(balance[s], Addr2Shard, s, Fields(body))
    BY <2>3
  <2>5. proposal' = [proposal EXCEPT ![s] = [body |-> body, state |-> st, open |-> TRUE]]
    BY <1>8, <2>2, <2>4 DEF HandleinPropose
  <2>6. [body |-> body, state |-> st, open |-> TRUE] \in [body : Seq(Txs), state : Balances, open : {TRUE}]
    OBVIOUS
  <2>7. proposal' \in [Shards -> {NoBlock} \cup [body : Seq(Txs), state : Balances, open : {TRUE}]]
    BY <2>5, <2>6 DEF TypeOK
  <2>8. pool' \in [Shards -> Seq(Txs)]
    BY <1>8, <2>1 DEF HandleinPropose, TypeOK, AfterGenerate
  <2> QED  BY <1>8, <2>7, <2>8 DEF HandleinPropose, TypeOK, supervisor
<1>9. ASSUME NEW s \in Shards, HandleinCommit(s) PROVE TypeOK'
  <2>1. proposal[s] \in [body : Seq(Txs), state : Balances, open : {TRUE}]
    <3>1. proposal[s].open /\ ~NoBlock.open
      BY <1>9 DEF HandleinCommit, NoBlock
    <3>2. proposal[s] \in {NoBlock} \cup [body : Seq(Txs), state : Balances, open : {TRUE}]
      BY DEF TypeOK
    <3> QED  BY <3>1, <3>2
  <2>2. PICK body \in Seq(Txs) : body = proposal[s].body
    BY <2>1
  <2>3. blocks[s] \o body \in Seq(Txs)
    BY ConcatProperties DEF TypeOK
  <2>4. \A i \in Skipped(balance[s], Addr2Shard, s, Fields(body)) : body[i].line \in Lines
    <3>1. \A i \in Skipped(balance[s], Addr2Shard, s, Fields(body)) : i \in 1..Len(body)
      BY FieldsType DEF Skipped
    <3> QED  BY <3>1, ElementOfSeq, TxsType
  <2>5. skipped' \subseteq Lines
    BY <1>9, <2>2, <2>4 DEF HandleinCommit, TypeOK
  <2>6. \A t \in Shards : [from |-> s, to |-> t, txs |-> RelayTxs(s, body, t)]
                             \in [from : Shards, to : Shards, txs : Seq(Txs)]
    BY RelayTxsProperties
  <2>7. relays' \subseteq [from : Shards, to : Shards, txs : Seq(Txs)]
    BY <1>9, <2>2, <2>6 DEF HandleinCommit, TypeOK
  <2>8. /\ balance' \in [Shards -> Balances]
        /\ blocks' \in [Shards -> Seq(Txs)]
        /\ reports' \in [Shards -> {"none", "empty", "full"}]
        /\ proposal' \in [Shards -> {NoBlock} \cup [body : Seq(Txs), state : Balances, open : {TRUE}]]
    BY <1>9, <2>1, <2>2, <2>3 DEF HandleinCommit, TypeOK
  <2> QED  BY <1>9, <2>5, <2>7, <2>8 DEF HandleinCommit, TypeOK, supervisor
<1>10. ASSUME NEW s \in Shards, WaitToStop(s) PROVE TypeOK'
  BY <1>10 DEF WaitToStop, TypeOK, supervisor, ledger
<1>11. ASSUME NEW s \in Shards, handleBlockInfos(s) PROVE TypeOK'
  <2>1. stopGap' \in 0..stopThreshold
    BY <1>0, <1>11 DEF handleBlockInfos, TypeOK, StopGap_Inc, StopGap_Reset
  <2> QED  BY <1>11, <2>1 DEF handleBlockInfos, TypeOK, supervisor, ledger
<1>12. CASE TcpDialFails
  <2>1. lost' \in 0..MaxLoss
    BY <1>0, <1>12 DEF TcpDialFails, TypeOK
  <2>2. /\ injects' \subseteq injects /\ relays' \subseteq relays
        /\ reports' \in [Shards -> {"none", "empty", "full"}]
    BY <1>12 DEF TcpDialFails, TypeOK
  <2> QED  BY <1>12, <2>1, <2>2 DEF TcpDialFails, TypeOK, supervisor, ledger
<1>13. CASE UNCHANGED vars
  BY <1>13 DEF vars, TypeOK, supervisor, ledger
<1> QED
  BY <1>1, <1>2, <1>3, <1>4, <1>5, <1>6, <1>7, <1>8, <1>9, <1>10, <1>11, <1>12, <1>13 DEF Next

-----------------------------------------------------------------------------
(***************************************************************************)
(* Where the transactions are.                                             *)
(***************************************************************************)

\* Parts of Held, and how a transaction is found there.
LEMMA HeldParts ==
  ASSUME TypeOK, NEW s \in Shards, IsInjective(Held(s))
  PROVE  /\ IsInjective(blocks[s]) /\ IsInjective(proposal[s].body)
         /\ Range(blocks[s]) \cap Range(proposal[s].body) = {}
<1>1. PICK p \in Seq(Txs), q \in Seq(Txs), r \in Seq(Txs) :
        p = blocks[s] /\ q = proposal[s].body /\ r = pool[s]
  BY HeldType
<1>2. PICK u \in Seq(Txs) : u = p \o q
  BY ConcatRange
<1>3. Held(s) = u \o r
  BY <1>1, <1>2 DEF Held
<1>4. IsInjective(u)
  BY <1>3, ConcatInjective
<1>5. IsInjective(p) /\ IsInjective(q) /\ Range(p) \cap Range(q) = {}
  BY <1>2, <1>4, ConcatInjective
<1> QED  BY <1>1, <1>5

\* Nothing new anywhere: what a shard executes was in its block, and messages are
\* only lost.
LEMMA Kept ==
  ASSUME Placed, TypeOK', UNCHANGED <<line, txlist>>, Messages' \subseteq Messages,
         \A s \in Shards : Held(s)' = Held(s) /\ Range(blocks[s]) \subseteq Range(blocks'[s])
  PROVE  Placed'
<1>0. TypeOK /\ Collected /\ Routed /\ OneCopy /\ RelayedAfter
  BY DEF Placed
<1>1. \A tx : tx \in Somewhere' => tx \in Somewhere
  BY SomewhereIs DEF Somewhere
<1>2. Collected'
  BY <1>0, <1>1 DEF Collected
<1>3. Routed'
  BY <1>0 DEF Routed, Home
<1>4. OneCopy'
  BY <1>0 DEF OneCopy
<1>5. RelayedAfter'
  <2>1. \A tx \in Txs : Addr2Shard[Input[tx.line].sender] \in Shards
    BY TxsType, InputType
  <2> QED  BY <1>0, <1>1, <2>1, MessagesType DEF RelayedAfter, Executed, Cross
<1> QED  BY <1>2, <1>3, <1>4, <1>5 DEF Placed

\* A message arrives: its transactions move to the pool of the shard.
LEMMA Delivered ==
  ASSUME Placed, TypeOK', NEW m \in Messages, Messages' = Messages \ {m},
         pool' = [pool EXCEPT ![m.to] = AddTxs2Pool(@, m.txs)],
         UNCHANGED <<line, txlist, proposal, blocks>>
  PROVE  Placed'
<1>0. TypeOK /\ Collected /\ Routed /\ OneCopy /\ RelayedAfter
  BY DEF Placed
<1>1. PICK t \in Shards, q \in Seq(Txs) : t = m.to /\ q = m.txs
  BY <1>0, MessagesType
<1>2. \A s \in Shards \ {t} : Held(s)' = Held(s)
  BY <1>0, <1>1 DEF Held, TypeOK
<1>3. PICK h \in Seq(Txs) : h = Held(t)
  BY <1>0, HeldType
<1>4. Held(t)' = h \o q
  <2>1. PICK a \in Seq(Txs), c \in Seq(Txs) : a = blocks[t] \o proposal[t].body /\ c = pool[t]
    <3>1. blocks[t] \in Seq(Txs) /\ proposal[t].body \in Seq(Txs) /\ pool[t] \in Seq(Txs)
      BY <1>0, HeldType
    <3> QED  BY <3>1, ConcatProperties
  <2>2. pool'[t] = c \o q
    BY <1>0, <1>1, <2>1 DEF TypeOK, AddTxs2Pool
  <2>3. h = a \o c /\ Held(t)' = a \o (c \o q)
    BY <1>3, <2>1, <2>2 DEF Held
  <2>4. (a \o c) \o q = a \o (c \o q)
    BY ConcatAssociative
  <2> QED  BY <2>3, <2>4
<1>5. /\ Range(h \o q) = Range(h) \cup Range(q)
      /\ IsInjective(h \o q) <=> IsInjective(h) /\ IsInjective(q) /\ Range(h) \cap Range(q) = {}
  BY ConcatRange, ConcatInjective
<1>6. \A s \in Shards : \A tx \in Range(Held(s)') :
        tx \in Range(Held(s)) \/ (s = t /\ tx \in Range(q))
  BY <1>2, <1>3, <1>4, <1>5
<1>7. \A tx : tx \in Somewhere' => tx \in Somewhere
  <2>1. \A tx \in Range(q) : tx \in Somewhere
    BY <1>1, SomewhereIs
  <2>2. ASSUME NEW tx, tx \in Somewhere' PROVE tx \in Somewhere
    <3>1. \/ \E s \in Shards : tx \in Range(Held(s)')
          \/ \E n \in Messages' : tx \in Range(n.txs)
      BY <2>2 DEF Somewhere
    <3> QED  BY <1>6, <2>1, <3>1, SomewhereIs
  <2> QED  BY <2>2
<1>8. Collected'
  BY <1>0, <1>7 DEF Collected
<1>9. Routed'
  <2>1. \A s \in Shards : \A tx \in Range(Held(s)') : Home(tx) = s
    BY <1>0, <1>1, <1>6 DEF Routed
  <2>2. \A n \in Messages' : \A tx \in Range(n.txs) : Home(tx) = n.to
    BY <1>0 DEF Routed
  <2> QED  BY <2>1, <2>2 DEF Routed, Home
<1>10. OneCopy'
  <2>1. IsInjective(Held(t)')
    BY <1>0, <1>1, <1>3, <1>4, <1>5 DEF OneCopy
  <2>2. \A s \in Shards : IsInjective(Held(s)')
    BY <1>0, <1>2, <2>1 DEF OneCopy
  <2>3. \A s \in Shards : \A u \in Shards \ {s} : Range(Held(s)') \cap Range(Held(u)') = {}
    BY <1>9 DEF Routed, Home
  <2>4. ASSUME NEW n \in Messages'
        PROVE  /\ IsInjective(n.txs)
               /\ \A k \in Messages' \ {n} : Range(n.txs) \cap Range(k.txs) = {}
               /\ \A s \in Shards : Range(n.txs) \cap Range(Held(s)') = {}
    <3>1. n \in Messages /\ n # m
      OBVIOUS
    <3>2. Range(n.txs) \cap Range(q) = {}
      BY <1>0, <1>1, <3>1 DEF OneCopy
    <3>3. \A s \in Shards : Range(n.txs) \cap Range(Held(s)) = {}
      BY <1>0, <3>1 DEF OneCopy
    <3>4. IsInjective(n.txs) /\ \A k \in Messages' \ {n} : Range(n.txs) \cap Range(k.txs) = {}
      BY <1>0, <3>1 DEF OneCopy
    <3> QED  BY <1>6, <3>2, <3>3, <3>4
  <2> QED  BY <2>2, <2>3, <2>4 DEF OneCopy
<1>11. RelayedAfter'
  BY <1>0, <1>7 DEF RelayedAfter, Executed, Cross
<1> QED  BY <1>8, <1>9, <1>10, <1>11 DEF Placed

\* The supervisor reads a line: its transaction is new.
LEMMA ReadLinePlaced ==
  ASSUME Placed, TypeOK', ReadLine
  PROVE  Placed'
<1>0. TypeOK /\ Collected /\ Routed /\ OneCopy /\ RelayedAfter
  BY DEF Placed
<1>1. /\ line' = line + 1 /\ line \in Nat
      /\ UNCHANGED <<pool, proposal, blocks, injects, relays>>
  BY <1>0, InputType DEF ReadLine, ledger, TypeOK
<1>2. Messages' = Messages /\ Somewhere' = Somewhere /\ \A s \in Shards : Held(s)' = Held(s)
  BY <1>1 DEF Messages, Somewhere, Held
<1>3. PICK p \in Seq(Txs), d \in Seq(Txs) :
        p = txlist /\ d = data2tx(line + 1) /\ txlist' = p \o d
  BY <1>0, ReadType DEF ReadLine, TypeOK
<1>4. IsInjective(d) /\ \A tx \in Range(d) : tx = Tx(line + 1, FALSE)
  BY <1>0, <1>3, ReadType DEF ReadLine
<1>5. \A tx \in Range(d) : ~tx.relayed /\ tx.line = line + 1
  BY <1>4 DEF Tx
<1>6. IsInjective(p) /\ \A tx \in Range(p) : tx.line <= line
  BY <1>0, <1>3 DEF Collected
<1>7. /\ Range(p \o d) = Range(p) \cup Range(d)
      /\ IsInjective(p \o d) <=> IsInjective(p) /\ IsInjective(d) /\ Range(p) \cap Range(d) = {}
  BY ConcatRange, ConcatInjective
<1>8. Range(p) \cap Range(d) = {}
  BY <1>1, <1>5, <1>6
<1>9. Collected'
  <2>1. IsInjective(txlist')
    BY <1>3, <1>4, <1>6, <1>7, <1>8
  <2>2. \A tx \in Range(txlist') : ~tx.relayed /\ tx \notin Somewhere'
    <3>1. \A tx \in Range(d) : tx \notin Somewhere
      BY <1>0, <1>1, <1>5 DEF Collected
    <3> QED  BY <1>0, <1>2, <1>3, <1>5, <1>7, <3>1 DEF Collected
  <2>3. \A tx \in Range(txlist') \cup Somewhere' : tx.line <= line'
    <3>1. \A tx \in Range(txlist) \cup Somewhere : tx \in Txs /\ tx.line \in Nat
      BY <1>0, <1>3, RangeOfSeq, MessagesType, TxsType, InputType
    <3>2. \A tx \in Range(txlist) \cup Somewhere : tx.line <= line'
      BY <1>0, <1>1, <3>1 DEF Collected
    <3>3. \A tx \in Range(d) : tx.line <= line'
      BY <1>1, <1>5
    <3> QED  BY <1>2, <1>3, <1>7, <3>2, <3>3
  <2> QED  BY <2>1, <2>2, <2>3 DEF Collected
<1>10. Routed' /\ OneCopy' /\ RelayedAfter'
  BY <1>0, <1>1, <1>2 DEF Routed, OneCopy, RelayedAfter, Home, Executed, Cross
<1> QED  BY <1>9, <1>10 DEF Placed

\* The supervisor sends a part of the batch: none of it was anywhere before.
LEMMA SendingPlaced ==
  ASSUME Placed, TypeOK', txSending
  PROVE  Placed'
<1>0. TypeOK /\ Collected /\ Routed /\ OneCopy /\ RelayedAfter
  BY DEF Placed
<1>1. PICK chunk \in Seq(Txs), rest \in Seq(Txs) :
        /\ chunk = PackTxs(txlist, InjectSpeed) /\ rest = AfterPack(txlist, InjectSpeed)
        /\ chunk \o rest = txlist
  <2>1. PICK q \in Seq(Txs), k \in Nat : q = txlist /\ k = InjectSpeed
    BY <1>0, RelayAssumption DEF TypeOK
  <2>2. /\ PackTxs(q, k) \in Seq(Txs) /\ AfterPack(q, k) \in Seq(Txs)
        /\ PackTxs(q, k) \o AfterPack(q, k) = q
    BY PackSplits
  <2> QED  BY <2>1, <2>2
<1> DEFINE msg(s) == [to |-> s, txs |-> PartFor(chunk, s)]
<1>2. /\ injects' = injects \cup {msg(s) : s \in {t \in Shards : PartFor(chunk, t) # <<>>}}
      /\ txlist' = rest
      /\ UNCHANGED <<line, pool, proposal, blocks, relays>>
  BY <1>1 DEF txSending, PartFor, ledger
<1>3. \A s \in Shards : Held(s)' = Held(s)
  BY <1>2 DEF Held
<1>4. \A s : msg(s).to = s /\ msg(s).txs = PartFor(chunk, s)
  OBVIOUS
<1>5. Messages \subseteq Messages' /\ \A n \in Messages' : n \in Messages \/ \E s \in Shards : n = msg(s)
  BY <1>2 DEF Messages
<1> HIDE DEF msg
<1>6. /\ Range(txlist) = Range(chunk) \cup Range(rest)
      /\ IsInjective(chunk) /\ IsInjective(rest) /\ Range(chunk) \cap Range(rest) = {}
  <2>1. IsInjective(chunk \o rest)
    BY <1>0, <1>1 DEF Collected
  <2>2. Range(chunk \o rest) = Range(chunk) \cup Range(rest)
    BY ConcatRange
  <2>3. IsInjective(chunk) /\ IsInjective(rest) /\ Range(chunk) \cap Range(rest) = {}
    BY <2>1, ConcatInjective
  <2> QED  BY <1>1, <2>2, <2>3
<1>7. \A s \in Shards : /\ IsInjective(msg(s).txs) /\ msg(s).to = s
                        /\ \A tx \in Range(msg(s).txs) : tx \in Range(chunk) /\ InjectShard(tx) = s
  BY <1>4, <1>6, PartProperties
<1>8. \A tx \in Range(chunk) : /\ tx \notin Somewhere /\ ~tx.relayed /\ tx.line <= line
                               /\ InjectShard(tx) = Home(tx)
  BY <1>0, <1>6 DEF Collected, InjectShard, Home
<1>9. ASSUME NEW tx, tx \in Somewhere' PROVE tx \in Somewhere \/ tx \in Range(chunk)
  <2>1. \/ \E s \in Shards : tx \in Range(Held(s)')
        \/ \E n \in Messages' : tx \in Range(n.txs)
    BY <1>9 DEF Somewhere
  <2> QED  BY <1>3, <1>5, <1>7, <2>1, SomewhereIs
<1>10. Collected'
  <2>1. \A tx \in Range(rest) : ~tx.relayed /\ tx \notin Somewhere'
    BY <1>0, <1>6, <1>9 DEF Collected
  <2>2. \A tx \in Range(rest) \cup Somewhere' : tx.line <= line
    BY <1>0, <1>6, <1>8, <1>9 DEF Collected
  <2> QED  BY <1>2, <1>6, <2>1, <2>2 DEF Collected
<1>11. Routed'
  <2>1. \A s \in Shards : \A tx \in Range(Held(s)') : Home(tx) = s
    BY <1>0, <1>3 DEF Routed
  <2>2. \A n \in Messages' : \A tx \in Range(n.txs) : Home(tx) = n.to
    BY <1>0, <1>5, <1>7, <1>8 DEF Routed
  <2> QED  BY <2>1, <2>2 DEF Routed, Home
<1>12. OneCopy'
  <2>1. \A n \in Messages : Range(n.txs) \cap Range(chunk) = {}
    BY <1>8, SomewhereIs
  <2>2. \A s \in Shards : Range(Held(s)) \cap Range(chunk) = {}
    BY <1>8, SomewhereIs
  <2>3. ASSUME NEW n \in Messages'
        PROVE  /\ IsInjective(n.txs)
               /\ \A k \in Messages' \ {n} : Range(n.txs) \cap Range(k.txs) = {}
               /\ \A s \in Shards : Range(n.txs) \cap Range(Held(s)') = {}
    <3>1. IsInjective(n.txs)
      BY <1>0, <1>5, <1>7 DEF OneCopy
    <3>2. \A s \in Shards : Range(n.txs) \cap Range(Held(s)') = {}
      BY <1>0, <1>3, <1>5, <1>7, <2>2 DEF OneCopy
    <3>3. ASSUME NEW k \in Messages' \ {n} PROVE Range(n.txs) \cap Range(k.txs) = {}
      <4>1. CASE n \in Messages /\ k \in Messages
        BY <1>0, <4>1 DEF OneCopy
      <4>2. CASE n \in Messages /\ k \notin Messages
        BY <1>5, <1>7, <2>1, <4>2
      <4>3. CASE n \notin Messages /\ k \in Messages
        BY <1>5, <1>7, <2>1, <4>3
      <4>4. CASE n \notin Messages /\ k \notin Messages
        <5>1. PICK s \in Shards, u \in Shards : n = msg(s) /\ k = msg(u)
          BY <1>5, <4>4
        <5>2. s # u
          BY <5>1
        <5> QED  BY <1>7, <5>1, <5>2
      <4> QED  BY <4>1, <4>2, <4>3, <4>4
    <3> QED  BY <3>1, <3>2, <3>3
  <2> QED  BY <1>0, <1>3, <2>3 DEF OneCopy
<1>13. RelayedAfter'
  BY <1>0, <1>2, <1>8, <1>9 DEF RelayedAfter, Executed, Cross
<1> QED  BY <1>10, <1>11, <1>12, <1>13 DEF Placed

\* A shard executes its block and relays what is paid in other shards.
LEMMA CommitPlaced ==
  ASSUME Placed, TypeOK', NEW s \in Shards, HandleinCommit(s)
  PROVE  Placed'
<1>0. TypeOK /\ Collected /\ Routed /\ OneCopy /\ RelayedAfter
  BY DEF Placed
<1>1. PICK body \in Seq(Txs) : body = proposal[s].body
  BY <1>0, HeldType
<1> DEFINE msg(t) == [from |-> s, to |-> t, txs |-> RelayTxs(s, body, t)]
<1>2. /\ blocks' = [blocks EXCEPT ![s] = @ \o body]
      /\ proposal' = [proposal EXCEPT ![s] = NoBlock]
      /\ relays' = relays \cup {msg(t) : t \in {t \in Shards : RelayTxs(s, body, t) # <<>>}}
      /\ UNCHANGED <<line, txlist, pool, injects>>
  BY <1>1 DEF HandleinCommit, supervisor
<1>3. /\ blocks[s] \in Seq(Txs) /\ pool[s] \in Seq(Txs)
      /\ Range(Held(s)) = Range(blocks[s]) \cup Range(body) \cup Range(pool[s])
      /\ IsInjective(Held(s))
  BY <1>0, <1>1, HeldType DEF OneCopy
<1>4. IsInjective(body) /\ Range(blocks[s]) \cap Range(body) = {}
  BY <1>0, <1>1, <1>3, HeldParts
<1>5. /\ \A u \in Shards : Held(u)' = Held(u) /\ Range(blocks[u]) \subseteq Range(blocks'[u])
      /\ Range(blocks'[s]) = Range(blocks[s]) \cup Range(body)
  <2>1. PICK p \in Seq(Txs) : p = blocks[s] \o body
    BY <1>3, ConcatProperties
  <2>2. blocks'[s] = p /\ proposal'[s].body = <<>> /\ p \o <<>> = p
    BY <1>0, <1>2, <2>1, ConcatEmptySeq DEF TypeOK, NoBlock
  <2>3. Held(s)' = Held(s)
    <3>1. Held(s)' = (p \o <<>>) \o pool[s]
      BY <1>2, <2>2 DEF Held
    <3>2. Held(s) = p \o pool[s]
      BY <1>1, <2>1 DEF Held
    <3> QED  BY <2>2, <3>1, <3>2
  <2>4. Range(blocks'[s]) = Range(blocks[s]) \cup Range(body)
    BY <1>3, <2>1, <2>2, ConcatRange
  <2>5. \A u \in Shards \ {s} : Held(u)' = Held(u) /\ blocks'[u] = blocks[u]
    BY <1>0, <1>2 DEF Held, TypeOK
  <2> QED  BY <2>3, <2>4, <2>5
<1>6. \A t : msg(t).to = t /\ msg(t).txs = RelayTxs(s, body, t)
  OBVIOUS
<1>7. Messages \subseteq Messages' /\ \A n \in Messages' : n \in Messages \/ \E t \in Shards : n = msg(t)
  BY <1>2 DEF Messages
<1> HIDE DEF msg
<1>8. \A u \in Range(body) : u \in Txs /\ Home(u) = s
  BY <1>0, <1>3, RangeOfSeq DEF Routed
<1>9. \A t \in Shards \ {s} : \A u \in Range(body) :
        Addr2Shard[Input[u.line].recipient] = t =>
          ~u.relayed /\ Addr2Shard[Input[u.line].sender] = s /\ Cross(u.line)
  BY <1>8 DEF Home, Cross
<1>10. ASSUME NEW t \in Shards, NEW tx \in Range(msg(t).txs)
       PROVE  /\ t # s /\ tx.relayed /\ tx \in Txs /\ Home(tx) = t
              /\ Cross(tx.line) /\ Addr2Shard[Input[tx.line].sender] = s
              /\ Tx(tx.line, FALSE) \in Range(body) /\ tx \notin Somewhere
  <2>1. PICK u \in Range(body) : /\ t # s /\ tx.relayed /\ tx \in Txs /\ tx.line = u.line
                                 /\ Addr2Shard[Input[u.line].recipient] = t
    BY <1>6, <1>10, RelayTxsProperties
  <2>2. ~u.relayed /\ Addr2Shard[Input[u.line].sender] = s /\ Cross(u.line)
    BY <1>9, <2>1
  <2>3. u = Tx(tx.line, FALSE)
    <3>1. u = Tx(u.line, u.relayed) /\ u.relayed = FALSE
      BY <1>8, <2>2, TxsType
    <3> QED  BY <2>1, <3>1
  <2>4. ASSUME tx \in Somewhere PROVE FALSE
    <3>1. Tx(tx.line, FALSE) \in Range(blocks[s])
      BY <1>0, <2>1, <2>2, <2>4 DEF RelayedAfter, Executed
    <3> QED  BY <1>4, <2>1, <2>3, <3>1
  <2>5. Home(tx) = t
    BY <2>1 DEF Home
  <2> QED  BY <2>1, <2>2, <2>3, <2>4, <2>5
<1>11. \A t \in Shards \ {s} : IsInjective(msg(t).txs)
  BY <1>4, <1>6, <1>9, RelayTxsProperties
<1>12. IsInjective(msg(s).txs)
  <2>1. msg(s).txs = <<>>
    BY <1>6 DEF RelayTxs
  <2>2. IsInjective(<<>>)
    BY DEF IsInjective
  <2> QED  BY <2>1, <2>2
<1>13. ASSUME NEW tx, tx \in Somewhere'
       PROVE  tx \in Somewhere \/ \E t \in Shards : tx \in Range(msg(t).txs)
  <2>1. \/ \E u \in Shards : tx \in Range(Held(u)')
        \/ \E n \in Messages' : tx \in Range(n.txs)
    BY <1>13 DEF Somewhere
  <2> QED  BY <1>5, <1>7, <2>1, SomewhereIs
<1>14. Collected'
  <2>1. \A tx \in Range(txlist) : ~tx.relayed /\ tx \notin Somewhere'
    BY <1>0, <1>10, <1>13 DEF Collected
  <2>2. ASSUME NEW t \in Shards, NEW tx \in Range(msg(t).txs) PROVE tx.line <= line
    <3>1. Tx(tx.line, FALSE) \in Somewhere /\ Tx(tx.line, FALSE).line = tx.line
      BY <1>3, <1>10, SomewhereIs DEF Tx
    <3> QED  BY <1>0, <3>1 DEF Collected
  <2> QED  BY <1>0, <1>2, <1>13, <2>1, <2>2 DEF Collected
<1>15. Routed'
  <2>1. \A u \in Shards : \A tx \in Range(Held(u)') : Home(tx) = u
    BY <1>0, <1>5 DEF Routed
  <2>2. \A n \in Messages' : \A tx \in Range(n.txs) : Home(tx) = n.to
    <3>1. SUFFICES ASSUME NEW n \in Messages', NEW tx \in Range(n.txs) PROVE Home(tx) = n.to
      OBVIOUS
    <3>2. CASE n \in Messages
      BY <1>0, <3>2 DEF Routed
    <3>3. CASE n \notin Messages
      <4>1. PICK t \in Shards : n = msg(t)
        BY <1>7, <3>3
      <4>2. Home(tx) = t /\ n.to = t
        BY <1>6, <1>10, <4>1
      <4> QED  BY <4>2
    <3> QED  BY <3>2, <3>3
  <2> QED  BY <2>1, <2>2 DEF Routed, Home
<1>16. OneCopy'
  <2>1. ASSUME NEW n \in Messages'
        PROVE  /\ IsInjective(n.txs)
               /\ \A k \in Messages' \ {n} : Range(n.txs) \cap Range(k.txs) = {}
               /\ \A u \in Shards : Range(n.txs) \cap Range(Held(u)') = {}
    <3>1. IsInjective(n.txs)
      BY <1>0, <1>7, <1>11, <1>12 DEF OneCopy
    <3>2. ASSUME NEW u \in Shards PROVE Range(n.txs) \cap Range(Held(u)') = {}
      <4>1. CASE n \in Messages
        BY <1>0, <1>5, <4>1 DEF OneCopy
      <4>2. CASE n \notin Messages
        <5>1. PICK t \in Shards : n = msg(t)
          BY <1>7, <4>2
        <5>2. \A tx \in Range(n.txs) : tx \notin Somewhere
          BY <1>10, <5>1
        <5>3. Range(n.txs) \cap Range(Held(u)) = {}
          BY <5>2, SomewhereIs
        <5> QED  BY <1>5, <5>3
      <4> QED  BY <4>1, <4>2
    <3>3. ASSUME NEW k \in Messages' \ {n} PROVE Range(n.txs) \cap Range(k.txs) = {}
      <4>1. CASE n \in Messages /\ k \in Messages
        BY <1>0, <4>1 DEF OneCopy
      <4>2. CASE n \in Messages /\ k \notin Messages
        BY <1>7, <1>10, <4>2, SomewhereIs
      <4>3. CASE n \notin Messages /\ k \in Messages
        BY <1>7, <1>10, <4>3, SomewhereIs
      <4>4. CASE n \notin Messages /\ k \notin Messages
        <5>1. PICK t \in Shards, u \in Shards : n = msg(t) /\ k = msg(u)
          BY <1>7, <4>4
        <5>2. t # u
          BY <5>1
        <5> QED  BY <1>10, <5>1, <5>2
      <4> QED  BY <4>1, <4>2, <4>3, <4>4
    <3> QED  BY <3>1, <3>2, <3>3
  <2> QED  BY <1>0, <1>5, <2>1 DEF OneCopy
<1>17. RelayedAfter'
  <2>1. SUFFICES ASSUME NEW tx, tx \in Somewhere', tx.relayed
                 PROVE  /\ Cross(tx.line)
                        /\ Tx(tx.line, FALSE) \in Range(blocks'[Addr2Shard[Input[tx.line].sender]])
    BY DEF RelayedAfter, Executed, Cross
  <2>2. CASE tx \in Somewhere
    <3>1. tx \in Txs /\ Addr2Shard[Input[tx.line].sender] \in Shards
      BY <1>0, <2>2, MessagesType, TxsType, InputType
    <3> QED  BY <1>0, <1>5, <2>1, <2>2, <3>1 DEF RelayedAfter, Executed
  <2>3. CASE \E t \in Shards : tx \in Range(msg(t).txs)
    BY <1>5, <1>10, <2>3
  <2> QED  BY <1>13, <2>1, <2>2, <2>3
<1> QED  BY <1>14, <1>15, <1>16, <1>17 DEF Placed

\* Injections and relays are different messages: one of them says where it comes from.
LEMMA OtherMessages ==
  ASSUME TypeOK
  PROVE  injects \cap relays = {}
<1>1. SUFFICES ASSUME NEW m, m \in injects, m \in relays PROVE FALSE
  OBVIOUS
<1>2. DOMAIN m = {"to", "txs"}
  BY <1>1 DEF TypeOK
<1>3. DOMAIN m = {"from", "to", "txs"}
  BY <1>1 DEF TypeOK
<1> QED  BY <1>2, <1>3

\* A proposal moves the head of the pool into a block.
LEMMA ProposePlaced ==
  ASSUME Placed, TypeOK', NEW s \in Shards, Proposed, HandleinPropose(s)
  PROVE  Placed'
<1>0. TypeOK
  BY DEF Placed
<1>1. PICK p \in Seq(Txs), q \in Seq(Txs), k \in Nat : p = blocks[s] /\ q = pool[s] /\ k = BlockSize
  BY <1>0, HeldType, RelayAssumption
<1>2. PICK body \in Seq(Txs), rest \in Seq(Txs) :
        body = PackTxs(q, k) /\ rest = AfterPack(q, k) /\ body \o rest = q
  BY PackSplits
<1>3. proposal[s].body = <<>>
  BY DEF HandleinPropose, Proposed, NoBlock
<1>4. /\ \A u \in Shards \ {s} : proposal'[u] = proposal[u] /\ pool'[u] = pool[u]
      /\ proposal'[s].body = body /\ pool'[s] = rest
      /\ UNCHANGED <<line, txlist, blocks, injects, relays>>
  BY <1>0, <1>1, <1>2 DEF HandleinPropose, AfterGenerate, TypeOK, supervisor
<1>5. \A u \in Shards \ {s} : Held(u)' = Held(u)
  BY <1>4 DEF Held
<1>6. Held(s)' = Held(s)
  <2>1. Held(s) = (p \o <<>>) \o q
    BY <1>1, <1>3 DEF Held
  <2>2. Held(s)' = (p \o body) \o rest
    BY <1>1, <1>4 DEF Held
  <2>3. p \o <<>> = p
    BY ConcatEmptySeq
  <2>4. (p \o body) \o rest = p \o (body \o rest)
    BY ConcatAssociative
  <2> QED  BY <1>2, <2>1, <2>2, <2>3, <2>4
<1>7. Messages' = Messages
  BY <1>4 DEF Messages
<1>8. \A u \in Shards : Held(u)' = Held(u) /\ Range(blocks[u]) \subseteq Range(blocks'[u])
  BY <1>4, <1>5, <1>6
<1> QED  BY <1>4, <1>7, <1>8, Kept

\* At the start there are no transactions.
LEMMA PlacedInit == Init => Placed
<1>1. SUFFICES ASSUME Init PROVE Placed
  OBVIOUS
<1>2. TypeOK
  BY <1>1, TypeInit
<1>3. PICK e \in Seq(Txs) : e = <<>>
  BY EmptySeq
<1>4. e \o e = e
  BY <1>3, ConcatEmptySeq
<1>5. \A s \in Shards : Held(s) = e
  <2>1. \A s \in Shards : blocks[s] = e /\ proposal[s].body = e /\ pool[s] = e
    BY <1>1, <1>3 DEF Init, NoBlock
  <2> QED  BY <1>4, <2>1 DEF Held
<1>6. Messages = {} /\ txlist = e
  BY <1>1, <1>3 DEF Init, Messages
<1>7. Range(e) = {} /\ IsInjective(e)
  BY <1>3 DEF Range, IsInjective
<1>8. \A tx : tx \notin Somewhere
  BY <1>5, <1>6, <1>7 DEF Somewhere
<1>9. Collected
  BY <1>6, <1>7, <1>8 DEF Collected
<1>10. Routed /\ OneCopy /\ RelayedAfter
  BY <1>5, <1>6, <1>7, <1>8 DEF Routed, OneCopy, RelayedAfter
<1> QED  BY <1>2, <1>9, <1>10 DEF Placed

\* Every step keeps the transactions in their places.
LEMMA PlacedStep == Placed /\ Proposed /\ [Next]_vars => Placed'
<1>1. SUFFICES ASSUME Placed, Proposed, [Next]_vars PROVE Placed'
  OBVIOUS
<1>2. TypeOK /\ TypeOK'
  BY <1>1, TypeStep DEF Placed
<1>3. ASSUME UNCHANGED <<line, txlist, pool, proposal, blocks>>, Messages' \subseteq Messages
      PROVE  Placed'
  <2>1. \A s \in Shards : Held(s)' = Held(s) /\ Range(blocks[s]) \subseteq Range(blocks'[s])
    BY <1>3 DEF Held
  <2> QED  BY <1>1, <1>2, <1>3, <2>1, Kept
<1>4. CASE ReadLine
  BY <1>1, <1>2, <1>4, ReadLinePlaced
<1>5. CASE txSending
  BY <1>1, <1>2, <1>5, SendingPlaced
<1>6. CASE BatchSent \/ EndOfInput \/ SendStop
  BY <1>3, <1>6 DEF BatchSent, EndOfInput, SendStop, ledger, Messages
<1>7. CASE \E m \in injects : handleInjectTx(m)
  <2>1. PICK m \in injects : handleInjectTx(m)
    BY <1>7
  <2>2. m \in Messages /\ Messages' = Messages \ {m}
    BY <1>2, <2>1, OtherMessages DEF handleInjectTx, Messages
  <2>3. /\ pool' = [pool EXCEPT ![m.to] = AddTxs2Pool(@, m.txs)]
        /\ UNCHANGED <<line, txlist, proposal, blocks>>
    BY <2>1 DEF handleInjectTx, supervisor, ledger
  <2> QED  BY <1>1, <1>2, <2>2, <2>3, Delivered
<1>8. CASE \E m \in relays : handleRelay(m)
  <2>1. PICK m \in relays : handleRelay(m)
    BY <1>8
  <2>2. m \in Messages /\ Messages' = Messages \ {m}
    BY <1>2, <2>1, OtherMessages DEF handleRelay, Messages
  <2>3. /\ pool' = [pool EXCEPT ![m.to] = AddTxs2Pool(@, m.txs)]
        /\ UNCHANGED <<line, txlist, proposal, blocks>>
    BY <2>1 DEF handleRelay, supervisor, ledger
  <2> QED  BY <1>1, <1>2, <2>2, <2>3, Delivered
<1>9. CASE \E s \in Shards : HandleinPropose(s)
  BY <1>1, <1>2, <1>9, ProposePlaced
<1>10. CASE \E s \in Shards : HandleinCommit(s)
  BY <1>1, <1>2, <1>10, CommitPlaced
<1>11. CASE \E s \in Shards : WaitToStop(s) \/ handleBlockInfos(s)
  BY <1>3, <1>11 DEF WaitToStop, handleBlockInfos, supervisor, ledger, Messages
<1>12. CASE TcpDialFails
  <2>1. UNCHANGED <<line, txlist, pool, proposal, blocks>>
    BY <1>12 DEF TcpDialFails, supervisor, ledger
  <2>2. Messages' \subseteq Messages
    BY <1>12 DEF TcpDialFails, Messages
  <2> QED  BY <1>3, <2>1, <2>2
<1>13. CASE UNCHANGED vars
  BY <1>3, <1>13 DEF vars, supervisor, ledger, Messages
<1> QED
  BY <1>1, <1>4, <1>5, <1>6, <1>7, <1>8, <1>9, <1>10, <1>11, <1>12, <1>13 DEF Next

-----------------------------------------------------------------------------
(***************************************************************************)
(* The balances.                                                           *)
(***************************************************************************)

\* A transaction keeps a shard to its own accounts and overdraws none.
LEMMA ApplySound ==
  ASSUME NEW st \in Balances, NEW s, Sound(s, st), NEW tx \in TxOver(Accounts), ~tx.hasBroker
  PROVE  Sound(s, Apply(st, Addr2Shard, s, tx))
<1>1. /\ tx.sender \in Accounts /\ tx.recipient \in Accounts /\ tx.value \in Nat
      /\ st \in [Accounts -> Int] /\ Init_Balance \in Nat
  BY RelayAssumption DEF TxOver, Balances
<1>2. ASSUME NEW t \in [Accounts -> Int], Sound(s, t), Addr2Shard[tx.recipient] = s
      PROVE  Sound(s, Deposit(t, tx.recipient, tx.value))
  BY <1>1, <1>2 DEF Sound, Deposit
<1>3. ASSUME Debits(Addr2Shard, s, tx), ~Insufficient(st, Addr2Shard, s, tx)
      PROVE  /\ Deduct(st, tx.sender, tx.value) \in [Accounts -> Int]
             /\ Sound(s, Deduct(st, tx.sender, tx.value))
  <2>1. Addr2Shard[tx.sender] = s /\ st[tx.sender] >= tx.value
    BY <1>1, <1>3 DEF Debits, Local, Insufficient
  <2> QED  BY <1>1, <2>1 DEF Sound, Deduct
<1>4. Local(Addr2Shard, s, tx.recipient, tx) <=> Addr2Shard[tx.recipient] = s
  BY DEF Local
<1> QED  BY <1>1, <1>2, <1>3, <1>4 DEF Apply

\* So does a block.
LEMMA BlockSound ==
  ASSUME NEW st \in Balances, NEW s, Sound(s, st), NEW body \in Seq(Txs)
  PROVE  Sound(s, GetUpdateStatusTrie(st, Addr2Shard, s, Fields(body)))
<1>1. PICK B : B = {b \in Balances : Sound(s, b)}
  OBVIOUS
<1>2. PICK c : c = st
  OBVIOUS
<1>3. ASSUME NEW b \in B, NEW i \in 1..Len(body)
      PROVE  Apply(b, Addr2Shard, s, Fields(body)[i]) \in B
  <2>1. Fields(body)[i] \in TxOver(Accounts)
    BY FieldsType, ElementOfSeq
  <2>2. PICK tx : tx = Fields(body)[i]
    OBVIOUS
  <2>3. tx \in TxOver(Accounts) /\ ~tx.hasBroker
    <3>1. tx = [sender |-> Input[body[i].line].sender,
                recipient |-> Input[body[i].line].recipient,
                value |-> Input[body[i].line].value, relayed |-> body[i].relayed,
                hasBroker |-> FALSE]
      BY <2>2, FieldsType
    <3>2. ~tx.hasBroker
      BY <3>1
    <3> QED  BY <2>1, <2>2, <3>2
  <2>4. b \in Balances /\ Sound(s, b)
    BY <1>1
  <2>5. Sound(s, Apply(b, Addr2Shard, s, tx))
    BY <2>3, <2>4, ApplySound
  <2>6. Apply(b, Addr2Shard, s, tx) \in [Accounts -> Int]
    <3>1. b \in [Accounts -> Int]
      BY <2>4 DEF Balances
    <3> QED  BY <2>3, <3>1, ApplyType
  <2> QED  BY <1>1, <2>2, <2>5, <2>6 DEF Balances
<1>4. B \subseteq Balances /\ c \in B
  BY <1>1, <1>2
<1>5. GetUpdateStatusTrie(c, Addr2Shard, s, Fields(body)) \in B
  BY <1>3, <1>4, BodyTries
<1> QED  BY <1>1, <1>2, <1>5

\* What the transactions of a block in their shard do to its value, and which are
\* skipped.
LEMMA BlockEffects ==
  ASSUME NEW st \in Balances, NEW s \in Shards, NEW body \in Seq(Txs),
         \A u \in Range(body) : Home(u) = s,
         NEW i \in 1..Len(body)
  PROVE  /\ i \in Skipped(st, Addr2Shard, s, Fields(body)) => ~body[i].relayed
         /\ Effects(st, Addr2Shard, s, Fields(body))[i]
              = IF body[i].relayed THEN Input[body[i].line].value
                ELSE IF Cross(body[i].line) /\ i \notin Skipped(st, Addr2Shard, s, Fields(body))
                  THEN -Input[body[i].line].value ELSE 0
<1>1. PICK txs : txs = Fields(body)
  OBVIOUS
<1>2. PICK b, tx : b = Tries(st, Addr2Shard, s, txs)[i - 1] /\ tx = txs[i]
  OBVIOUS
<1>3. /\ tx.sender = Input[body[i].line].sender /\ tx.recipient = Input[body[i].line].recipient
      /\ tx.value = Input[body[i].line].value /\ tx.relayed = body[i].relayed /\ ~tx.hasBroker
      /\ Len(txs) = Len(body) /\ DOMAIN txs = 1..Len(body)
  <2>1. tx = [sender |-> Input[body[i].line].sender, recipient |-> Input[body[i].line].recipient,
              value |-> Input[body[i].line].value, relayed |-> body[i].relayed,
              hasBroker |-> FALSE]
    BY <1>1, <1>2, FieldsType
  <2>2. Len(txs) = Len(body) /\ DOMAIN txs = 1..Len(body)
    BY <1>1, FieldsType
  <2> QED  BY <2>1, <2>2
<1>4. Effects(st, Addr2Shard, s, txs)[i] = Effect(b, Addr2Shard, s, tx)
  BY <1>2, <1>3 DEF Effects
<1>5. i \in Skipped(st, Addr2Shard, s, txs) <=> Insufficient(b, Addr2Shard, s, tx)
  BY <1>2, <1>3 DEF Skipped
<1>6. body[i] \in Txs /\ Home(body[i]) = s
  <2>1. body[i] \in Txs /\ body[i] \in Range(body)
    BY ElementOfSeq DEF Range
  <2> QED  BY <2>1
<1>7. tx.value \in Nat /\ tx.relayed \in BOOLEAN
  BY <1>3, <1>6, TxsType, InputType
<1>8. Debits(Addr2Shard, s, tx) <=> ~tx.relayed
  BY <1>3, <1>6 DEF Debits, Local, Home
<1>9. Local(Addr2Shard, s, tx.recipient, tx) <=> (tx.relayed \/ ~Cross(body[i].line))
  BY <1>3, <1>6 DEF Local, Home, Cross
<1>10. Insufficient(b, Addr2Shard, s, tx) => ~tx.relayed
  BY <1>8 DEF Insufficient
<1>11. Effect(b, Addr2Shard, s, tx)
         = IF tx.relayed THEN tx.value
           ELSE IF Cross(body[i].line) /\ ~Insufficient(b, Addr2Shard, s, tx)
             THEN -tx.value ELSE 0
  BY <1>7, <1>8, <1>9, <1>10 DEF Effect
<1> QED  BY <1>1, <1>3, <1>4, <1>5, <1>10, <1>11

\* The block in consensus stays the one that was proposed.
LEMMA ProposedStep == TypeOK /\ Proposed /\ [Next]_vars => Proposed'
<1>1. SUFFICES ASSUME TypeOK, Proposed, [Next]_vars PROVE Proposed'
  OBVIOUS
<1>2. CASE UNCHANGED <<proposal, balance>>
  BY <1>1, <1>2 DEF Proposed
<1>3. CASE \E s \in Shards : HandleinPropose(s)
  <2>1. PICK s \in Shards : HandleinPropose(s)
    BY <1>3
  <2>2. PICK b, p : /\ b = PackTxs(pool[s], BlockSize)
                    /\ p = GetUpdateStatusTrie(balance[s], Addr2Shard, s, Fields(b))
    OBVIOUS
  <2>3. /\ proposal' = [proposal EXCEPT ![s] = [body |-> b, state |-> p, open |-> TRUE]]
        /\ balance' = balance
    BY <2>1, <2>2 DEF HandleinPropose
  <2>4. proposal'[s].open /\ proposal'[s].body = b /\ proposal'[s].state = p
    BY <1>1, <2>3 DEF TypeOK
  <2>5. \A u \in Shards \ {s} : proposal'[u] = proposal[u]
    BY <1>1, <2>3 DEF TypeOK
  <2> QED  BY <1>1, <2>2, <2>3, <2>4, <2>5 DEF Proposed
<1>4. CASE \E s \in Shards : HandleinCommit(s)
  <2>1. PICK s \in Shards : HandleinCommit(s)
    BY <1>4
  <2>2. /\ proposal'[s] = NoBlock
        /\ \A u \in Shards \ {s} : proposal'[u] = proposal[u] /\ balance'[u] = balance[u]
    BY <1>1, <2>1 DEF HandleinCommit, TypeOK
  <2>3. ~NoBlock.open
    BY DEF NoBlock
  <2> QED  BY <1>1, <2>2, <2>3 DEF Proposed
<1> QED
  BY <1>1, <1>2, <1>3, <1>4
     DEF Next, vars, ledger, ReadLine, txSending, BatchSent, EndOfInput, SendStop,
         handleInjectTx, handleRelay, WaitToStop, handleBlockInfos, TcpDialFails

\* A shard that executes a block keeps to its own accounts.
LEMMA OwnBalancesStep == TypeOK /\ Proposed /\ OwnBalances /\ [Next]_vars => OwnBalances'
<1>1. SUFFICES ASSUME TypeOK, Proposed, OwnBalances, [Next]_vars PROVE OwnBalances'
  OBVIOUS
<1>2. CASE UNCHANGED balance
  BY <1>1, <1>2 DEF OwnBalances, Sound
<1>3. CASE \E s \in Shards : HandleinCommit(s)
  <2>1. PICK s \in Shards : HandleinCommit(s)
    BY <1>3
  <2>2. PICK b \in Balances, body \in Seq(Txs) : b = balance[s] /\ body = proposal[s].body
    BY <1>1, HeldType DEF TypeOK
  <2>3. PICK c : c = GetUpdateStatusTrie(b, Addr2Shard, s, Fields(body))
    OBVIOUS
  <2>4. balance'[s] = c /\ \A u \in Shards \ {s} : balance'[u] = balance[u]
    BY <1>1, <2>1, <2>2, <2>3 DEF HandleinCommit, TypeOK, Proposed
  <2>5. Sound(s, b)
    BY <1>1, <2>2 DEF OwnBalances
  <2>6. Sound(s, c)
    BY <2>3, <2>5, BlockSound
  <2>7. \A u \in Shards : Sound(u, balance'[u])
    BY <1>1, <2>4, <2>6 DEF OwnBalances
  <2> QED  BY <2>7 DEF OwnBalances, Sound
<1> QED
  BY <1>1, <1>2, <1>3
     DEF Next, vars, ledger, ReadLine, txSending, BatchSent, EndOfInput, SendStop, HandleinPropose,
         handleInjectTx, handleRelay, WaitToStop, handleBlockInfos, TcpDialFails

\* There are finitely many transactions.
LEMMA TxsFinite == IsFiniteSet(Txs) /\ IsFiniteSet(Lines)
<1>1. IsFiniteSet(Lines)
  <2>1. Len(Input) \in Int /\ Lines = 1..Len(Input)
    BY InputType
  <2> QED  BY <2>1, FS_Interval
<1>2. PICK f, g : f = [l \in Lines |-> Tx(l, FALSE)] /\ g = [l \in Lines |-> Tx(l, TRUE)]
  OBVIOUS
<1>3. IsFiniteSet({f[l] : l \in Lines}) /\ IsFiniteSet({g[l] : l \in Lines})
  BY <1>1, FiniteImage
<1>4. Txs = {f[l] : l \in Lines} \cup {g[l] : l \in Lines}
  <2>1. \A l \in Lines : f[l] = Tx(l, FALSE) /\ g[l] = Tx(l, TRUE)
    BY <1>2
  <2>2. \A tx : tx \in Txs <=> \E l \in Lines : tx = f[l] \/ tx = g[l]
    <3>1. \A tx : tx \in Txs <=> \E l \in Lines : tx = Tx(l, FALSE) \/ tx = Tx(l, TRUE)
      <4>1. ASSUME NEW tx \in Txs PROVE \E l \in Lines : tx = Tx(l, FALSE) \/ tx = Tx(l, TRUE)
        <5>1. tx.line \in Lines /\ tx.relayed \in BOOLEAN /\ tx = Tx(tx.line, tx.relayed)
          BY TxsType
        <5>2. tx.relayed = TRUE \/ tx.relayed = FALSE
          BY <5>1
        <5> QED  BY <5>1, <5>2
      <4>2. \A l \in Lines : Tx(l, FALSE) \in Txs /\ Tx(l, TRUE) \in Txs
        BY TxsType
      <4> QED  BY <4>1, <4>2
    <3> QED  BY <2>1, <3>1
  <2> QED  BY <2>2
<1>5. IsFiniteSet({f[l] : l \in Lines} \cup {g[l] : l \in Lines})
  BY <1>3, FS_Union
<1> QED  BY <1>1, <1>4, <1>5

\* What has been executed, and the drift of each transaction.
LEMMA ExecutedType ==
  ASSUME TypeOK
  PROVE  /\ AllExecuted \subseteq Txs /\ IsFiniteSet(AllExecuted)
         /\ \A tx : tx \in AllExecuted <=> \E s \in Shards : tx \in Range(blocks[s])
         /\ \A tx \in Txs : /\ Drift[tx] \in Int
                            /\ Drift[tx] = IF tx.relayed THEN Input[tx.line].value
                                 ELSE IF Cross(tx.line) /\ tx.line \notin skipped
                                   THEN -Input[tx.line].value ELSE 0
<1>1. \A tx : tx \in AllExecuted <=> \E s \in Shards : tx \in Range(blocks[s])
  BY DEF AllExecuted
<1>2. ASSUME NEW tx \in AllExecuted PROVE tx \in Txs
  <2>1. PICK s \in Shards : tx \in Range(blocks[s])
    BY <1>1
  <2>2. PICK q \in Seq(Txs) : q = blocks[s]
    BY DEF TypeOK
  <2> QED  BY <2>1, <2>2, RangeOfSeq
<1>3. IsFiniteSet(AllExecuted)
  <2>1. AllExecuted \in SUBSET Txs
    BY <1>2
  <2> QED  BY <2>1, TxsFinite, FS_Subset
<1>4. \A tx \in Txs : /\ Drift[tx] \in Int
                      /\ Drift[tx] = IF tx.relayed THEN Input[tx.line].value
                           ELSE IF Cross(tx.line) /\ tx.line \notin skipped
                             THEN -Input[tx.line].value ELSE 0
  BY TxsType, InputType DEF Drift
<1> QED  BY <1>1, <1>2, <1>3, <1>4

\* A block that the shard executes: its state before and after.
LEMMA CommitState ==
  ASSUME Placed, Proposed, NEW s \in Shards, HandleinCommit(s)
  PROVE  \E b \in Balances, body \in Seq(Txs) :
           /\ b = balance[s] /\ body = proposal[s].body
           /\ balance' = [balance EXCEPT ![s] = GetUpdateStatusTrie(b, Addr2Shard, s, Fields(body))]
           /\ blocks' = [blocks EXCEPT ![s] = blocks[s] \o body]
           /\ skipped' = skipped \cup {body[i].line : i \in Skipped(b, Addr2Shard, s, Fields(body))}
           /\ IsInjective(body) /\ AllExecuted \cap Range(body) = {}
           /\ AllExecuted' = AllExecuted \cup Range(body)
           /\ \A u \in Range(body) : u \in Txs /\ Home(u) = s
<1>0. TypeOK /\ OneCopy /\ Routed
  BY DEF Placed
<1>1. PICK b \in Balances, body \in Seq(Txs) : b = balance[s] /\ body = proposal[s].body
  BY <1>0, HeldType DEF TypeOK
<1>2. /\ balance' = [balance EXCEPT ![s] = GetUpdateStatusTrie(b, Addr2Shard, s, Fields(body))]
      /\ blocks' = [blocks EXCEPT ![s] = blocks[s] \o body]
      /\ skipped' = skipped \cup {body[i].line : i \in Skipped(b, Addr2Shard, s, Fields(body))}
  <2>1. proposal[s].open /\ proposal[s].state = GetUpdateStatusTrie(b, Addr2Shard, s, Fields(body))
    BY <1>1 DEF HandleinCommit, Proposed
  <2> QED  BY <1>1, <2>1 DEF HandleinCommit
<1>3. /\ Range(body) \subseteq Range(Held(s)) /\ IsInjective(Held(s))
      /\ \A u \in Shards : Range(blocks[u]) \subseteq Range(Held(u))
  BY <1>0, <1>1, HeldType DEF OneCopy
<1>4. IsInjective(body) /\ Range(blocks[s]) \cap Range(body) = {}
  BY <1>0, <1>1, <1>3, HeldParts
<1>5. \A u \in Shards \ {s} : Range(blocks[u]) \cap Range(body) = {}
  BY <1>0, <1>3 DEF OneCopy
<1>6. AllExecuted \cap Range(body) = {}
  BY <1>0, <1>4, <1>5, ExecutedType
<1>7. AllExecuted' = AllExecuted \cup Range(body)
  <2>1. PICK p \in Seq(Txs) : p = blocks[s]
    BY <1>0 DEF TypeOK
  <2>2. Range(p \o body) = Range(p) \cup Range(body)
    BY ConcatRange
  <2>3. /\ Range(blocks'[s]) = Range(blocks[s]) \cup Range(body)
        /\ \A u \in Shards \ {s} : Range(blocks'[u]) = Range(blocks[u])
    BY <1>0, <1>2, <2>1, <2>2 DEF TypeOK
  <2>4. \A tx : tx \in AllExecuted' <=> \E u \in Shards : tx \in Range(blocks'[u])
    BY DEF AllExecuted
  <2>5. \A tx : tx \in AllExecuted' <=> (tx \in AllExecuted \/ tx \in Range(body))
    BY <1>0, <2>3, <2>4, ExecutedType
  <2> QED  BY <2>5
<1>8. \A u \in Range(body) : u \in Txs /\ Home(u) = s
  BY <1>0, <1>3, RangeOfSeq DEF Routed
<1> QED  BY <1>1, <1>2, <1>4, <1>6, <1>7, <1>8

\* What is skipped is executed.
LEMMA SkippedStep ==
  Placed /\ Proposed /\ SkippedExecuted /\ [Next]_vars => SkippedExecuted'
<1>1. SUFFICES ASSUME Placed, Proposed, SkippedExecuted, [Next]_vars PROVE SkippedExecuted'
  OBVIOUS
<1>2. CASE UNCHANGED <<blocks, skipped>>
  BY <1>1, <1>2 DEF SkippedExecuted, Executed
<1>3. CASE \E s \in Shards : HandleinCommit(s)
  <2>1. PICK s \in Shards : HandleinCommit(s)
    BY <1>3
  <2>2. PICK b \in Balances, body \in Seq(Txs) :
           /\ blocks' = [blocks EXCEPT ![s] = blocks[s] \o body]
           /\ skipped' = skipped \cup {body[i].line : i \in Skipped(b, Addr2Shard, s, Fields(body))}
           /\ \A u \in Range(body) : u \in Txs /\ Home(u) = s
    BY <1>1, <2>1, CommitState
  <2>3. TypeOK
    BY <1>1 DEF Placed
  <2>4. /\ \A u \in Shards : Range(blocks[u]) \subseteq Range(blocks'[u])
        /\ Range(body) \subseteq Range(blocks'[s])
    <3>1. PICK p \in Seq(Txs) : p = blocks[s]
      BY <2>3 DEF TypeOK
    <3>2. Range(p \o body) = Range(p) \cup Range(body)
      BY ConcatRange
    <3> QED  BY <2>2, <2>3, <3>1, <3>2 DEF TypeOK
  <2>5. ASSUME NEW l \in skipped
        PROVE  Tx(l, FALSE) \in Range(blocks'[Addr2Shard[Input[l].sender]])
    <3>1. l \in Lines /\ Addr2Shard[Input[l].sender] \in Shards
      BY <2>3, InputType DEF TypeOK
    <3> QED  BY <1>1, <2>4, <2>5, <3>1 DEF SkippedExecuted, Executed
  <2>6. ASSUME NEW i \in Skipped(b, Addr2Shard, s, Fields(body))
        PROVE  Tx(body[i].line, FALSE) \in Range(blocks'[Addr2Shard[Input[body[i].line].sender]])
    <3>1. DOMAIN Fields(body) = 1..Len(body)
      BY FieldsType
    <3>2. i \in 1..Len(body)
      BY <3>1 DEF Skipped
    <3>3. ~body[i].relayed
      BY <2>2, <3>2, BlockEffects
    <3>4. body[i] \in Range(body)
      BY <3>2 DEF Range
    <3>5. body[i] = Tx(body[i].line, FALSE) /\ Home(body[i]) = s
      BY <2>2, <3>3, <3>4, TxsType
    <3>6. Addr2Shard[Input[body[i].line].sender] = s
      BY <3>3, <3>5 DEF Home
    <3> QED  BY <2>4, <3>4, <3>5, <3>6
  <2> QED  BY <2>2, <2>5, <2>6 DEF SkippedExecuted, Executed
<1> QED
  BY <1>1, <1>2, <1>3
     DEF Next, vars, ledger, ReadLine, txSending, BatchSent, EndOfInput, SendStop, HandleinPropose,
         handleInjectTx, handleRelay, WaitToStop, handleBlockInfos, TcpDialFails

\* The value of the shard changes by the effects of the block.
LEMMA CommitValue ==
  ASSUME TypeOK, NEW s \in Shards, NEW b \in Balances, NEW body \in Seq(Txs), b = balance[s],
         balance' = [balance EXCEPT ![s] = GetUpdateStatusTrie(b, Addr2Shard, s, Fields(body))]
  PROVE  /\ \A i \in 1..Len(body) : Effects(b, Addr2Shard, s, Fields(body))[i] \in Int
         /\ SumFunctionOnSet(Owned', Accounts)
              = SumFunctionOnSet(Owned, Accounts)
                + SumFunctionOnSet(Effects(b, Addr2Shard, s, Fields(body)), 1..Len(body))
<1>1. PICK D : D = {a \in Accounts : Addr2Shard[a] = s}
  OBVIOUS
<1>2. IsFiniteSet(D) /\ D \in SUBSET Accounts /\ IsFiniteSet(Accounts)
  BY <1>1, RelayAssumption, FS_Subset
<1>3. PICK txs, A, pm : txs = Fields(body) /\ A = Accounts /\ pm = Addr2Shard
  OBVIOUS
<1>4. Len(txs) = Len(body) /\ txs \in Seq(TxOver(A))
  BY <1>3, FieldsType
<1>5. Fits(A, D, pm, s, txs)
  <2>1. ASSUME NEW i \in 1..Len(txs) PROVE Touches(D, pm, s, txs[i])
    <3>1. PICK tx : tx = txs[i]
      OBVIOUS
    <3>2. tx = [sender |-> Input[body[i].line].sender,
                recipient |-> Input[body[i].line].recipient,
                value |-> Input[body[i].line].value, relayed |-> body[i].relayed,
                hasBroker |-> FALSE]
      BY <1>3, <1>4, <3>1, FieldsType
    <3>3. tx \in TxOver(A)
      BY <1>4, <3>1, ElementOfSeq
    <3>4. ~tx.hasBroker /\ tx.sender \in Accounts /\ tx.recipient \in Accounts
      BY <1>3, <3>2, <3>3 DEF TxOver
    <3>5. Touches(D, pm, s, tx)
      BY <1>1, <1>3, <3>4 DEF Touches, Debits, Local
    <3> QED  BY <3>1, <3>5
  <2> QED  BY <1>2, <1>3, <1>4, <2>1 DEF Fits
<1>6. b \in Trie(A)
  BY <1>3 DEF Trie, Balances
<1>7. PICK c, e : c = GetUpdateStatusTrie(b, pm, s, txs) /\ e = Effects(b, pm, s, txs)
  OBVIOUS
<1>8. /\ \A i \in 1..Len(txs) : e[i] \in Int
      /\ c \in Trie(A)
      /\ SumFunctionOnSet(c, D) = SumFunctionOnSet(b, D) + SumFunctionOnSet(e, 1..Len(txs))
  BY <1>2, <1>5, <1>6, <1>7, BlockValue
<1>9. PICK f, g : f = Owned /\ g = Owned'
  OBVIOUS
<1>10. /\ \A a \in Accounts : f[a] = balance[Addr2Shard[a]][a] /\ f[a] \in Int
       /\ \A a \in Accounts : g[a] = balance'[Addr2Shard[a]][a]
  BY <1>9, RelayAssumption DEF Owned, TypeOK, Balances
<1>11. balance'[s] = c /\ \A u \in Shards \ {s} : balance'[u] = balance[u]
  BY <1>3, <1>7 DEF TypeOK
<1>12. /\ \A a \in D : f[a] = b[a] /\ g[a] = c[a] /\ b[a] \in Int /\ c[a] \in Int
       /\ \A a \in Accounts \ D : g[a] = f[a]
  BY <1>1, <1>3, <1>8, <1>10, <1>11, RelayAssumption, ZenonT(30) DEF Trie, Balances
<1>13. SumFunctionOnSet(f, D) = SumFunctionOnSet(b, D) /\ SumFunctionOnSet(g, D) = SumFunctionOnSet(c, D)
  BY <1>2, <1>12, SumSame
<1>14. SumFunctionOnSet(g, Accounts)
         = SumFunctionOnSet(f, Accounts) - SumFunctionOnSet(f, D) + SumFunctionOnSet(g, D)
  <2>1. \A a \in Accounts : f[a] \in Int /\ g[a] \in Int
    BY <1>1, <1>10, <1>12
  <2> QED  BY <1>2, <1>12, <2>1, SumChangeIn
<1>15. /\ SumFunctionOnSet(f, Accounts) \in Int /\ SumFunctionOnSet(b, D) \in Int
  BY <1>2, <1>10, <1>12, SumType
<1>16. SumFunctionOnSet(e, 1..Len(txs)) \in Int
  <2>1. Len(txs) \in Int
    BY <1>4, LenProperties
  <2>2. IsFiniteSet(1..Len(txs))
    BY <2>1, FS_Interval
  <2> QED  BY <1>8, <2>2, SumType
<1>17. SumFunctionOnSet(g, Accounts)
         = SumFunctionOnSet(f, Accounts) + SumFunctionOnSet(e, 1..Len(txs))
  BY <1>8, <1>13, <1>14, <1>15, <1>16
<1> QED  BY <1>3, <1>4, <1>7, <1>8, <1>9, <1>17

\* The executed transactions keep their drifts when a block is executed, and those of
\* the block get the effects they have in it.
LEMMA CommitDrift ==
  ASSUME Placed, Placed', SkippedExecuted, NEW s \in Shards, NEW b \in Balances,
         NEW body \in Seq(Txs), IsInjective(body), AllExecuted \cap Range(body) = {},
         skipped' = skipped \cup {body[i].line : i \in Skipped(b, Addr2Shard, s, Fields(body))},
         \A u \in Range(body) : u \in Txs /\ Home(u) = s
  PROVE  /\ \A tx \in AllExecuted : Drift'[tx] = Drift[tx]
         /\ \A i \in 1..Len(body) :
              Drift'[body[i]] = Effects(b, Addr2Shard, s, Fields(body))[i]
<1>0. TypeOK /\ TypeOK'
  BY DEF Placed
<1>1. PICK K : K = Skipped(b, Addr2Shard, s, Fields(body))
  OBVIOUS
<1>2. DOMAIN Fields(body) = 1..Len(body)
  BY FieldsType
<1>3. K \subseteq 1..Len(body)
  BY <1>1, <1>2 DEF Skipped
<1>4. \A i \in K : ~body[i].relayed
  BY <1>1, <1>3, BlockEffects
<1>5. \A i \in 1..Len(body) : body[i] \in Range(body) /\ body[i] \in Txs
  <2>1. \A i \in 1..Len(body) : body[i] \in Range(body)
    BY DEF Range
  <2> QED  BY <2>1
<1>6. \A tx \in Txs : \A i \in K : ~tx.relayed /\ tx.line = body[i].line => tx = body[i]
  <2>1. SUFFICES ASSUME NEW tx \in Txs, NEW i \in K, ~tx.relayed, tx.line = body[i].line
                 PROVE  tx = body[i]
    OBVIOUS
  <2>2. tx.relayed = FALSE /\ body[i].relayed = FALSE
    BY <1>3, <1>4, <1>5, <2>1, TxsType
  <2>3. tx = Tx(tx.line, tx.relayed) /\ body[i] = Tx(body[i].line, body[i].relayed)
    BY <1>3, <1>5, TxsType
  <2> QED  BY <2>1, <2>2, <2>3
<1>7. skipped' = skipped \cup {body[i].line : i \in K}
  BY <1>1
<1>8. \A tx \in Txs : Drift'[tx] = IF tx.relayed THEN Input[tx.line].value
                        ELSE IF Cross(tx.line) /\ tx.line \notin skipped'
                          THEN -Input[tx.line].value ELSE 0
  BY DEF Drift, Cross
<1>9. ASSUME NEW tx \in AllExecuted PROVE Drift'[tx] = Drift[tx]
  <2>1. tx \in Txs /\ tx \notin Range(body)
    BY <1>0, ExecutedType
  <2>2. ~tx.relayed => (tx.line \in skipped' <=> tx.line \in skipped)
    BY <1>3, <1>5, <1>6, <1>7, <2>1
  <2> QED  BY <1>0, <1>8, <2>1, <2>2, ExecutedType
<1>10. ASSUME NEW i \in 1..Len(body), ~body[i].relayed PROVE body[i].line \in skipped' <=> i \in K
  <2>1. body[i] \in Txs /\ body[i] \in Range(body) /\ body[i] = Tx(body[i].line, FALSE)
    BY <1>5, <1>10, TxsType
  <2>2. body[i].line \notin skipped
    <3>1. SUFFICES ASSUME body[i].line \in skipped PROVE FALSE
      OBVIOUS
    <3>2. PICK l : l = body[i].line
      OBVIOUS
    <3>3. l \in Lines /\ Addr2Shard[Input[l].sender] \in Shards
      BY <2>1, <3>2, TxsType, InputType
    <3>4. Tx(l, FALSE) \in Range(blocks[Addr2Shard[Input[l].sender]])
      BY <3>1, <3>2 DEF SkippedExecuted, Executed
    <3>5. Tx(l, FALSE) \in AllExecuted
      BY <1>0, <3>3, <3>4, ExecutedType
    <3> QED  BY <2>1, <3>2, <3>5
  <2>3. ASSUME NEW j \in K, body[j].line = body[i].line PROVE j = i
    <3>1. body[i] = body[j]
      BY <1>6, <1>10, <2>1, <2>3
    <3>2. DOMAIN body = 1..Len(body) /\ j \in 1..Len(body)
      BY <1>3
    <3> QED  BY <3>1, <3>2 DEF IsInjective
  <2> QED  BY <1>7, <2>2, <2>3
<1>11. ASSUME NEW i \in 1..Len(body)
       PROVE  Drift'[body[i]] = Effects(b, Addr2Shard, s, Fields(body))[i]
  <2>1. Effects(b, Addr2Shard, s, Fields(body))[i]
          = IF body[i].relayed THEN Input[body[i].line].value
            ELSE IF Cross(body[i].line) /\ i \notin K THEN -Input[body[i].line].value ELSE 0
    BY <1>1, BlockEffects
  <2> QED  BY <1>5, <1>8, <1>10, <2>1
<1> QED  BY <1>9, <1>11

\* The value of all shards changes by what the executed transactions change.
LEMMA BalancedStep ==
  Placed /\ Placed' /\ Proposed /\ SkippedExecuted /\ Balanced /\ [Next]_vars => Balanced'
<1>1. SUFFICES ASSUME Placed, Placed', Proposed, SkippedExecuted, Balanced, [Next]_vars
               PROVE  Balanced'
  OBVIOUS
<1>2. CASE UNCHANGED <<balance, blocks, skipped>>
  BY <1>1, <1>2 DEF Balanced, Owned, Drift, AllExecuted, Cross
<1>3. CASE \E s \in Shards : HandleinCommit(s)
  <2>0. TypeOK
    BY <1>1 DEF Placed
  <2>1. PICK s \in Shards : HandleinCommit(s)
    BY <1>3
  <2>2. PICK b \in Balances, body \in Seq(Txs) :
           /\ b = balance[s] /\ body = proposal[s].body
           /\ balance' = [balance EXCEPT ![s] = GetUpdateStatusTrie(b, Addr2Shard, s, Fields(body))]
           /\ skipped' = skipped \cup {body[i].line : i \in Skipped(b, Addr2Shard, s, Fields(body))}
           /\ IsInjective(body) /\ AllExecuted \cap Range(body) = {}
           /\ AllExecuted' = AllExecuted \cup Range(body)
           /\ \A u \in Range(body) : u \in Txs /\ Home(u) = s
    BY <1>1, <2>1, CommitState
  <2>3. PICK e : e = Effects(b, Addr2Shard, s, Fields(body))
    OBVIOUS
  <2>4. /\ \A i \in 1..Len(body) : e[i] \in Int
        /\ SumFunctionOnSet(Owned', Accounts)
             = SumFunctionOnSet(Owned, Accounts) + SumFunctionOnSet(e, 1..Len(body))
    BY <2>0, <2>2, <2>3, CommitValue
  <2>5. PICK X, f, g : X = AllExecuted /\ f = Drift /\ g = Drift'
    OBVIOUS
  <2>6. /\ \A tx \in X : g[tx] = f[tx]
        /\ \A i \in 1..Len(body) : g[body[i]] = e[i]
    BY <1>1, <2>2, <2>3, <2>5, CommitDrift
  <2>7. IsFiniteSet(X) /\ X \cap Range(body) = {} /\ \A tx \in X : f[tx] \in Int
    BY <2>0, <2>2, <2>5, ExecutedType
  <2>8. SumFunctionOnSet(g, X \cup Range(body))
          = SumFunctionOnSet(f, X) + SumFunctionOnSet(e, 1..Len(body))
    <3>1. Joins(X, Txs, body, f, g, e)
      BY <2>2, <2>4, <2>6, <2>7 DEF Joins
    <3> QED  BY <3>1, SumExtend
  <2>9. SumFunctionOnSet(f, X) \in Int
    BY <2>7, SumType
  <2>10. SumFunctionOnSet(e, 1..Len(body)) \in Int
    <3>1. Len(body) \in Int
      BY LenProperties
    <3>2. IsFiniteSet(1..Len(body))
      BY <3>1, FS_Interval
    <3> QED  BY <2>4, <3>2, SumType
  <2>11. PICK z \in Int : z = Cardinality(Accounts) * Init_Balance
    <3>1. Cardinality(Accounts) \in Nat /\ Init_Balance \in Nat
      BY RelayAssumption, FS_CardinalityType
    <3> QED  BY <3>1
  <2>12. SumFunctionOnSet(Owned, Accounts) = z + SumFunctionOnSet(f, X)
    BY <1>1, <2>5, <2>11 DEF Balanced
  <2>13. SumFunctionOnSet(Owned', Accounts) = z + SumFunctionOnSet(g, X \cup Range(body))
    BY <2>4, <2>8, <2>9, <2>10, <2>12
  <2>14. SumFunctionOnSet(Owned', Accounts) = z + SumFunctionOnSet(Drift', AllExecuted')
    BY <2>2, <2>5, <2>13
  <2> QED  BY <2>11, <2>14 DEF Balanced
<1> QED
  BY <1>1, <1>2, <1>3
     DEF Next, vars, ledger, ReadLine, txSending, BatchSent, EndOfInput, SendStop, HandleinPropose,
         handleInjectTx, handleRelay, WaitToStop, handleBlockInfos, TcpDialFails

\* At the start every account has Init_Balance and nothing was executed.
LEMMA ValueInit == Init => Proposed /\ OwnBalances /\ SkippedExecuted /\ Balanced
<1>1. SUFFICES ASSUME Init PROVE Proposed /\ OwnBalances /\ SkippedExecuted /\ Balanced
  OBVIOUS
<1>2. Proposed /\ SkippedExecuted
  BY <1>1 DEF Init, Proposed, SkippedExecuted, NoBlock
<1>3. OwnBalances
  BY <1>1, RelayAssumption DEF Init, OwnBalances, Sound
<1>4. SumFunctionOnSet(Drift, AllExecuted) = 0
  <2>1. \A s \in Shards : Range(blocks[s]) = {}
    BY <1>1 DEF Init, Range
  <2>2. AllExecuted = {}
    BY <2>1 DEF AllExecuted
  <2>3. IsFiniteSet({}) /\ \A x \in {} : Drift[x] \in Int
    BY FS_EmptySet
  <2>4. SumFunctionOnSet(Drift, {}) = 0
    BY <2>3, SumType
  <2> QED  BY <2>2, <2>4
<1>5. SumFunctionOnSet(Owned, Accounts) = Cardinality(Accounts) * Init_Balance
  <2>1. \A a \in Accounts : Owned[a] = Init_Balance
    BY <1>1, RelayAssumption DEF Init, Owned
  <2>2. Init_Balance \in Int /\ IsFiniteSet(Accounts)
    BY RelayAssumption
  <2> QED  BY <2>1, <2>2, SumConstant
<1>6. Balanced
  <2>1. PICK z \in Int : z = Cardinality(Accounts) * Init_Balance
    <3>1. Cardinality(Accounts) \in Nat /\ Init_Balance \in Nat
      BY RelayAssumption, FS_CardinalityType
    <3> QED  BY <3>1
  <2> QED  BY <1>4, <1>5, <2>1 DEF Balanced
<1> QED  BY <1>2, <1>3, <1>6

\* The sum over the drifts is what is credited without a debit, less what is debited
\* and not credited.
LEMMA DriftSplit ==
  ASSUME Placed, SkippedExecuted
  PROVE  /\ SumFunctionOnSet(Values, Unbacked) \in Int /\ SumFunctionOnSet(Values, InTransit) \in Int
         /\ SumFunctionOnSet(Drift, AllExecuted)
              = SumFunctionOnSet(Values, Unbacked) - SumFunctionOnSet(Values, InTransit)
<1>0. TypeOK /\ Routed /\ RelayedAfter
  BY DEF Placed
<1>1. PICK X, f, v : X = AllExecuted /\ f = Drift /\ v = Values
  OBVIOUS
<1>2. PICK deb, cre :
        /\ deb = {l \in Lines : Cross(l) /\ l \notin skipped /\ Tx(l, FALSE) \in X}
        /\ cre = {l \in Lines : Tx(l, TRUE) \in X}
  OBVIOUS
<1>3. /\ X \subseteq Txs /\ IsFiniteSet(X)
      /\ \A tx \in Txs : /\ f[tx] \in Int
                         /\ f[tx] = IF tx.relayed THEN Input[tx.line].value
                              ELSE IF Cross(tx.line) /\ tx.line \notin skipped
                                THEN -Input[tx.line].value ELSE 0
  BY <1>0, <1>1, ExecutedType
<1>4. /\ \A l \in Lines : v[l] = Input[l].value /\ v[l] \in Int
      /\ IsFiniteSet(deb) /\ IsFiniteSet(cre)
  <2>1. \A l \in Lines : v[l] = Input[l].value /\ v[l] \in Int
    BY <1>1, InputType DEF Values
  <2>2. deb \in SUBSET Lines /\ cre \in SUBSET Lines
    BY <1>2
  <2> QED  BY <2>1, <2>2, TxsFinite, FS_Subset
<1>5. PICK p, q : p = [l \in Lines |-> Tx(l, FALSE)] /\ q = [l \in Lines |-> Tx(l, TRUE)]
  OBVIOUS
<1>6. \A l \in Lines : /\ p[l] = Tx(l, FALSE) /\ p[l] \in Txs /\ p[l].line = l /\ p[l].relayed = FALSE
                       /\ q[l] = Tx(l, TRUE) /\ q[l] \in Txs /\ q[l].line = l /\ q[l].relayed = TRUE
  BY <1>5, TxsType
<1>7. \A tx \in Txs : tx.line \in Lines /\ ((tx = p[tx.line] /\ ~tx.relayed) \/ (tx = q[tx.line] /\ tx.relayed))
  <2>1. SUFFICES ASSUME NEW tx \in Txs
                 PROVE  tx.line \in Lines /\ ((tx = p[tx.line] /\ ~tx.relayed) \/ (tx = q[tx.line] /\ tx.relayed))
    OBVIOUS
  <2>2. tx.line \in Lines /\ tx = Tx(tx.line, tx.relayed) /\ (tx.relayed = TRUE \/ tx.relayed = FALSE)
    BY TxsType
  <2>3. CASE tx.relayed = TRUE
    <3>1. tx = q[tx.line] /\ tx.line \in Lines
      BY <1>6, <2>2, <2>3
    <3> QED  BY <2>3, <3>1
  <2>4. CASE tx.relayed = FALSE
    <3>1. tx = p[tx.line] /\ tx.line \in Lines
      BY <1>6, <2>2, <2>4
    <3>2. ~tx.relayed
      BY <2>4, Zenon
    <3> QED  BY <3>1, <3>2
  <2> QED  BY <2>2, <2>3, <2>4
<1>8. PICK n : n = [l \in Lines |-> -v[l]]
  OBVIOUS
<1>8a. deb \subseteq Lines /\ cre \subseteq Lines
  BY <1>2
<1>8b. (\A l \in deb : p[l].line = l) /\ (\A l \in cre : q[l].line = l)
  BY <1>6, <1>8a
<1>9. PICK P, C : P = {p[l] : l \in deb} /\ C = {q[l] : l \in cre}
  OBVIOUS
<1>10. IsFiniteSet(P) /\ SumFunctionOnSet(f, P) = SumFunctionOnSet(n, deb)
  <2>1. \A i, j \in deb : p[i] = p[j] => i = j
    BY ONLY <1>8b
  <2>2. ASSUME NEW i \in deb PROVE f[p[i]] \in Int /\ n[i] = f[p[i]]
    <3>1. PICK tx \in Txs : tx = p[i] /\ tx.line = i /\ ~tx.relayed
      BY <1>6, <1>8a
    <3>2. Cross(i) /\ i \notin skipped /\ i \in Lines
      BY <1>2
    <3>3. f[tx] = -Input[i].value
      BY <1>3, <3>1, <3>2
    <3> QED  BY <1>3, <1>4, <1>8, <3>1, <3>2, <3>3
  <2>3. /\ IsFiniteSet({p[l] : l \in deb})
        /\ SumFunctionOnSet(f, {p[l] : l \in deb}) = SumFunctionOnSet(n, deb)
    BY <1>4, <2>1, <2>2, SumReindex
  <2> QED  BY <1>9, <2>3
<1>11. IsFiniteSet(C) /\ SumFunctionOnSet(f, C) = SumFunctionOnSet(v, cre)
  <2>1. \A i, j \in cre : q[i] = q[j] => i = j
    BY ONLY <1>8b
  <2>2. ASSUME NEW i \in cre PROVE f[q[i]] \in Int /\ v[i] = f[q[i]]
    <3>1. PICK tx \in Txs : tx = q[i] /\ tx.line = i /\ tx.relayed
      BY <1>6, <1>8a
    <3>2. f[tx] = Input[i].value /\ f[tx] \in Int
      BY <1>3, <3>1
    <3>3. v[i] = Input[i].value
      BY <1>4, <1>8a
    <3> QED  BY <3>1, <3>2, <3>3
  <2>3. /\ IsFiniteSet({q[l] : l \in cre})
        /\ SumFunctionOnSet(f, {q[l] : l \in cre}) = SumFunctionOnSet(v, cre)
    BY <1>4, <2>1, <2>2, SumReindex
  <2> QED  BY <1>9, <2>3
<1>12. /\ P \subseteq X /\ C \subseteq X /\ P \cap C = {}
       /\ \A tx \in X \ (P \cup C) : f[tx] = 0
       /\ \A tx \in P \cup C : f[tx] \in Int
  <2>1. P \subseteq X /\ C \subseteq X
    <3>1. (\A l \in deb : p[l] \in X) /\ (\A l \in cre : q[l] \in X)
      BY <1>2, <1>6
    <3> QED  BY <1>9, <3>1
  <2>2. P \cap C = {}
    <3>1. \A l \in deb : \A k \in cre : p[l] # q[k]
      BY <1>6, <1>8a
    <3> QED  BY <1>9, <3>1
  <2>3. ASSUME NEW tx \in X, tx \notin P, tx \notin C PROVE f[tx] = 0
    <3>1. tx \in Txs /\ tx.line \in Lines
      BY <1>3, <1>7
    <3>2. ~tx.relayed
      <4>1. SUFFICES ASSUME tx.relayed PROVE FALSE
        OBVIOUS
      <4>2. PICK l \in Lines : l = tx.line /\ tx = q[l]
        BY <1>7, <3>1, <4>1
      <4>3. Tx(l, TRUE) \in X
        <5>1. q[l] \in X
          BY <4>2
        <5>2. q[l] = Tx(l, TRUE)
          BY <1>6
        <5> QED  BY <5>1, <5>2
      <4>4. l \in cre
        BY <1>2, <4>3
      <4> QED  BY <1>9, <2>3, <4>2, <4>4
    <3>3. ~(Cross(tx.line) /\ tx.line \notin skipped)
      <4>1. SUFFICES ASSUME Cross(tx.line), tx.line \notin skipped PROVE FALSE
        OBVIOUS
      <4>2. PICK l \in Lines : l = tx.line /\ tx = p[l]
        BY <1>7, <3>1, <3>2
      <4>3. Tx(l, FALSE) \in X
        <5>1. p[l] \in X
          BY <4>2
        <5>2. p[l] = Tx(l, FALSE)
          BY <1>6
        <5> QED  BY <5>1, <5>2
      <4>4. l \in deb
        BY <1>2, <4>1, <4>2, <4>3
      <4> QED  BY <1>9, <2>3, <4>2, <4>4
    <3> QED  BY <1>3, <3>1, <3>2, <3>3
  <2> QED  BY <1>3, <2>1, <2>2, <2>3
<1>13. SumFunctionOnSet(f, X) = SumFunctionOnSet(v, cre) + SumFunctionOnSet(n, deb)
  <2>1. PICK D : D = P \cup C
    OBVIOUS
  <2>2. D \in SUBSET X /\ (\A tx \in D : f[tx] \in Int) /\ \A tx \in X \ D : f[tx] = 0
    BY <1>12, <2>1
  <2>3. SumFunctionOnSet(f, X) = SumFunctionOnSet(f, D)
    BY <1>3, <2>2, SumWhere
  <2>4. SumFunctionOnSet(f, P \cup C) = SumFunctionOnSet(f, P) + SumFunctionOnSet(f, C)
    BY <1>10, <1>11, <1>12, SumUnion
  <2>5. SumFunctionOnSet(f, P) \in Int /\ SumFunctionOnSet(f, C) \in Int
    BY <1>10, <1>11, <1>12, SumType
  <2> QED  BY <1>10, <1>11, <2>1, <2>3, <2>4, <2>5
<1>14. SumFunctionOnSet(n, deb) = -SumFunctionOnSet(v, deb)
  <2>1. PICK o : o = [l \in Lines |-> 0]
    OBVIOUS
  <2>2. \A l \in deb : v[l] \in Int /\ n[l] \in Int /\ o[l] = v[l] + n[l] /\ o[l] = 0
    BY <1>2, <1>4, <1>8, <2>1
  <2>3. SumFunctionOnSet(o, deb) = SumFunctionOnSet(v, deb) + SumFunctionOnSet(n, deb)
    BY <1>4, <2>2, SumPlus
  <2>4. SumFunctionOnSet(o, deb) = Cardinality(deb) * 0 /\ Cardinality(deb) \in Nat
    BY <1>4, <2>2, SumConstant, FS_CardinalityType
  <2>5. SumFunctionOnSet(v, deb) \in Int /\ SumFunctionOnSet(n, deb) \in Int
    BY <1>4, <2>2, SumType
  <2> QED  BY <2>3, <2>4, <2>5
<1>15. \A l \in Lines : /\ Executed(l, Addr2Shard[Input[l].sender], FALSE) <=> Tx(l, FALSE) \in X
                        /\ Executed(l, Addr2Shard[Input[l].recipient], TRUE) <=> Tx(l, TRUE) \in X
  <2>1. ASSUME NEW tx \in Txs PROVE tx \in X <=> Home(tx) \in Shards /\ tx \in Range(blocks[Home(tx)])
    <3>1. ASSUME NEW s \in Shards, tx \in Range(blocks[s]) PROVE Home(tx) = s
      BY <1>0, <3>1, HeldType DEF Routed
    <3> QED  BY <1>0, <1>1, <3>1, ExecutedType
  <2>2. ASSUME NEW l \in Lines
        PROVE  /\ Executed(l, Addr2Shard[Input[l].sender], FALSE) <=> Tx(l, FALSE) \in X
               /\ Executed(l, Addr2Shard[Input[l].recipient], TRUE) <=> Tx(l, TRUE) \in X
    <3>1. Home(p[l]) = Addr2Shard[Input[l].sender] /\ Home(q[l]) = Addr2Shard[Input[l].recipient]
      BY <1>6 DEF Home
    <3>2. Home(p[l]) \in Shards /\ Home(q[l]) \in Shards
      BY <3>1, InputType
    <3>3. /\ p[l] \in X <=> p[l] \in Range(blocks[Home(p[l])])
          /\ q[l] \in X <=> q[l] \in Range(blocks[Home(q[l])])
      BY <1>6, <2>1, <3>2
    <3> QED  BY <1>6, <3>1, <3>3 DEF Executed
  <2> QED  BY <2>2
<1>16. PICK both : both = deb \cap cre
  OBVIOUS
<1>17. /\ deb = InTransit \cup both /\ InTransit \cap both = {}
       /\ cre = Unbacked \cup both /\ Unbacked \cap both = {}
  <2>1. InTransit = deb \ cre
    BY <1>2, <1>15 DEF InTransit
  <2>2. Unbacked = cre \cap skipped
    BY <1>0, <1>2, <1>15 DEF Unbacked, TypeOK
  <2>3. ASSUME NEW l \in cre, l \notin skipped PROVE l \in deb
    <3>1. l \in Lines /\ Tx(l, TRUE) \in X /\ Tx(l, TRUE).relayed /\ Tx(l, TRUE).line = l
      BY <1>2, <1>6
    <3>2. Tx(l, TRUE) \in Somewhere
      BY <1>0, <1>1, <3>1, ExecutedType, HeldType, SomewhereIs
    <3>3. Cross(l) /\ Executed(l, Addr2Shard[Input[l].sender], FALSE)
      BY <1>0, <3>1, <3>2 DEF RelayedAfter
    <3> QED  BY <1>2, <1>15, <2>3, <3>1, <3>3
  <2>4. deb \cap skipped = {}
    BY <1>2
  <2> QED  BY <1>16, <2>1, <2>2, <2>3, <2>4
<1>18. PICK it, un : it = InTransit /\ un = Unbacked
  OBVIOUS
<1>19. /\ it \cup both = deb /\ un \cup both = cre /\ it \cap both = {} /\ un \cap both = {}
       /\ IsFiniteSet(it) /\ IsFiniteSet(un) /\ IsFiniteSet(both)
       /\ \A l \in deb \cup cre : v[l] \in Int
  <2>1. /\ it \cup both = deb /\ un \cup both = cre /\ it \cap both = {} /\ un \cap both = {}
    BY <1>17, <1>18
  <2>2. it \in SUBSET deb /\ un \in SUBSET cre /\ both \in SUBSET deb
    BY <2>1
  <2>3. IsFiniteSet(it) /\ IsFiniteSet(un) /\ IsFiniteSet(both)
    BY <1>4, <2>2, FS_Subset
  <2> QED  BY <1>2, <1>4, <2>1, <2>3
<1>20. SumFunctionOnSet(v, it \cup both) = SumFunctionOnSet(v, it) + SumFunctionOnSet(v, both)
  BY <1>19, SumUnion
<1>21. SumFunctionOnSet(v, un \cup both) = SumFunctionOnSet(v, un) + SumFunctionOnSet(v, both)
  BY <1>19, SumUnion
<1>22. /\ SumFunctionOnSet(v, it) \in Int /\ SumFunctionOnSet(v, un) \in Int
       /\ SumFunctionOnSet(v, both) \in Int
  BY <1>19, SumType
<1>23. SumFunctionOnSet(v, deb) = SumFunctionOnSet(v, it) + SumFunctionOnSet(v, both)
  BY <1>19, <1>20
<1>24. SumFunctionOnSet(v, cre) = SumFunctionOnSet(v, un) + SumFunctionOnSet(v, both)
  BY <1>19, <1>21
<1>25. SumFunctionOnSet(f, X) = SumFunctionOnSet(v, un) - SumFunctionOnSet(v, it)
  BY <1>13, <1>14, <1>22, <1>23, <1>24
<1> QED  BY <1>1, <1>18, <1>22, <1>25

-----------------------------------------------------------------------------
(***************************************************************************)
(* The theorems.                                                           *)
(***************************************************************************)

\* IInv holds in every reachable state.
THEOREM RelayInductive == Spec => []IInv
<1>1. Init => IInv
  BY PlacedInit, ValueInit DEF IInv
<1>2. IInv /\ [Next]_vars => IInv'
  <2>1. SUFFICES ASSUME IInv, [Next]_vars PROVE IInv'
    OBVIOUS
  <2>2. TypeOK /\ Placed /\ Proposed /\ OwnBalances /\ SkippedExecuted /\ Balanced
    BY <2>1 DEF IInv, Placed
  <2>3. Placed'
    BY <2>1, <2>2, PlacedStep
  <2>4. Proposed' /\ OwnBalances'
    BY <2>1, <2>2, ProposedStep, OwnBalancesStep
  <2>5. SkippedExecuted'
    BY <2>1, <2>2, SkippedStep
  <2>6. Balanced'
    BY <2>1, <2>2, <2>3, BalancedStep
  <2> QED  BY <2>3, <2>4, <2>5, <2>6 DEF IInv
<1> QED  BY <1>1, <1>2, PTL DEF Spec

\* Each transaction is executed at most once by the sender's shard and at most once by
\* the recipient's, whatever HandleinCommit, handleRelay and losses interleave to.
THEOREM RelayExactlyOnce == Spec => []ExactlyOnce
<1>1. IInv => ExactlyOnce
  BY DEF IInv, Placed, RelayedAfter, ExactlyOnce
<1> QED  BY <1>1, RelayInductive, PTL

\* Pools hold only what GetUpdateStatusTrie executes in their shard; it changes only the
\* accounts of the shard and overdraws none.
THEOREM RelayWellRouted == Spec => []WellRouted
<1>1. IInv => WellRouted
  <2>1. SUFFICES ASSUME IInv PROVE WellRouted
    OBVIOUS
  <2>2. TypeOK /\ Routed /\ OwnBalances
    BY <2>1 DEF IInv, Placed
  <2>3. ASSUME NEW s \in Shards, NEW i \in DOMAIN pool[s] PROVE Home(pool[s][i]) = s
    <3>1. pool[s][i] \in Range(pool[s])
      BY DEF Range
    <3>2. Range(pool[s]) \subseteq Range(Held(s))
      BY <2>2, HeldType
    <3> QED  BY <2>2, <3>1, <3>2 DEF Routed
  <2> QED  BY <2>2, <2>3 DEF WellRouted, OwnBalances, Sound, Home
<1> QED  BY <1>1, RelayInductive, PTL

\* The value of all shards is the initial one, less what is in transit, and what the
\* credits of skipped debits create: for every input, every order of blocks and
\* relays and all losses.
THEOREM RelayValueAccounted == Spec => []ValueAccounted
<1>1. IInv => ValueAccounted
  <2>1. SUFFICES ASSUME IInv PROVE ValueAccounted
    OBVIOUS
  <2>2. Placed /\ SkippedExecuted /\ Balanced
    BY <2>1 DEF IInv
  <2>3. PICK z \in Int : z = Cardinality(Accounts) * Init_Balance
    <3>1. Cardinality(Accounts) \in Nat /\ Init_Balance \in Nat
      BY RelayAssumption, FS_CardinalityType
    <3> QED  BY <3>1
  <2>4. PICK un \in Int, it \in Int :
          un = SumFunctionOnSet(Values, Unbacked) /\ it = SumFunctionOnSet(Values, InTransit)
    BY <2>2, DriftSplit
  <2>5. SumFunctionOnSet(Owned, Accounts) = z + (un - it)
    BY <2>2, <2>3, <2>4, DriftSplit DEF Balanced
  <2>6. SumFunctionOnSet(Owned, Accounts) + it = z + un
    BY <2>5
  <2> QED  BY <2>3, <2>4, <2>6 DEF ValueAccounted, Owned
<1> QED  BY <1>1, RelayInductive, PTL
=============================================================================
