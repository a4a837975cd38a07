--------------------------- MODULE UtxoRelayProofs ---------------------------
(***************************************************************************)
(* Proofs about UtxoRelay, for every input file, block size and order of   *)
(* the outputs in an account: no output is spent twice, every input is an  *)
(* earlier output of the same chain, and value comes only from coinbases.  *)
(*                                                                         *)
(* Each shard is a history of transactions, a status trie and a counter.   *)
(* Good says what holds of the three; only TxTransform changes them, and   *)
(* CoinbaseGood and SpendGood are its two elementary steps.                *)
(***************************************************************************)
EXTENDS UtxoRelay, LedgerTheorems

OutputRecords == [to : Accounts, value : Nat]
Unspent == [tx : Nat, index : Nat, value : Nat]
Transactions == [id : Nat, line : Nat, vin : SUBSET Unspent, vout : Seq(OutputRecords)]
AccountStates == [known : BOOLEAN, balance : Int, utxos : SUBSET Unspent]

\* o is an output of a transaction in the history h, made out to a.
OutputOf(h, a, o) ==
  /\ o.tx \in 1..Len(h) /\ o.index \in 1..Len(h[o.tx].vout) /\ o.index \in 1..2
  /\ h[o.tx].vout[o.index] = [to |-> a, value |-> o.value]

\* The transactions of a history are numbered in their order and have outputs.
Numbered(h, m) ==
  /\ h \in Seq(Transactions) /\ m \in Nat /\ Len(h) = m
  /\ \A i \in 1..m : h[i].id = i /\ Len(h[i].vout) >= 1

\* A transaction that may follow a history of length m.
NextTx(tx, m) == tx \in Transactions /\ tx.id = m + 1 /\ Len(tx.vout) >= 1

\* g is the history h followed by tx.
Follow(g, h, tx, m) == Numbered(g, m + 1) /\ g[m + 1] = tx /\ \A i \in 1..m : g[i] = h[i]

\* The account states hold outputs of the history that are not spent.
Holds(h, tr, m) ==
  /\ tr \in [Accounts -> AccountStates]
  /\ \A a \in Accounts :
       /\ IsFiniteSet(tr[a].utxos)
       /\ tr[a].balance = Sum(tr[a].utxos)
       /\ tr[a].utxos # {} => tr[a].known
       /\ \A o \in tr[a].utxos : OutputOf(h, a, o)
       /\ \A i \in 1..m : h[i].vin \cap tr[a].utxos = {}

\* Inputs are earlier outputs of the sender, each spent once.
Spends(h, m) ==
  \A i \in 1..m :
    /\ \A o \in h[i].vin : o.tx < i /\ OutputOf(h, Input[h[i].line].sender, o)
    /\ \A j \in 1..m : i # j => h[i].vin \cap h[j].vin = {}

\* The value of all accounts is that of the coinbases.
Coinbases(h, m) == {i \in 1..m : IsCoinbase(h[i])}
Issued(h, m) == [i \in 1..m |-> h[i].vout[1].value]
Wealth(tr) == [a \in Accounts |-> tr[a].balance]
FromCoinbase(h, tr, m) ==
  SumFunctionOnSet(Wealth(tr), Accounts) = SumFunctionOnSet(Issued(h, m), Coinbases(h, m))

Good(h, tr, m) == Numbered(h, m) /\ Holds(h, tr, m) /\ Spends(h, m) /\ FromCoinbase(h, tr, m)

-----------------------------------------------------------------------------
(***************************************************************************)
(* Sums of outputs.                                                        *)
(***************************************************************************)

\* The value of disjoint sets of outputs adds up.
LEMMA UtxoSum ==
  ASSUME NEW U \in SUBSET Unspent, NEW V \in SUBSET Unspent,
         IsFiniteSet(U), IsFiniteSet(V), U \cap V = {}
  PROVE  /\ Sum(U) \in Int /\ Sum(V) \in Int
         /\ Sum(U \cup V) = Sum(U) + Sum(V)
<1>1. PICK W : W = U \cup V
  OBVIOUS
<1>2. PICK f, g, k : /\ f = [u \in U |-> u.value] /\ g = [u \in V |-> u.value]
                     /\ k = [u \in W |-> u.value]
  OBVIOUS
<1>3. /\ \A u \in U : f[u] \in Int /\ k[u] \in Int /\ k[u] = f[u]
      /\ \A u \in V : g[u] \in Int /\ k[u] \in Int /\ k[u] = g[u]
  BY <1>1, <1>2 DEF Unspent
<1>4. SumFunctionOnSet(k, U) = SumFunctionOnSet(f, U) /\ SumFunctionOnSet(k, V) = SumFunctionOnSet(g, V)
  BY <1>3, SumSame
<1>5. SumFunctionOnSet(k, U \cup V) = SumFunctionOnSet(k, U) + SumFunctionOnSet(k, V)
  BY <1>3, SumUnion
<1>6. SumFunctionOnSet(f, U) \in Int /\ SumFunctionOnSet(g, V) \in Int
  BY <1>3, SumType
<1>7. Sum(U) = SumFunctionOnSet(f, U) /\ Sum(V) = SumFunctionOnSet(g, V) /\ Sum(W) = SumFunctionOnSet(k, W)
  BY <1>2 DEF Sum
<1>8. SumFunctionOnSet(k, W) = SumFunctionOnSet(k, U \cup V) /\ Sum(U \cup V) = Sum(W)
  BY <1>1
<1> QED  BY <1>4, <1>5, <1>6, <1>7, <1>8

\* The value of no output and of one output.
LEMMA UtxoSumSmall ==
  ASSUME NEW o \in Unspent
  PROVE  Sum({}) = 0 /\ Sum({o}) = o.value /\ IsFiniteSet({o}) /\ IsFiniteSet({})
<1>1. PICK f, g, e, s : /\ f = [u \in {o} |-> u.value] /\ g = [u \in e |-> u.value]
                        /\ e = {} /\ s = {o}
  OBVIOUS
<1>2. /\ IsFiniteSet(e) /\ \A u \in e : g[u] \in Int /\ f[u] \in Int
  BY <1>1, FS_EmptySet
<1>3. f[o] = o.value /\ f[o] \in Int /\ o \notin e
  BY <1>1 DEF Unspent
<1>4. SumFunctionOnSet(g, e) = 0 /\ SumFunctionOnSet(f, e) = 0
  BY <1>1, <1>2, SumType
<1>5. SumFunctionOnSet(f, e \cup {o}) = SumFunctionOnSet(f, e) + f[o]
  BY <1>2, <1>3, SumAdd
<1>6. e \cup {o} = s
  BY <1>1
<1>7. SumFunctionOnSet(f, s) = o.value
  BY <1>3, <1>4, <1>5, <1>6
<1>8. Sum(e) = 0 /\ Sum(s) = o.value
  BY <1>1, <1>4, <1>7 DEF Sum
<1> QED  BY <1>1, <1>8, FS_EmptySet, FS_Singleton

-----------------------------------------------------------------------------
(***************************************************************************)
(* A transaction joins the history.                                        *)
(***************************************************************************)

\* What was an output stays one.
LEMMA OutputStays ==
  ASSUME NEW h, NEW m \in Nat, Numbered(h, m), NEW tx, NextTx(tx, m), NEW a, NEW o, OutputOf(h, a, o)
  PROVE  OutputOf(Append(h, tx), a, o)
<1>1. /\ h \in Seq(Transactions) /\ Len(h) \in Nat
      /\ o.tx \in 1..Len(h)
  BY DEF Numbered, OutputOf
<1>2. tx \in Transactions
  BY DEF NextTx
<1>3. Len(Append(h, tx)) = Len(h) + 1 /\ Append(h, tx)[o.tx] = h[o.tx] /\ o.tx \in 1..(Len(h) + 1)
  BY <1>1, <1>2, AppendProperties
<1> QED  BY <1>3 DEF OutputOf

\* The history with one more transaction.
LEMMA NumberedAppend ==
  ASSUME NEW h, NEW m \in Nat, Numbered(h, m), NEW tx, NextTx(tx, m)
  PROVE  Follow(Append(h, tx), h, tx, m)
<1>1. /\ h \in Seq(Transactions) /\ m \in Nat /\ Len(h) = m
      /\ tx \in Transactions /\ tx.id = m + 1 /\ Len(tx.vout) >= 1
  BY DEF Numbered, NextTx
<1>2. /\ Append(h, tx) \in Seq(Transactions) /\ Len(Append(h, tx)) = m + 1
      /\ Append(h, tx)[m + 1] = tx
      /\ \A i \in 1..m : Append(h, tx)[i] = h[i]
  BY <1>1, AppendProperties
<1>3. 1..(m + 1) = (1..m) \cup {m + 1} /\ m + 1 \notin 1..m /\ m + 1 \in Nat
  BY <1>1
<1>4. \A i \in 1..(m + 1) : Append(h, tx)[i].id = i /\ Len(Append(h, tx)[i].vout) >= 1
  <2>1. \A i \in 1..m : Append(h, tx)[i].id = i /\ Len(Append(h, tx)[i].vout) >= 1
    BY <1>2 DEF Numbered
  <2>2. Append(h, tx)[m + 1].id = m + 1 /\ Len(Append(h, tx)[m + 1].vout) >= 1
    BY <1>1, <1>2
  <2> QED  BY <1>3, <2>1, <2>2
<1> QED  BY <1>1, <1>2, <1>3, <1>4 DEF Numbered, Follow

\* A transaction with outputs of the sender that are not spent yet keeps Spends.
LEMMA SpendsAppend ==
  ASSUME NEW h, NEW m \in Nat, Numbered(h, m), Spends(h, m),
         NEW tx, NextTx(tx, m),
         \A o \in tx.vin : OutputOf(h, Input[tx.line].sender, o),
         \A i \in 1..m : h[i].vin \cap tx.vin = {}
  PROVE  Spends(Append(h, tx), m + 1)
<1>1. PICK g : g = Append(h, tx)
  OBVIOUS
<1>2. /\ g[m + 1] = tx /\ \A i \in 1..m : g[i] = h[i]
      /\ m \in Nat /\ 1..(m + 1) = (1..m) \cup {m + 1} /\ m + 1 \notin 1..m
  <2>1. Follow(g, h, tx, m)
    BY <1>1, NumberedAppend
  <2>2. 1..(m + 1) = (1..m) \cup {m + 1} /\ m + 1 \notin 1..m
    OBVIOUS
  <2> QED  BY <2>1, <2>2 DEF Follow
<1>3. \A a, o : OutputOf(h, a, o) => OutputOf(g, a, o)
  BY <1>1, OutputStays
<1>4. \A i \in 1..m : \A o \in g[i].vin : o.tx < i /\ OutputOf(g, Input[g[i].line].sender, o)
  BY <1>2, <1>3 DEF Spends
<1>5. \A o \in g[m + 1].vin : o.tx < m + 1 /\ OutputOf(g, Input[g[m + 1].line].sender, o)
  <2>1. SUFFICES ASSUME NEW o \in tx.vin
                 PROVE  o.tx < m + 1 /\ OutputOf(g, Input[tx.line].sender, o)
    BY <1>2
  <2>2. OutputOf(h, Input[tx.line].sender, o)
    OBVIOUS
  <2>3. o.tx \in 1..Len(h) /\ Len(h) = m
    BY <2>2 DEF OutputOf, Numbered
  <2> QED  BY <1>2, <1>3, <2>2, <2>3
<1>6. \A i, j \in 1..m : i # j => g[i].vin \cap g[j].vin = {}
  BY <1>2 DEF Spends
<1>7. \A i \in 1..m : g[i].vin \cap g[m + 1].vin = {}
  BY <1>2
<1>8. ASSUME NEW i \in 1..(m + 1)
      PROVE  /\ \A o \in g[i].vin : o.tx < i /\ OutputOf(g, Input[g[i].line].sender, o)
             /\ \A j \in 1..(m + 1) : i # j => g[i].vin \cap g[j].vin = {}
  <2>1. \A o \in g[i].vin : o.tx < i /\ OutputOf(g, Input[g[i].line].sender, o)
    BY <1>2, <1>4, <1>5
  <2>2. ASSUME NEW j \in 1..(m + 1), i # j PROVE g[i].vin \cap g[j].vin = {}
    <3>1. CASE i \in 1..m /\ j \in 1..m
      BY <1>6, <2>2, <3>1
    <3>2. CASE i = m + 1 /\ j \in 1..m
      BY <1>7, <3>2
    <3>3. CASE i \in 1..m /\ j = m + 1
      BY <1>7, <3>3
    <3> QED  BY <1>2, <2>2, <3>1, <3>2, <3>3
  <2> QED  BY <2>1, <2>2
<1> QED  BY <1>1, <1>8 DEF Spends

\* What a history issues, with one more transaction.
LEMMA IssuedAppend ==
  ASSUME NEW h, NEW m \in Nat, Numbered(h, m), NEW tx, NextTx(tx, m)
  PROVE  /\ SumFunctionOnSet(Issued(h, m), Coinbases(h, m)) \in Int
         /\ tx.vout[1].value \in Nat
         /\ SumFunctionOnSet(Issued(Append(h, tx), m + 1), Coinbases(Append(h, tx), m + 1))
              = SumFunctionOnSet(Issued(h, m), Coinbases(h, m))
                + (IF IsCoinbase(tx) THEN tx.vout[1].value ELSE 0)
<1>1. PICK g, n : g = Append(h, tx) /\ n = m + 1
  OBVIOUS
<1>2. /\ g[n] = tx /\ \A i \in 1..m : g[i] = h[i]
      /\ m \in Nat /\ 1..n = (1..m) \cup {n} /\ n \notin 1..m
      /\ Numbered(g, n)
  <2>1. Follow(g, h, tx, m)
    BY <1>1, NumberedAppend
  <2>2. 1..(m + 1) = (1..m) \cup {m + 1} /\ m + 1 \notin 1..m
    OBVIOUS
  <2> QED  BY <1>1, <2>1, <2>2 DEF Follow
<1>3. PICK C, D, f, k : /\ C = Coinbases(h, m) /\ D = Coinbases(g, n)
                        /\ f = Issued(h, m) /\ k = Issued(g, n)
  OBVIOUS
<1>4. \A u \in Transactions : Len(u.vout) >= 1 => u.vout[1].value \in Nat
  <2>1. SUFFICES ASSUME NEW u \in Transactions, Len(u.vout) >= 1 PROVE u.vout[1].value \in Nat
    OBVIOUS
  <2>2. PICK q \in Seq(OutputRecords) : q = u.vout
    BY DEF Transactions
  <2>3. q[1] \in OutputRecords
    BY <2>1, <2>2
  <2> QED  BY <2>2, <2>3 DEF OutputRecords
<1>5. \A i \in 1..m : h[i] \in Transactions /\ f[i] = h[i].vout[1].value /\ f[i] \in Int /\ k[i] = f[i]
  <2>1. \A i \in 1..m : h[i] \in Transactions /\ Len(h[i].vout) >= 1
    BY <1>2 DEF Numbered
  <2>2. \A i \in 1..m : f[i] = h[i].vout[1].value /\ k[i] = g[i].vout[1].value
    BY <1>2, <1>3 DEF Issued
  <2> QED  BY <1>2, <1>4, <2>1, <2>2
<1>6. k[n] = tx.vout[1].value /\ tx.vout[1].value \in Nat
  BY <1>2, <1>3, <1>4 DEF Issued, NextTx
<1>7. C \in SUBSET (1..m) /\ IsFiniteSet(C)
  <2>1. C \in SUBSET (1..m) /\ IsFiniteSet(1..m)
    BY <1>2, <1>3, FS_Interval DEF Coinbases
  <2> QED  BY <2>1, FS_Subset
<1>8. D = IF IsCoinbase(tx) THEN C \cup {n} ELSE C
  BY <1>2, <1>3 DEF Coinbases
<1>9. SumFunctionOnSet(k, C) = SumFunctionOnSet(f, C) /\ SumFunctionOnSet(f, C) \in Int
  BY <1>5, <1>7, SumSame, SumType
<1>10. SumFunctionOnSet(k, C \cup {n}) = SumFunctionOnSet(k, C) + k[n]
  <2>1. n \notin C /\ k[n] \in Int /\ \A i \in C : k[i] \in Int
    BY <1>2, <1>5, <1>6, <1>7
  <2> QED  BY <1>7, <2>1, SumAdd
<1>11. SumFunctionOnSet(k, D) = SumFunctionOnSet(f, C) + (IF IsCoinbase(tx) THEN tx.vout[1].value ELSE 0)
  BY <1>6, <1>8, <1>9, <1>10
<1> QED  BY <1>1, <1>3, <1>6, <1>9, <1>11

-----------------------------------------------------------------------------
(***************************************************************************)
(* One transaction and the account states after it.                        *)
(***************************************************************************)

\* The inputs of tx are outputs of its sender that no transaction of h spends.
Pays(h, tx, m) ==
  /\ \A o \in tx.vin : OutputOf(h, Input[tx.line].sender, o)
  /\ \A i \in 1..m : h[i].vin \cap tx.vin = {}

\* The state of account a before and after tx.
Renewed(old, new, tx, a) ==
  /\ new.utxos = (old.utxos \ tx.vin) \cup NewOutputs(tx, a)
  /\ new.balance = old.balance - Sum(old.utxos \cap tx.vin) + Sum(NewOutputs(tx, a))
  /\ new.utxos # {} => new.known

\* The outputs of a transaction to an account.
LEMMA NewOutputsType ==
  ASSUME NEW m \in Nat, NEW tx, NextTx(tx, m), Len(tx.vout) <= 2, NEW a
  PROVE  /\ NewOutputs(tx, a) \in SUBSET Unspent /\ IsFiniteSet(NewOutputs(tx, a))
         /\ \A o \in NewOutputs(tx, a) :
              /\ o.tx = m + 1 /\ o.index \in 1..Len(tx.vout) /\ o.index \in 1..2
              /\ tx.vout[o.index].to = a /\ tx.vout[o.index].value = o.value
<1>1. PICK q \in Seq(OutputRecords) : q = tx.vout
  BY DEF NextTx, Transactions
<1>2. PICK n \in Nat : n = Len(q) /\ n >= 1 /\ n <= 2 /\ DOMAIN q = 1..n
  BY <1>1, LenProperties DEF NextTx
<1>3. \A i \in 1..n : q[i] \in OutputRecords /\ q[i].value \in Nat
  <2>1. \A i \in 1..n : q[i] \in OutputRecords
    BY <1>2, ElementOfSeq
  <2> QED  BY <2>1 DEF OutputRecords
<1>4. PICK f : f = [i \in 1..n |-> [tx |-> m + 1, index |-> i, value |-> q[i].value]]
  OBVIOUS
<1>5. PICK J : J = {j \in 1..n : q[j].to = a}
  OBVIOUS
<1>6. NewOutputs(tx, a) = {f[i] : i \in J}
  BY <1>1, <1>2, <1>4, <1>5 DEF NewOutputs, NextTx
<1>7. IsFiniteSet(J)
  <2>1. IsFiniteSet(1..n)
    BY FS_Interval
  <2>2. J \in SUBSET (1..n)
    BY <1>5
  <2> QED  BY <2>1, <2>2, FS_Subset
<1>8. IsFiniteSet({f[i] : i \in J})
  BY <1>7, FiniteImage
<1>9. \A i \in J : /\ f[i] \in Unspent /\ f[i].tx = m + 1 /\ f[i].index = i /\ i \in 1..2
                   /\ i \in 1..n /\ q[i].to = a /\ q[i].value = f[i].value
  BY <1>2, <1>3, <1>4, <1>5 DEF Unspent
<1> QED  BY <1>1, <1>2, <1>6, <1>8, <1>9

\* Two accounts have no output in common.
LEMMA OneOwner ==
  ASSUME NEW h, NEW a, NEW b, NEW o, OutputOf(h, a, o), OutputOf(h, b, o)
  PROVE  a = b
BY DEF OutputOf

\* The account states after a transaction hold outputs that are not spent.
LEMMA HoldsAppend ==
  ASSUME NEW h, NEW m \in Nat, Numbered(h, m), Spends(h, m), NEW tr, Holds(h, tr, m),
         NEW tx, NextTx(tx, m), Len(tx.vout) <= 2, Pays(h, tx, m),
         NEW tr2 \in [Accounts -> AccountStates],
         \A a \in Accounts : Renewed(tr[a], tr2[a], tx, a)
  PROVE  Holds(Append(h, tx), tr2, m + 1)
<1>1. PICK g : g = Append(h, tx)
  OBVIOUS
<1>2. Follow(g, h, tx, m)
  BY <1>1, NumberedAppend
<1>3. /\ g[m + 1] = tx /\ \A i \in 1..m : g[i] = h[i]
      /\ Len(g) = m + 1 /\ Len(h) = m
      /\ 1..(m + 1) = (1..m) \cup {m + 1}
  <2>1. 1..(m + 1) = (1..m) \cup {m + 1}
    OBVIOUS
  <2> QED  BY <1>2, <2>1 DEF Follow, Numbered
<1>4. \A a, o : OutputOf(h, a, o) => OutputOf(g, a, o) /\ o.tx # m + 1
  <2>1. \A a, o : OutputOf(h, a, o) => OutputOf(g, a, o)
    BY <1>1, OutputStays
  <2>2. \A a, o : OutputOf(h, a, o) => o.tx # m + 1
    BY <1>3 DEF OutputOf
  <2> QED  BY <2>1, <2>2
<1>5. ASSUME NEW a \in Accounts
      PROVE  /\ IsFiniteSet(tr2[a].utxos)
             /\ tr2[a].balance = Sum(tr2[a].utxos)
             /\ tr2[a].utxos # {} => tr2[a].known
             /\ \A o \in tr2[a].utxos : OutputOf(g, a, o)
             /\ \A i \in 1..(m + 1) : g[i].vin \cap tr2[a].utxos = {}
  <2>1. PICK U, N, V, I : /\ U = tr[a].utxos /\ N = NewOutputs(tx, a)
                       /\ V = U \ tx.vin /\ I = U \cap tx.vin
    OBVIOUS
  <2>2. /\ tr2[a].utxos = V \cup N
        /\ tr2[a].balance = tr[a].balance - Sum(I) + Sum(N)
        /\ tr2[a].utxos # {} => tr2[a].known
    BY <2>1 DEF Renewed
  <2>3. /\ U \in SUBSET Unspent /\ IsFiniteSet(U) /\ tr[a].balance = Sum(U)
        /\ \A o \in U : OutputOf(h, a, o)
        /\ \A i \in 1..m : h[i].vin \cap U = {}
    BY <2>1 DEF Holds, AccountStates
  <2>4. /\ N \in SUBSET Unspent /\ IsFiniteSet(N)
        /\ \A o \in N :
              /\ o.tx = m + 1 /\ o.index \in 1..Len(tx.vout) /\ o.index \in 1..2
              /\ tx.vout[o.index].to = a /\ tx.vout[o.index].value = o.value
    BY <2>1, NewOutputsType
  <2>5. /\ V \in SUBSET Unspent /\ I \in SUBSET Unspent /\ IsFiniteSet(V) /\ IsFiniteSet(I)
        /\ V \cup I = U /\ V \cap I = {}
    <3>1. V \in SUBSET U /\ I \in SUBSET U /\ V \cup I = U /\ V \cap I = {}
      BY <2>1
    <3>2. IsFiniteSet(V) /\ IsFiniteSet(I)
      BY <2>3, <3>1, FS_Subset
    <3> QED  BY <2>3, <3>1, <3>2
  <2>6. \A o \in V : OutputOf(h, a, o) /\ o.tx # m + 1
    BY <1>4, <2>1, <2>3
  <2>7. V \cap N = {}
    BY <2>4, <2>6
  <2>8. IsFiniteSet(V \cup N)
    BY <2>4, <2>5, FS_Union
  <2>9. tr2[a].balance = Sum(tr2[a].utxos)
    <3>1. Sum(V) \in Int /\ Sum(I) \in Int /\ Sum(V \cup I) = Sum(V) + Sum(I)
      BY <2>5, UtxoSum
    <3>2. Sum(N) \in Int /\ Sum(V \cup N) = Sum(V) + Sum(N)
      BY <2>4, <2>5, <2>7, UtxoSum
    <3>3. Sum(V \cup I) = Sum(U) /\ Sum(V \cup N) = Sum(tr2[a].utxos)
      BY <2>2, <2>5
    <3> QED  BY <2>2, <2>3, <3>1, <3>2, <3>3
  <2>10. \A o \in N : OutputOf(g, a, o)
    <3>1. SUFFICES ASSUME NEW o \in N PROVE OutputOf(g, a, o)
      OBVIOUS
    <3>2. tx.vout[o.index] \in OutputRecords
      <4>1. PICK q \in Seq(OutputRecords) : q = tx.vout
        BY DEF NextTx, Transactions
      <4> QED  BY <2>4, <4>1, ElementOfSeq
    <3>3. tx.vout[o.index] = [to |-> a, value |-> o.value]
      BY <2>4, <3>2 DEF OutputRecords
    <3> QED  BY <1>3, <2>4, <3>3 DEF OutputOf
  <2>11. \A i \in 1..m : h[i].vin \cap (V \cup N) = {}
    <3>1. \A i \in 1..m : h[i].vin \cap V = {}
      BY <2>1, <2>3
    <3>2. \A i \in 1..m : \A o \in h[i].vin : o.tx # m + 1
      BY <1>4 DEF Spends
    <3> QED  BY <2>4, <3>1, <3>2
  <2>12. tx.vin \cap (V \cup N) = {}
    <3>1. \A o \in tx.vin : o.tx # m + 1
      BY <1>4 DEF Pays
    <3> QED  BY <2>1, <2>4, <3>1
  <2>13. \A i \in 1..(m + 1) : g[i].vin \cap (V \cup N) = {}
    BY <1>3, <2>11, <2>12
  <2> QED  BY <1>4, <2>2, <2>6, <2>8, <2>9, <2>10, <2>13
<1> QED  BY <1>1, <1>5 DEF Holds

\* A transaction with earlier outputs, the account states after it and a matching
\* change of the value of all accounts keep a history good.
LEMMA StepGood ==
  ASSUME NEW h, NEW m \in Nat, NEW tr, Good(h, tr, m),
         NEW tx, NextTx(tx, m), Len(tx.vout) <= 2, Pays(h, tx, m),
         NEW tr2 \in [Accounts -> AccountStates],
         \A a \in Accounts : Renewed(tr[a], tr2[a], tx, a),
         SumFunctionOnSet(Wealth(tr2), Accounts)
           = SumFunctionOnSet(Wealth(tr), Accounts) + (IF IsCoinbase(tx) THEN tx.vout[1].value ELSE 0)
  PROVE  Good(Append(h, tx), tr2, m + 1)
<1>1. Numbered(h, m) /\ Holds(h, tr, m) /\ Spends(h, m) /\ FromCoinbase(h, tr, m)
  BY DEF Good
<1>2. Numbered(Append(h, tx), m + 1)
  <2>1. Follow(Append(h, tx), h, tx, m)
    BY <1>1, NumberedAppend
  <2> QED  BY <2>1 DEF Follow
<1>3. Holds(Append(h, tx), tr2, m + 1)
  BY <1>1, HoldsAppend
<1>4. Spends(Append(h, tx), m + 1)
  <2>1. /\ \A o \in tx.vin : OutputOf(h, Input[tx.line].sender, o)
        /\ \A i \in 1..m : h[i].vin \cap tx.vin = {}
    BY DEF Pays
  <2> QED  BY <1>1, <2>1, SpendsAppend
<1>5. FromCoinbase(Append(h, tx), tr2, m + 1)
  <2>1. SumFunctionOnSet(Issued(Append(h, tx), m + 1), Coinbases(Append(h, tx), m + 1))
          = SumFunctionOnSet(Issued(h, m), Coinbases(h, m))
            + (IF IsCoinbase(tx) THEN tx.vout[1].value ELSE 0)
    BY <1>1, IssuedAppend
  <2> QED  BY <1>1, <2>1 DEF FromCoinbase
<1> QED  BY <1>2, <1>3, <1>4, <1>5 DEF Good

\* An account with a coinbase output.
Funded(state, o) ==
  [known |-> TRUE, balance |-> state.balance + o.value, utxos |-> state.utxos \cup {o}]

\* A coinbase transaction and its output in the account keep a history good.
LEMMA CoinbaseGood ==
  ASSUME NEW h, NEW m \in Nat, NEW tr, Good(h, tr, m), NEW a \in Accounts, NEW v \in Nat,
         NEW o, o = [tx |-> m + 1, index |-> 1, value |-> v]
  PROVE  Good(Append(h, NewCoinbaseTX(m + 1, a, v)), [tr EXCEPT ![a] = Funded(@, o)], m + 1)
<1>1. PICK tx, tr2 : tx = NewCoinbaseTX(m + 1, a, v) /\ tr2 = [tr EXCEPT ![a] = Funded(@, o)]
  OBVIOUS
<1>2. /\ tx.id = m + 1 /\ tx.line = 0 /\ tx.vin = {} /\ tx.vout = <<[to |-> a, value |-> v]>>
      /\ tx.vout[1] = [to |-> a, value |-> v] /\ Len(tx.vout) = 1 /\ DOMAIN tx.vout = {1}
      /\ IsCoinbase(tx) /\ tx.vout[1].value = v
  BY <1>1 DEF NewCoinbaseTX, IsCoinbase
<1>3. NextTx(tx, m) /\ Len(tx.vout) <= 2 /\ Pays(h, tx, m)
  <2>1. [to |-> a, value |-> v] \in OutputRecords
    BY DEF OutputRecords
  <2>2. <<[to |-> a, value |-> v]>> \in Seq(OutputRecords)
    BY <2>1
  <2>3. tx \in Transactions
    BY <1>1, <2>2 DEF Transactions, NewCoinbaseTX
  <2> QED  BY <1>2, <2>3 DEF NextTx, Pays
<1>4. o \in Unspent /\ o.value = v
  BY DEF Unspent
<1>5. Sum({}) = 0 /\ Sum({o}) = v
  BY <1>4, UtxoSumSmall
<1>6. \A b \in Accounts : NewOutputs(tx, b) = IF b = a THEN {o} ELSE {}
  BY <1>2 DEF NewOutputs
<1>7. /\ tr \in [Accounts -> AccountStates]
      /\ \A b \in Accounts : tr[b].balance \in Int /\ tr[b].utxos \in SUBSET Unspent
                             /\ (tr[b].utxos # {} => tr[b].known)
  BY DEF Good, Holds, AccountStates
<1>8. Funded(tr[a], o) \in AccountStates
  BY <1>4, <1>7 DEF Funded, AccountStates
<1>9. /\ tr2 \in [Accounts -> AccountStates] /\ tr2[a] = Funded(tr[a], o)
      /\ \A b \in Accounts \ {a} : tr2[b] = tr[b]
  BY <1>1, <1>7, <1>8
<1>10. \A b \in Accounts : Renewed(tr[b], tr2[b], tx, b)
  <2>1. Renewed(tr[a], tr2[a], tx, a)
    <3>1. /\ tr2[a].known /\ tr2[a].balance = tr[a].balance + v
          /\ tr2[a].utxos = tr[a].utxos \cup {o}
      BY <1>4, <1>9 DEF Funded
    <3>2. tr[a].utxos \cap tx.vin = {} /\ tr[a].utxos \ tx.vin = tr[a].utxos
      BY <1>2
    <3>3. NewOutputs(tx, a) = {o}
      BY <1>6
    <3>4. Sum(tr[a].utxos \cap tx.vin) = 0 /\ Sum(NewOutputs(tx, a)) = v
      BY <1>5, <3>2, <3>3
    <3>5. tr2[a].balance = tr[a].balance - Sum(tr[a].utxos \cap tx.vin) + Sum(NewOutputs(tx, a))
      BY <1>7, <3>1, <3>4
    <3> QED  BY <3>1, <3>2, <3>3, <3>5 DEF Renewed
  <2>2. ASSUME NEW b \in Accounts \ {a} PROVE Renewed(tr[b], tr2[b], tx, b)
    <3>1. tr[b].utxos \cap tx.vin = {} /\ tr[b].utxos \ tx.vin = tr[b].utxos /\ NewOutputs(tx, b) = {}
      BY <1>2, <1>6
    <3>2. Sum(tr[b].utxos \cap tx.vin) = 0 /\ Sum(NewOutputs(tx, b)) = 0
      BY <1>5, <3>1
    <3>3. tr2[b].balance = tr[b].balance - Sum(tr[b].utxos \cap tx.vin) + Sum(NewOutputs(tx, b))
      BY <1>7, <1>9, <3>2
    <3> QED  BY <1>7, <1>9, <3>1, <3>3 DEF Renewed
  <2> QED  BY <2>1, <2>2
<1>11. SumFunctionOnSet(Wealth(tr2), Accounts) = SumFunctionOnSet(Wealth(tr), Accounts) + v
  <2>1. PICK f, g : f = Wealth(tr) /\ g = Wealth(tr2)
    OBVIOUS
  <2>2. /\ \A b \in Accounts : f[b] \in Int /\ g[b] \in Int
        /\ \A b \in Accounts \ {a} : g[b] = f[b]
        /\ g[a] = f[a] + v
    <3>1. \A b \in Accounts : f[b] = tr[b].balance /\ g[b] = tr2[b].balance
      BY <2>1 DEF Wealth
    <3>2. tr2[a].balance = tr[a].balance + v
      BY <1>4, <1>9 DEF Funded
    <3>3. \A b \in Accounts : tr2[b].balance \in Int
      BY <1>9 DEF AccountStates
    <3> QED  BY <1>7, <1>9, <3>1, <3>2, <3>3
  <2>3. SumFunctionOnSet(g, Accounts) = SumFunctionOnSet(f, Accounts) - f[a] + g[a]
    BY <2>2, SumChange, UtxoAssumption
  <2>4. SumFunctionOnSet(f, Accounts) \in Int
    BY <2>2, SumType, UtxoAssumption
  <2> QED  BY <2>1, <2>2, <2>3, <2>4
<1>12. Good(Append(h, tx), tr2, m + 1)
  BY <1>2, <1>3, <1>9, <1>10, <1>11, StepGood
<1> QED  BY <1>1, <1>12

\* What a line of the input file says.
LEMMA LineType ==
  /\ Lines = 1..Len(Input) /\ Len(Input) \in Nat
  /\ \A l \in Lines : /\ Input[l].sender \in Accounts /\ Input[l].recipient \in Accounts
                      /\ Input[l].value \in Nat /\ Input[l].sender # Input[l].recipient
                      /\ Addr2Shard[Input[l].sender] \in Shards
<1>1. Lines = 1..Len(Input) /\ Len(Input) \in Nat
  BY UtxoAssumption, LenProperties DEF Lines
<1>2. \A l \in Lines : Input[l] \in [sender : Accounts, recipient : Accounts, value : Nat]
  BY <1>1, UtxoAssumption, ElementOfSeq
<1> QED  BY <1>1, <1>2, UtxoAssumption DEF Lines

\* The transaction that spends the chosen outputs for a line.
SpendTx(l, chosen, id) ==
  [id |-> id, line |-> l, vin |-> chosen, vout |-> Outputs(Input[l], Sum(chosen))]

\* The outputs of such a transaction: the amount for the recipient, the rest for
\* the sender.
LEMMA SpendTxOutputs ==
  ASSUME NEW l \in Lines, NEW m \in Nat, NEW chosen \in SUBSET Unspent, NEW c \in Nat, c = Sum(chosen),
         c >= Input[l].value, NEW tx, tx = SpendTx(l, chosen, m + 1)
  PROVE  /\ NextTx(tx, m) /\ Len(tx.vout) <= 2 /\ tx.vin = chosen /\ tx.line = l
         /\ tx.vout[1].value = Input[l].value
         /\ \A a \in Accounts :
              /\ NewOutputs(tx, a) \in SUBSET Unspent
              /\ Sum(NewOutputs(tx, a)) = IF a = Input[l].sender THEN c - Input[l].value
                                          ELSE IF a = Input[l].recipient THEN Input[l].value ELSE 0
<1>1. PICK s, r, v : /\ s = Input[l].sender /\ r = Input[l].recipient /\ v = Input[l].value
                     /\ s \in Accounts /\ r \in Accounts /\ v \in Nat /\ s # r
  BY LineType
<1>2. PICK p, q : p = [to |-> r, value |-> v] /\ q = [to |-> s, value |-> c - v]
  OBVIOUS
<1>3. /\ p \in OutputRecords /\ q \in OutputRecords /\ p.to = r /\ p.value = v
      /\ q.to = s /\ q.value = c - v /\ c - v \in Nat
  BY <1>1, <1>2 DEF OutputRecords
<1>4. PICK o1, o2 : /\ o1 = [tx |-> m + 1, index |-> 1, value |-> v]
                    /\ o2 = [tx |-> m + 1, index |-> 2, value |-> c - v]
                    /\ o1 \in Unspent /\ o2 \in Unspent /\ o1.value = v /\ o2.value = c - v
  <2>1. PICK o1, o2 : /\ o1 = [tx |-> m + 1, index |-> 1, value |-> v]
                      /\ o2 = [tx |-> m + 1, index |-> 2, value |-> c - v]
    OBVIOUS
  <2>2. o1 \in Unspent /\ o2 \in Unspent /\ o1.value = v /\ o2.value = c - v
    BY <1>1, <1>3, <2>1 DEF Unspent
  <2> QED  BY <2>1, <2>2
<1>5. Sum({}) = 0 /\ Sum({o1}) = v /\ Sum({o2}) = c - v
  BY <1>4, UtxoSumSmall
<1>6. tx.vout = (IF c > v THEN <<p, q>> ELSE <<p>>) /\ tx.id = m + 1 /\ tx.line = l /\ tx.vin = chosen
  BY <1>1, <1>2 DEF SpendTx, Outputs
<1>7. CASE c > v
  <2>1. /\ tx.vout = <<p, q>> /\ tx.vout[1] = p /\ tx.vout[2] = q /\ Len(tx.vout) = 2
        /\ DOMAIN tx.vout = {1, 2}
    <3>1. tx.vout = <<p, q>>
      BY <1>6, <1>7
    <3>2. <<p, q>>[1] = p /\ <<p, q>>[2] = q /\ Len(<<p, q>>) = 2 /\ DOMAIN <<p, q>> = {1, 2}
      OBVIOUS
    <3> QED  BY <3>1, <3>2
  <2>2. tx.vout \in Seq(OutputRecords)
    <3>1. <<p, q>> \in Seq(OutputRecords)
      BY <1>3
    <3> QED  BY <2>1, <3>1
  <2>3. tx \in Transactions /\ l \in Nat
    <3>1. l \in Nat
      BY LineType
    <3> QED  BY <1>6, <2>2, <3>1 DEF Transactions, SpendTx
  <2>4. \A a \in Accounts : NewOutputs(tx, a) = IF a = s THEN {o2} ELSE IF a = r THEN {o1} ELSE {}
    BY <1>1, <1>3, <1>4, <1>6, <2>1 DEF NewOutputs
  <2>5. ASSUME NEW a \in Accounts
        PROVE /\ NewOutputs(tx, a) \in SUBSET Unspent
              /\ Sum(NewOutputs(tx, a)) = IF a = s THEN c - v ELSE IF a = r THEN v ELSE 0
    <3>1. CASE a = s
      <4>1. NewOutputs(tx, a) = {o2}
        BY <2>4, <3>1
      <4> QED  BY <1>4, <1>5, <3>1, <4>1
    <3>2. CASE a = r
      <4>1. NewOutputs(tx, a) = {o1}
        BY <1>1, <2>4, <3>2
      <4> QED  BY <1>1, <1>4, <1>5, <3>2, <4>1
    <3>3. CASE a # s /\ a # r
      <4>1. NewOutputs(tx, a) = {}
        BY <2>4, <3>3
      <4> QED  BY <1>5, <3>3, <4>1
    <3> QED  BY <3>1, <3>2, <3>3
  <2>6. NextTx(tx, m) /\ tx.vout[1].value = v
    BY <1>3, <1>6, <2>1, <2>3 DEF NextTx
  <2>7. Len(tx.vout) <= 2
    <3>1. tx.vout = <<p, q>>
      BY <1>6, <1>7
    <3>2. Len(<<p, q>>) = 2 /\ Len(<<p, q>>) <= 2
      OBVIOUS
    <3> QED  BY <3>1, <3>2
  <2> QED  BY <1>1, <1>6, <2>5, <2>6, <2>7
<1>8. CASE c = v
  <2>1. /\ tx.vout = <<p>> /\ tx.vout[1] = p /\ Len(tx.vout) = 1
        /\ DOMAIN tx.vout = {1}
    BY <1>1, <1>6, <1>8
  <2>2. tx.vout \in Seq(OutputRecords)
    <3>1. <<p>> \in Seq(OutputRecords)
      BY <1>3
    <3> QED  BY <2>1, <3>1
  <2>3. tx \in Transactions /\ l \in Nat
    <3>1. l \in Nat
      BY LineType
    <3> QED  BY <1>6, <2>2, <3>1 DEF Transactions, SpendTx
  <2>4. \A a \in Accounts : NewOutputs(tx, a) = IF a = r THEN {o1} ELSE {}
    BY <1>1, <1>3, <1>4, <1>6, <2>1 DEF NewOutputs
  <2>5. ASSUME NEW a \in Accounts
        PROVE /\ NewOutputs(tx, a) \in SUBSET Unspent
              /\ Sum(NewOutputs(tx, a)) = IF a = s THEN c - v ELSE IF a = r THEN v ELSE 0
    <3>2. CASE a = r
      <4>1. NewOutputs(tx, a) = {o1}
        BY <2>4, <3>2
      <4> QED  BY <1>1, <1>4, <1>5, <3>2, <4>1
    <3>3. CASE a # r
      <4>1. NewOutputs(tx, a) = {} /\ c - v = 0
        BY <1>1, <1>8, <2>4, <3>3
      <4> QED  BY <1>5, <3>3, <4>1
    <3> QED  BY <3>2, <3>3
  <2>6. NextTx(tx, m) /\ tx.vout[1].value = v
    BY <1>3, <1>6, <2>1, <2>3 DEF NextTx
  <2>7. Len(tx.vout) <= 2
    <3>1. tx.vout = <<p>>
      BY <1>1, <1>6, <1>8
    <3>2. Len(<<p>>) = 1 /\ Len(<<p>>) <= 2
      OBVIOUS
    <3> QED  BY <3>1, <3>2
  <2> QED  BY <1>1, <1>6, <2>5, <2>6, <2>7
<1>9. c > v \/ c = v
  BY <1>1
<1> QED  BY <1>7, <1>8, <1>9

\* Some outputs of a finite set have a natural value.
LEMMA UtxoSumNat ==
  ASSUME NEW U \in SUBSET Unspent, IsFiniteSet(U)
  PROVE  Sum(U) \in Nat
<1> DEFINE P == {T \in SUBSET U : Sum(T) \in Nat}
<1>1. {} \in P
  <2>1. [tx |-> 0, index |-> 0, value |-> 0] \in Unspent
    BY DEF Unspent
  <2>2. Sum({}) = 0
    BY <2>1, UtxoSumSmall
  <2> QED  BY <2>2
<1>2. ASSUME NEW T \in SUBSET U, NEW x \in U \ T, T \in P PROVE T \cup {x} \in P
  <2>1. PICK V : V = {x}
    OBVIOUS
  <2>2. T \in SUBSET Unspent /\ V \in SUBSET Unspent /\ T \cap V = {} /\ x \in Unspent
    BY <2>1
  <2>3. IsFiniteSet(T) /\ IsFiniteSet(V) /\ Sum(V) = x.value
    BY <2>1, <2>2, FS_Subset, UtxoSumSmall
  <2>4. Sum(T \cup V) = Sum(T) + Sum(V)
    BY <2>2, <2>3, UtxoSum
  <2>5. x.value \in Nat /\ Sum(T) \in Nat
    BY <1>2, <2>2 DEF Unspent
  <2> QED  BY <2>1, <2>3, <2>4, <2>5
<1> HIDE DEF P
<1>3. U \in P
  BY <1>1, <1>2, SubsetInduction
<1> QED  BY <1>3 DEF P

\* A transaction that spends outputs of its sender for at least the amount, and the
\* status trie after it, keep a history good.
LEMMA SpendGood ==
  ASSUME NEW h, NEW m \in Nat, NEW tr, Good(h, tr, m), NEW l \in Lines,
         NEW chosen \in SUBSET tr[Input[l].sender].utxos, Sum(chosen) >= Input[l].value
  PROVE  Good(Append(h, SpendTx(l, chosen, m + 1)),
              AddUTXO2StatusTrie([tr EXCEPT ![Input[l].sender] = Spend(@, chosen)],
                                 SpendTx(l, chosen, m + 1)),
              m + 1)
<1>1. PICK s, r, v : /\ s = Input[l].sender /\ r = Input[l].recipient /\ v = Input[l].value
                     /\ s \in Accounts /\ r \in Accounts /\ v \in Nat /\ s # r
  BY LineType
<1>2. PICK tx, tr1, tr2 : /\ tx = SpendTx(l, chosen, m + 1)
                          /\ tr1 = [tr EXCEPT ![s] = Spend(@, chosen)]
                          /\ tr2 = AddUTXO2StatusTrie(tr1, tx)
  OBVIOUS
<1>3. /\ tr \in [Accounts -> AccountStates]
      /\ \A b \in Accounts : /\ tr[b].balance \in Int /\ tr[b].utxos \in SUBSET Unspent
                             /\ tr[b].known \in BOOLEAN
                             /\ IsFiniteSet(tr[b].utxos)
                             /\ tr[b].utxos # {} => tr[b].known
                             /\ \A o \in tr[b].utxos : OutputOf(h, b, o)
                             /\ \A i \in 1..m : h[i].vin \cap tr[b].utxos = {}
  BY DEF Good, Holds, AccountStates
<1>4. chosen \in SUBSET Unspent /\ IsFiniteSet(chosen) /\ chosen \in SUBSET tr[s].utxos
  <2>1. chosen \in SUBSET tr[s].utxos
    BY <1>1
  <2> QED  BY <1>1, <1>3, <2>1, FS_Subset
<1>5. PICK c \in Nat : c = Sum(chosen) /\ c >= v
  BY <1>1, <1>4, UtxoSumNat
<1>6. /\ NextTx(tx, m) /\ Len(tx.vout) <= 2 /\ tx.vin = chosen /\ tx.line = l /\ tx.vout[1].value = v
      /\ \A a \in Accounts :
            /\ NewOutputs(tx, a) \in SUBSET Unspent
            /\ Sum(NewOutputs(tx, a)) = IF a = s THEN c - v ELSE IF a = r THEN v ELSE 0
  <2>1. c >= Input[l].value
    BY <1>1, <1>5
  <2>2. /\ NextTx(tx, m) /\ Len(tx.vout) <= 2 /\ tx.vin = chosen /\ tx.line = l
        /\ tx.vout[1].value = Input[l].value
        /\ \A a \in Accounts :
             /\ NewOutputs(tx, a) \in SUBSET Unspent
             /\ Sum(NewOutputs(tx, a)) = IF a = Input[l].sender THEN c - Input[l].value
                                         ELSE IF a = Input[l].recipient THEN Input[l].value ELSE 0
    BY <1>2, <1>4, <1>5, <2>1, SpendTxOutputs
  <2> QED  BY <1>1, <2>2
<1>7. Pays(h, tx, m)
  BY <1>1, <1>3, <1>4, <1>6 DEF Pays
<1>8. Sum({}) = 0
  <2>1. [tx |-> 0, index |-> 0, value |-> 0] \in Unspent
    BY DEF Unspent
  <2> QED  BY <2>1, UtxoSumSmall
<1>9. ASSUME NEW a \in Accounts \ {s} PROVE tr[a].utxos \cap chosen = {}
  <2>1. ASSUME NEW o, o \in tr[a].utxos, o \in chosen PROVE FALSE
    <3>1. OutputOf(h, a, o) /\ OutputOf(h, s, o)
      BY <1>1, <1>3, <1>4, <2>1
    <3> QED  BY <3>1, OneOwner
  <2> QED  BY <2>1
<1>10. /\ DOMAIN tr1 = Accounts
       /\ \A a \in Accounts : /\ tr1[a].utxos = tr[a].utxos \ chosen
                              /\ tr1[a].balance = tr[a].balance - Sum(tr[a].utxos \cap chosen)
                              /\ tr1[a].known = tr[a].known
  <2>1. DOMAIN tr1 = Accounts /\ tr1[s] = Spend(tr[s], chosen) /\ \A a \in Accounts \ {s} : tr1[a] = tr[a]
    BY <1>1, <1>2, <1>3
  <2>2. /\ tr1[s].utxos = tr[s].utxos \ chosen /\ tr1[s].balance = tr[s].balance - c
        /\ tr1[s].known = tr[s].known
    BY <1>5, <2>1 DEF Spend
  <2>3. tr[s].utxos \cap chosen = chosen
    BY <1>4
  <2>4. Sum(tr[s].utxos \cap chosen) = c
    BY <1>5, <2>3
  <2>5. ASSUME NEW a \in Accounts \ {s}
        PROVE  /\ tr1[a].utxos = tr[a].utxos \ chosen
               /\ tr1[a].balance = tr[a].balance - Sum(tr[a].utxos \cap chosen)
               /\ tr1[a].known = tr[a].known
    <3>1. tr[a].utxos \cap chosen = {} /\ tr[a].utxos = tr[a].utxos \ chosen
      BY <1>9
    <3>2. Sum(tr[a].utxos \cap chosen) = 0
      BY <1>8, <3>1
    <3> QED  BY <1>3, <2>1, <3>1, <3>2
  <2> QED  BY <1>1, <2>1, <2>2, <2>4, <2>5
<1>11. ASSUME NEW a \in Accounts
       PROVE  /\ tr2[a] \in AccountStates /\ Renewed(tr[a], tr2[a], tx, a)
              /\ tr2[a].balance = tr[a].balance - Sum(tr[a].utxos \cap chosen) + Sum(NewOutputs(tx, a))
              /\ Sum(NewOutputs(tx, a)) \in Nat /\ Sum(tr[a].utxos \cap chosen) \in Nat
  <2>1. PICK N : N = NewOutputs(tx, a)
    OBVIOUS
  <2>2. tr2[a] = IF N = {} THEN tr1[a]
                 ELSE [known |-> TRUE, balance |-> tr1[a].balance + Sum(N), utxos |-> tr1[a].utxos \cup N]
    BY <1>2, <1>10, <2>1 DEF AddUTXO2StatusTrie
  <2>3. Sum(N) \in Nat /\ N \in SUBSET Unspent
    BY <1>1, <1>5, <1>6, <2>1
  <2>4. PICK d \in Nat : d = Sum(tr[a].utxos \cap chosen)
    <3>1. PICK I : I = tr[a].utxos \cap chosen
      OBVIOUS
    <3>2. I \in SUBSET chosen /\ I \in SUBSET Unspent
      BY <1>4, <3>1
    <3>3. IsFiniteSet(I)
      BY <1>4, <3>2, FS_Subset
    <3> QED  BY <3>1, <3>2, <3>3, UtxoSumNat
  <2>5. tr[a].balance \in Int /\ tr[a].utxos \in SUBSET Unspent /\ tr[a].known \in BOOLEAN
    BY <1>3
  <2>6. tr1[a].balance = tr[a].balance - d /\ tr1[a].utxos = tr[a].utxos \ chosen /\ tr1[a].known = tr[a].known
    BY <1>10, <2>4
  <2>7. /\ tr2[a].utxos = (tr[a].utxos \ chosen) \cup N
        /\ tr2[a].balance = tr[a].balance - d + Sum(N)
        /\ tr2[a].utxos # {} => tr2[a].known
        /\ tr2[a] \in AccountStates
    <3>1. CASE N = {}
      <4>1. tr2[a] = tr1[a] /\ Sum(N) = 0
        BY <1>8, <2>2, <3>1
      <4>2. tr1[a] \in AccountStates
        <5>1. CASE a = s
          <6>1. tr1[s] = Spend(tr[s], chosen)
            BY <1>1, <1>2, <1>3
          <6> QED  BY <1>5, <2>5, <5>1, <6>1 DEF Spend, AccountStates
        <5>2. CASE a # s
          <6>1. tr1[a] = tr[a]
            BY <1>1, <1>2, <1>3, <5>2
          <6> QED  BY <1>3, <6>1
        <5> QED  BY <5>1, <5>2
      <4>3. tr2[a].utxos = (tr[a].utxos \ chosen) \cup N
        BY <2>6, <3>1, <4>1
      <4>4. tr2[a].utxos # {} => tr2[a].known
        BY <1>3, <2>6, <4>1
      <4> QED  BY <2>5, <2>6, <4>1, <4>2, <4>3, <4>4
    <3>2. CASE N # {}
      <4>1. tr2[a] = [known |-> TRUE, balance |-> tr1[a].balance + Sum(N), utxos |-> tr1[a].utxos \cup N]
        BY <2>2, <3>2
      <4>2. tr2[a].known /\ tr2[a].balance = tr1[a].balance + Sum(N) /\ tr2[a].utxos = tr1[a].utxos \cup N
        BY <4>1
      <4>3. tr2[a] \in AccountStates
        BY <2>3, <2>5, <2>6, <4>1 DEF AccountStates
      <4> QED  BY <2>3, <2>5, <2>6, <4>2, <4>3
    <3> QED  BY <3>1, <3>2
  <2>8. Renewed(tr[a], tr2[a], tx, a)
    BY <1>6, <2>1, <2>4, <2>7 DEF Renewed
  <2> QED  BY <2>1, <2>3, <2>4, <2>7, <2>8
<1>12. tr2 \in [Accounts -> AccountStates]
  <2>1. tr2 = [a \in Accounts |-> tr2[a]]
    BY <1>2, <1>10 DEF AddUTXO2StatusTrie
  <2> QED  BY <1>11, <2>1
<1>13. SumFunctionOnSet(Wealth(tr2), Accounts) = SumFunctionOnSet(Wealth(tr), Accounts)
  <2>1. PICK f, k, g : f = Wealth(tr) /\ g = Wealth(tr2) /\ k = [f EXCEPT ![s] = @ - v]
    OBVIOUS
  <2>2. \A a \in Accounts : f[a] = tr[a].balance /\ g[a] = tr2[a].balance /\ f[a] \in Int
    BY <1>3, <2>1 DEF Wealth
  <2>3. k[s] = f[s] - v /\ (\A a \in Accounts \ {s} : k[a] = f[a]) /\ \A a \in Accounts : k[a] \in Int
    BY <1>1, <2>1, <2>2 DEF Wealth
  <2>4. g[s] = f[s] - v
    <3>1. tr[s].utxos \cap chosen = chosen
      BY <1>4
    <3>2. Sum(tr[s].utxos \cap chosen) = c
      BY <1>5, <3>1
    <3>3. Sum(NewOutputs(tx, s)) = c - v
      BY <1>1, <1>6
    <3> QED  BY <1>1, <1>11, <2>2, <3>2, <3>3
  <2>5. ASSUME NEW a \in Accounts, a # s PROVE g[a] = IF a = r THEN f[a] + v ELSE f[a]
    <3>1. tr[a].utxos \cap chosen = {}
      BY <1>9, <2>5
    <3>2. Sum(tr[a].utxos \cap chosen) = 0
      BY <1>8, <3>1
    <3>3. Sum(NewOutputs(tx, a)) = IF a = r THEN v ELSE 0
      BY <1>6, <2>5
    <3>4. PICK d \in Nat : d = Sum(NewOutputs(tx, a))
      BY <1>11
    <3>5. g[a] = f[a] + d
      BY <1>11, <2>2, <3>2, <3>4
    <3> QED  BY <2>2, <3>3, <3>4, <3>5
  <2>6. SumFunctionOnSet(k, Accounts) = SumFunctionOnSet(f, Accounts) - f[s] + k[s]
    <3>1. PICK x \in Accounts : x = s
      BY <1>1
    <3>2. /\ \A a \in Accounts : f[a] \in Int /\ k[a] \in Int
          /\ \A a \in Accounts \ {x} : k[a] = f[a]
      BY <2>2, <2>3, <3>1
    <3>3. SumFunctionOnSet(k, Accounts) = SumFunctionOnSet(f, Accounts) - f[x] + k[x]
      BY <3>2, SumChange, UtxoAssumption, SMTT(30)
    <3> QED  BY <3>1, <3>3
  <2>7. /\ g[r] = k[r] + v /\ \A a \in Accounts \ {r} : g[a] = k[a]
        /\ \A a \in Accounts : g[a] \in Int
    <3>1. g[r] = k[r] + v
      BY <1>1, <2>3, <2>5
    <3>2. \A a \in Accounts \ {r} : g[a] = k[a]
      BY <1>1, <2>3, <2>4, <2>5
    <3>3. \A a \in Accounts : g[a] \in Int
      BY <1>1, <2>3, <3>1, <3>2
    <3> QED  BY <3>1, <3>2, <3>3
  <2>8. SumFunctionOnSet(g, Accounts) = SumFunctionOnSet(k, Accounts) - k[r] + g[r]
    <3>1. PICK x \in Accounts : x = r
      BY <1>1
    <3>2. /\ \A a \in Accounts : k[a] \in Int /\ g[a] \in Int
          /\ \A a \in Accounts \ {x} : g[a] = k[a]
      BY <2>3, <2>7, <3>1
    <3>3. SumFunctionOnSet(g, Accounts) = SumFunctionOnSet(k, Accounts) - k[x] + g[x]
      BY <3>2, SumChange, UtxoAssumption, SMTT(30)
    <3> QED  BY <3>1, <3>3
  <2>9. SumFunctionOnSet(f, Accounts) \in Int /\ SumFunctionOnSet(k, Accounts) \in Int
    BY <2>2, <2>3, SumType, UtxoAssumption
  <2> QED  BY <1>1, <2>1, <2>2, <2>3, <2>6, <2>7, <2>8, <2>9
<1>14. SumFunctionOnSet(Wealth(tr), Accounts) \in Int
  <2>1. PICK f : f = Wealth(tr)
    OBVIOUS
  <2>2. \A a \in Accounts : f[a] \in Int
    BY <1>3, <2>1 DEF Wealth
  <2> QED  BY <2>1, <2>2, SumType, UtxoAssumption
<1>15. IsCoinbase(tx) => v = 0
  <2>1. IsCoinbase(tx) => chosen = {}
    BY <1>6 DEF IsCoinbase
  <2> QED  BY <1>1, <1>5, <1>8, <2>1
<1>16. SumFunctionOnSet(Wealth(tr2), Accounts)
         = SumFunctionOnSet(Wealth(tr), Accounts) + (IF IsCoinbase(tx) THEN tx.vout[1].value ELSE 0)
  BY <1>6, <1>13, <1>14, <1>15
<1>17. Good(Append(h, tx), tr2, m + 1)
  BY <1>6, <1>7, <1>11, <1>12, <1>16, StepGood
<1> QED  BY <1>1, <1>2, <1>17

\* A coinbase and the transaction that spends it at once keep a history good.
LEMMA OpenGood ==
  ASSUME NEW h, NEW m \in Nat, NEW tr, Good(h, tr, m), NEW l \in Lines,
         NEW o, o = [tx |-> m + 1, index |-> 1, value |-> Input[l].value]
  PROVE  Good(Append(Append(h, NewCoinbaseTX(m + 1, Input[l].sender, Input[l].value)),
                     SpendTx(l, {o}, m + 2)),
              AddUTXO2StatusTrie([tr EXCEPT ![Input[l].sender] = Opened(@)], SpendTx(l, {o}, m + 2)),
              m + 2)
<1>1. PICK a \in Accounts, v \in Nat : a = Input[l].sender /\ v = Input[l].value
  BY LineType
<1>0. PICK n \in Nat : n = m + 1
  OBVIOUS
<1>2. PICK g, tr1 : /\ g = Append(h, NewCoinbaseTX(m + 1, a, v))
                    /\ tr1 = [tr EXCEPT ![a] = Funded(@, o)]
  OBVIOUS
<1>3. Good(g, tr1, n)
  <2>1. o = [tx |-> m + 1, index |-> 1, value |-> v]
    BY <1>1
  <2> QED  BY <1>0, <1>2, <2>1, CoinbaseGood
<1>4. /\ tr \in [Accounts -> AccountStates] /\ tr[a].balance \in Int
      /\ \A u \in tr[a].utxos : OutputOf(h, a, u)
      /\ Len(h) = m
  BY DEF Good, Holds, Numbered, AccountStates
<1>5. o \in Unspent /\ o.value = v /\ o.tx = m + 1
  BY <1>1 DEF Unspent
<1>6. PICK C : C = {o}
  OBVIOUS
<1>7. Sum(C) = v
  BY <1>5, <1>6, UtxoSumSmall
<1>8. o \notin tr[a].utxos
  <2>1. SUFFICES ASSUME o \in tr[a].utxos PROVE FALSE
    OBVIOUS
  <2>2. OutputOf(h, a, o)
    BY <1>4, <2>1
  <2>3. o.tx \in 1..m
    BY <1>4, <2>2 DEF OutputOf
  <2> QED  BY <1>5, <2>3
<1>9. tr1 \in [Accounts -> AccountStates] /\ tr1[a] = Funded(tr[a], o)
  <2>1. tr1 \in [Accounts -> AccountStates]
    BY <1>3 DEF Good, Holds
  <2> QED  BY <1>2, <1>4, <2>1
<1>10. /\ tr1[a].utxos = tr[a].utxos \cup {o} /\ tr1[a].balance = tr[a].balance + v /\ tr1[a].known = TRUE
  BY <1>5, <1>9 DEF Funded
<1>11. C \in SUBSET tr1[Input[l].sender].utxos /\ Sum(C) >= Input[l].value
  BY <1>1, <1>6, <1>7, <1>10
<1>12. Good(Append(g, SpendTx(l, C, n + 1)),
            AddUTXO2StatusTrie([tr1 EXCEPT ![Input[l].sender] = Spend(@, C)], SpendTx(l, C, n + 1)),
            n + 1)
  BY <1>3, <1>11, SpendGood
<1>13. Spend(tr1[a], C) = Opened(tr[a])
  <2>1. tr1[a].balance - Sum(C) = tr[a].balance
    BY <1>1, <1>4, <1>7, <1>10
  <2>2. tr1[a].utxos \ C = tr[a].utxos
    BY <1>6, <1>8, <1>10
  <2> QED  BY <1>10, <2>1, <2>2 DEF Spend, Opened
<1>14. [tr1 EXCEPT ![a] = Spend(@, C)] = [tr EXCEPT ![a] = Opened(@)]
  <2>1. [tr1 EXCEPT ![a] = Spend(@, C)] = [tr1 EXCEPT ![a] = Opened(tr[a])]
    BY <1>9, <1>13
  <2>2. [tr1 EXCEPT ![a] = Opened(tr[a])] = [tr EXCEPT ![a] = Opened(tr[a])]
    BY <1>2, <1>4
  <2> QED  BY <1>4, <2>1, <2>2
<1>15. n + 1 = m + 2
  BY <1>0
<1> QED  BY <1>1, <1>2, <1>6, <1>12, <1>14, <1>15

-----------------------------------------------------------------------------
(***************************************************************************)
(* The inductive invariant.                                                *)
(***************************************************************************)

\* The types of the variables; those of the status trie are in Good.
Types ==
  /\ injected \subseteq Lines
  /\ Txpool \in [Shards -> Seq(Lines)] /\ injectedTxs \in [Shards -> Seq(Lines)]
  /\ made \in [Shards -> Nat] /\ DOMAIN trie = Shards
  /\ txs \in [Shards -> Seq(Transactions)] /\ UTXOTxpool \in [Shards -> Seq(Transactions)]
  /\ proposal \in [Shards -> Seq(Transactions)] /\ blocks \in [Shards -> Seq(Transactions)]
  /\ DOMAIN executed = Shards /\ DOMAIN relay1 = Shards

\* What is reported of a shard is what is in its blocks.
Ids(body) == {tx.id : tx \in Range(body)}
Reported(s) == executed[s] \cap relay1[s] = {} /\ executed[s] \cup relay1[s] = Ids(blocks[s])

IInv == Types /\ \A s \in Shards : Good(History(s), trie[s], made[s]) /\ Reported(s)

\* What UTXOPackTxs takes and UTXOAfterPack leaves is the queue.
LEMMA UtxoPackSplits ==
  ASSUME NEW S, NEW q \in Seq(S), NEW n \in Nat
  PROVE  /\ UTXOPackTxs(q, n) \in Seq(S) /\ UTXOAfterPack(q, n) \in Seq(S)
         /\ UTXOPackTxs(q, n) \o UTXOAfterPack(q, n) = q
<1>1. PICK k \in 0..Len(q) : k = IF Len(q) < n THEN Len(q) ELSE n
  OBVIOUS
<1>2. /\ SubSeq(q, 1, k) \in Seq(S) /\ Len(SubSeq(q, 1, k)) = k
      /\ SubSeq(q, k + 1, Len(q)) \in Seq(S)
      /\ SubSeq(q, 1, k) \o SubSeq(q, k + 1, Len(q)) = q
  BY SplitSeq
<1>3. UTXOPackTxs(q, n) = SubSeq(q, 1, k)
  BY <1>1 DEF UTXOPackTxs
<1>4. UTXOAfterPack(q, n) = SubSeq(q, k + 1, Len(q))
  BY <1>2, <1>3 DEF UTXOAfterPack
<1> QED  BY <1>2, <1>3, <1>4

\* A transaction that joins the last part of a history joins the history.
LEMMA JoinLast ==
  ASSUME NEW S, NEW p \in Seq(S), NEW t \in Seq(S), NEW x \in S
  PROVE  Append(t, x) \in Seq(S) /\ p \o Append(t, x) = Append(p \o t, x)
<1>1. PICK e : e = <<x>>
  OBVIOUS
<1>2. e \in Seq(S) /\ Append(t, x) = t \o e /\ p \o t \in Seq(S)
  BY <1>1, AppendIsConcat, ConcatProperties
<1>3. Append(p \o t, x) = (p \o t) \o e
  BY <1>1, <1>2, AppendIsConcat
<1>4. (p \o t) \o e = p \o (t \o e)
  BY <1>2, ConcatAssociative
<1> QED  BY <1>2, <1>3, <1>4, AppendProperties

\* The parts are sequences of transactions.
AreChains(p, q, t) == {p, q, t} \subseteq Seq(Transactions)

\* The parts of a history can be grouped in any way.
LEMMA PartsGrouped ==
  ASSUME NEW p, NEW q, NEW t, AreChains(p, q, t)
  PROVE  (p \o q) \o t = p \o (q \o t)
<1>1. p \in Seq(Transactions) /\ q \in Seq(Transactions) /\ t \in Seq(Transactions)
  BY DEF AreChains
<1> QED  BY <1>1, ConcatAssociative

\* The identifiers of two parts of a chain.
LEMMA IdsConcat ==
  ASSUME NEW p \in Seq(Transactions), NEW q \in Seq(Transactions)
  PROVE  Ids(p \o q) = Ids(p) \cup Ids(q)
BY ConcatRange DEF Ids

\* Initially.
LEMMA InitIInv == Init => IInv
<1> SUFFICES ASSUME Init PROVE IInv
  OBVIOUS
<1>1. Types
  BY DEF Init, Types
<1>2. ASSUME NEW s \in Shards PROVE Good(History(s), trie[s], made[s]) /\ Reported(s)
  <2>1. History(s) = <<>> /\ made[s] = 0 /\ trie[s] = [a \in Accounts |-> Missing]
    BY <1>1 DEF Init, History
  <2>2. PICK tr : tr = [a \in Accounts |-> Missing]
    OBVIOUS
  <2>3. PICK h : h = <<>>
    OBVIOUS
  <2>4. Numbered(h, 0) /\ Spends(h, 0)
    BY <2>3 DEF Numbered, Spends
  <2>5. Sum({}) = 0
    <3>1. [tx |-> 0, index |-> 0, value |-> 0] \in Unspent
      BY DEF Unspent
    <3> QED  BY <3>1, UtxoSumSmall
  <2>6. Missing \in AccountStates /\ Missing.utxos = {} /\ Missing.balance = 0
    BY DEF Missing, AccountStates
  <2>7. \A a \in Accounts : tr[a] = Missing
    BY <2>2
  <2>8. Holds(h, tr, 0)
    <3>1. tr \in [Accounts -> AccountStates]
      BY <2>2, <2>6
    <3>2. IsFiniteSet(Missing.utxos)
      BY <2>6, FS_EmptySet
    <3>3. Sum(Missing.utxos) = 0
      BY <2>5, <2>6
    <3> QED  BY <2>6, <2>7, <3>1, <3>2, <3>3 DEF Holds
  <2>9. FromCoinbase(h, tr, 0)
    <3>1. PICK f, g, C : f = Wealth(tr) /\ g = Issued(h, 0) /\ C = Coinbases(h, 0)
      OBVIOUS
    <3>2. C = {}
      BY <3>1 DEF Coinbases
    <3>3. SumFunctionOnSet(g, C) = 0
      <4>1. IsFiniteSet(C) /\ \A x \in C : g[x] \in Int
        BY <3>2, FS_EmptySet
      <4> QED  BY <3>2, <4>1, SumType
    <3>4. PICK z \in Int : z = 0
      OBVIOUS
    <3>5. \A a \in Accounts : f[a] = z
      BY <2>6, <2>7, <3>1, <3>4 DEF Wealth
    <3>6. SumFunctionOnSet(f, Accounts) = Cardinality(Accounts) * z
      BY <3>5, SumConstant, UtxoAssumption
    <3>7. Cardinality(Accounts) \in Nat
      BY UtxoAssumption, FS_CardinalityType
    <3> QED  BY <3>1, <3>3, <3>4, <3>6, <3>7 DEF FromCoinbase
  <2>10. Good(History(s), trie[s], made[s])
    BY <2>1, <2>2, <2>3, <2>4, <2>8, <2>9 DEF Good
  <2>11. Reported(s)
    BY DEF Init, Reported, Ids, Range
  <2> QED  BY <2>10, <2>11
<1> QED  BY <1>1, <1>2 DEF IInv

\* What the invariant says of one shard.
ShardGood(s) == Good(History(s), trie[s], made[s]) /\ Reported(s)

\* The parts of a shard's history and its account states.
Parts(s) == <<blocks[s], proposal[s], UTXOTxpool[s], txs[s], trie[s], made[s], executed[s], relay1[s]>>

\* A step leaves a shard good if it does not change it.
LEMMA ShardUnchanged ==
  ASSUME NEW s, ShardGood(s), Parts(s)' = Parts(s)
  PROVE  ShardGood(s)'
<1>1. /\ blocks'[s] = blocks[s] /\ proposal'[s] = proposal[s] /\ UTXOTxpool'[s] = UTXOTxpool[s]
      /\ txs'[s] = txs[s] /\ trie'[s] = trie[s] /\ made'[s] = made[s]
      /\ executed'[s] = executed[s] /\ relay1'[s] = relay1[s]
  BY DEF Parts
<1>2. History(s)' = History(s)
  BY <1>1 DEF History
<1>3. Reported(s)' = Reported(s)
  BY <1>1 DEF Reported
<1> QED  BY <1>1, <1>2, <1>3 DEF ShardGood

\* The steps that change no history.
LEMMA InputSteps ==
  ASSUME IInv, (\E l \in Lines : handleInjectTx(l)) \/ (\E s \in Shards : takeInjected(s))
  PROVE  IInv'
<1>1. Types /\ \A s \in Shards : ShardGood(s)
  BY DEF IInv, ShardGood
<1>2. CASE \E l \in Lines : handleInjectTx(l)
  <2>1. PICK l \in Lines : handleInjectTx(l)
    BY <1>2
  <2>2. PICK s \in Shards : s = Addr2Shard[Input[l].sender]
    BY LineType
  <2>3. Txpool' \in [Shards -> Seq(Lines)]
    <3>1. Txpool \in [Shards -> Seq(Lines)] /\ Txpool' = [Txpool EXCEPT ![s] = Append(@, l)]
      BY <1>1, <2>1, <2>2 DEF Types, handleInjectTx
    <3>2. Append(Txpool[s], l) \in Seq(Lines)
      BY <3>1, AppendProperties
    <3> QED  BY <3>1, <3>2
  <2>4. Types'
    BY <1>1, <2>1, <2>3 DEF Types, handleInjectTx, transform
  <2>5. \A r \in Shards : Parts(r)' = Parts(r)
    BY <2>1 DEF handleInjectTx, transform, Parts
  <2> QED  BY <1>1, <2>4, <2>5, ShardUnchanged DEF IInv, ShardGood
<1>3. CASE \E s \in Shards : takeInjected(s)
  <2>1. PICK s \in Shards : takeInjected(s)
    BY <1>3
  <2>2. TransformSize \in Nat
    BY UtxoAssumption
  <2>3. PackTxs(Txpool[s], TransformSize) \in Seq(Lines) /\ AfterPack(Txpool[s], TransformSize) \in Seq(Lines)
    <3>1. PICK q \in Seq(Lines) : q = Txpool[s]
      BY <1>1 DEF Types
    <3>2. PackTxs(q, TransformSize) \in Seq(Lines) /\ AfterPack(q, TransformSize) \in Seq(Lines)
      BY <2>2, PackSplits
    <3> QED  BY <3>1, <3>2
  <2>4. Types'
    BY <1>1, <2>1, <2>3 DEF Types, takeInjected
  <2>5. \A r \in Shards : Parts(r)' = Parts(r)
    BY <2>1 DEF takeInjected, Parts
  <2> QED  BY <1>1, <2>4, <2>5, ShardUnchanged DEF IInv, ShardGood
<1> QED  BY <1>2, <1>3

\* The steps that move transactions along a history.
LEMMA MoveSteps ==
  ASSUME IInv, NEW s \in Shards, putTransformed(s) \/ HandleinPropose(s) \/ HandleinCommit(s)
  PROVE  IInv'
<1>1. Types /\ \A r \in Shards : ShardGood(r)
  BY DEF IInv, ShardGood
<1>2. PICK b \in Seq(Transactions), p \in Seq(Transactions), q \in Seq(Transactions), t \in Seq(Transactions) :
        b = blocks[s] /\ p = proposal[s] /\ q = UTXOTxpool[s] /\ t = txs[s]
  BY <1>1 DEF Types
<1>3. <<>> \in Seq(Transactions)
  OBVIOUS
<1>4. CASE putTransformed(s)
  <2>1. PICK z \in Seq(Transactions) : z = <<>>
    BY <1>3
  <2>2. q \o t \in Seq(Transactions)
    BY ConcatProperties
  <2>3. Types'
    <3>1. PICK w \in Seq(Transactions) : w = q \o t
      BY <2>2
    <3>2. /\ UTXOTxpool' = [UTXOTxpool EXCEPT ![s] = w] /\ txs' = [txs EXCEPT ![s] = z]
      BY <1>2, <1>4, <2>1, <3>1 DEF putTransformed, UTXOAddTxs2Pool
    <3>3. /\ UTXOTxpool' \in [Shards -> Seq(Transactions)] /\ txs' \in [Shards -> Seq(Transactions)]
      BY <1>1, <3>2 DEF Types
    <3> QED  BY <1>1, <1>4, <3>3 DEF Types, putTransformed
  <2>4. /\ blocks'[s] = b /\ proposal'[s] = p /\ UTXOTxpool'[s] = q \o t /\ txs'[s] = z
        /\ trie'[s] = trie[s] /\ made'[s] = made[s] /\ executed'[s] = executed[s] /\ relay1'[s] = relay1[s]
    BY <1>1, <1>2, <1>4, <2>1 DEF putTransformed, UTXOAddTxs2Pool, Types
  <2>5. History(s)' = History(s)
    <3>1. PICK bp \in Seq(Transactions) : bp = b \o p
      BY ConcatProperties
    <3>2. PICK u \in Seq(Transactions) : u = bp \o (q \o t)
      BY <2>2, ConcatProperties
    <3>3. (bp \o q) \o t = bp \o (q \o t)
      <4>1. AreChains(bp, q, t)
        BY DEF AreChains
      <4> QED  BY <4>1, PartsGrouped
    <3>4. u \o z = u
      BY <2>1, ConcatEmptySeq
    <3> QED  BY <1>2, <2>4, <3>1, <3>2, <3>3, <3>4 DEF History
  <2>6. ShardGood(s)'
    <3>1. Reported(s)'
      BY <1>1, <1>2, <2>4 DEF ShardGood, Reported
    <3> QED  BY <1>1, <2>4, <2>5, <3>1 DEF ShardGood
  <2>7. \A r \in Shards \ {s} : Parts(r)' = Parts(r)
    BY <1>1, <1>4 DEF putTransformed, Parts, Types
  <2> QED  BY <1>1, <2>3, <2>6, <2>7, ShardUnchanged DEF IInv, ShardGood
<1>5. CASE HandleinPropose(s)
  <2>1. PICK n \in Nat : n = BlockSize
    BY UtxoAssumption
  <2>2. PICK x \in Seq(Transactions), y \in Seq(Transactions) :
          x = UTXOPackTxs(q, n) /\ y = UTXOAfterPack(q, n) /\ x \o y = q
    BY UtxoPackSplits
  <2>3. Types'
    <3>1. proposal' = [proposal EXCEPT ![s] = x] /\ UTXOTxpool' = [UTXOTxpool EXCEPT ![s] = y]
      BY <1>2, <1>5, <2>1, <2>2 DEF HandleinPropose
    <3> QED  BY <1>1, <1>5, <3>1 DEF Types, HandleinPropose, transform
  <2>4. /\ blocks'[s] = b /\ proposal'[s] = x /\ UTXOTxpool'[s] = y /\ txs'[s] = t /\ p = <<>>
        /\ trie'[s] = trie[s] /\ made'[s] = made[s] /\ executed'[s] = executed[s] /\ relay1'[s] = relay1[s]
    BY <1>1, <1>2, <1>5, <2>1, <2>2 DEF HandleinPropose, transform, Types
  <2>5. History(s)' = History(s)
    <3>1. b \o p = b
      BY <2>4, ConcatEmptySeq
    <3>2. (b \o x) \o y = b \o q
      <4>1. (b \o x) \o y = b \o (x \o y)
        <5>1. AreChains(b, x, y)
          BY DEF AreChains
        <5> QED  BY <5>1, PartsGrouped
      <4> QED  BY <2>2, <4>1
    <3> QED  BY <1>2, <2>4, <3>1, <3>2 DEF History
  <2>6. ShardGood(s)'
    <3>1. Reported(s)'
      BY <1>1, <1>2, <2>4 DEF ShardGood, Reported
    <3> QED  BY <1>1, <2>4, <2>5, <3>1 DEF ShardGood
  <2>7. \A r \in Shards \ {s} : Parts(r)' = Parts(r)
    BY <1>1, <1>5 DEF HandleinPropose, transform, Parts, Types
  <2> QED  BY <1>1, <2>3, <2>6, <2>7, ShardUnchanged DEF IInv, ShardGood
<1>6. CASE HandleinCommit(s)
  <2>1. PICK z \in Seq(Transactions) : z = <<>>
    BY <1>3
  <2>2. b \o p \in Seq(Transactions)
    BY ConcatProperties
  <2>3. Types'
    <3>1. blocks' = [blocks EXCEPT ![s] = b \o p] /\ proposal' = [proposal EXCEPT ![s] = z]
      BY <1>2, <1>6, <2>1 DEF HandleinCommit
    <3> QED  BY <1>1, <1>6, <2>2, <3>1, SMTT(30) DEF Types, HandleinCommit, transform
  <2>4. /\ blocks'[s] = b \o p /\ proposal'[s] = z /\ UTXOTxpool'[s] = q /\ txs'[s] = t
        /\ trie'[s] = trie[s] /\ made'[s] = made[s]
    BY <1>1, <1>2, <1>6, <2>1 DEF HandleinCommit, transform, Types
  <2>5. PICK E, R : /\ R = {tx.id : tx \in {x \in Range(p) : RelayToOther(s, x)}}
                    /\ E = {tx.id : tx \in {x \in Range(p) : ~RelayToOther(s, x)}}
    OBVIOUS
  <2>6. executed'[s] = executed[s] \cup E /\ relay1'[s] = relay1[s] \cup R
    BY <1>1, <1>2, <1>6, <2>5 DEF HandleinCommit, Types
  <2>7. History(s)' = History(s)
    <3>1. (b \o p) \o z = b \o p
      BY <2>1, <2>2, ConcatEmptySeq
    <3> QED  BY <1>2, <2>4, <3>1 DEF History
  <2>8. E \cup R = Ids(p) /\ Ids(b \o p) = Ids(b) \cup Ids(p)
    <3>1. E \cup R = Ids(p)
      BY <2>5 DEF Ids
    <3> QED  BY <3>1, IdsConcat
  <2>9. /\ E \cap R = {} /\ Ids(b) \cap Ids(p) = {}
    <3>1. PICK h \in Seq(Transactions) : h = (b \o p) \o (q \o t)
      BY <2>2, ConcatProperties
    <3>2. History(s) = h
      <4>1. PICK u \in Seq(Transactions) : u = b \o p
        BY <2>2
      <4>2. (u \o q) \o t = u \o (q \o t)
        <5>1. AreChains(u, q, t)
          BY DEF AreChains
        <5> QED  BY <5>1, PartsGrouped
      <4> QED  BY <1>2, <3>1, <4>1, <4>2 DEF History
    <3>3. \A i \in 1..Len(h) : h[i].id = i
      BY <1>1, <3>2 DEF ShardGood, Good, Numbered
    <3>4. PICK lb \in Nat, lp \in Nat : lb = Len(b) /\ lp = Len(p)
      BY LenProperties
    <3>5. /\ Len(h) \in Nat /\ Len(h) >= lb + lp
          /\ \A i \in 1..lb : h[i] = b[i]
          /\ \A i \in 1..lp : h[lb + i] = p[i]
      <4>1. PICK u \in Seq(Transactions), w \in Seq(Transactions) : u = b \o p /\ w = q \o t
        BY <2>2, ConcatProperties
      <4>2. /\ Len(u) = lb + lp /\ Len(w) \in Nat /\ Len(h) = Len(u) + Len(w)
            /\ \A i \in 1..(lb + lp) : u[i] = IF i <= lb THEN b[i] ELSE p[i - lb]
            /\ \A i \in 1..(Len(u) + Len(w)) : h[i] = IF i <= Len(u) THEN u[i] ELSE w[i - Len(u)]
        BY <3>1, <3>4, <4>1, ConcatProperties, LenProperties, SMTT(30)
      <4>3. \A i \in 1..(lb + lp) : h[i] = u[i]
        BY <4>2
      <4>4. \A i \in 1..lb : i \in 1..(lb + lp) /\ u[i] = b[i]
        BY <4>2
      <4>5. ASSUME NEW i \in 1..lp PROVE lb + i \in 1..(lb + lp) /\ u[lb + i] = p[i]
        <5>1. PICK j \in 1..(lb + lp) : j = lb + i /\ ~(j <= lb) /\ j - lb = i
          OBVIOUS
        <5> QED  BY <4>2, <5>1
      <4>6. Len(h) \in Nat /\ Len(h) >= lb + lp
        BY <4>2
      <4> QED  BY <4>3, <4>4, <4>5, <4>6
    <3>6. (\A i \in 1..lb : b[i].id = i) /\ \A i \in 1..lp : p[i].id = lb + i
      <4>1. \A i \in 1..lb : i \in 1..Len(h)
        BY <3>5
      <4>2. \A i \in 1..lp : lb + i \in 1..Len(h)
        BY <3>5
      <4>3. \A i \in 1..lb : b[i].id = i
        BY <3>3, <3>5, <4>1
      <4>4. ASSUME NEW i \in 1..lp PROVE p[i].id = lb + i
        <5>1. PICK j \in 1..Len(h) : j = lb + i
          BY <4>2
        <5>2. h[j].id = j
          BY <3>3
        <5>3. h[lb + i] = p[i]
          BY <3>5
        <5> QED  BY <5>1, <5>2, <5>3
      <4> QED  BY <4>3, <4>4
    <3>7. Range(b) = {b[i] : i \in 1..lb} /\ Range(p) = {p[i] : i \in 1..lp}
      <4>1. DOMAIN b = 1..lb /\ DOMAIN p = 1..lp
        BY <3>4, LenProperties
      <4> QED  BY <4>1 DEF Range
    <3>8. Ids(b) \cap Ids(p) = {}
      <4>1. ASSUME NEW x \in Range(b) PROVE x.id \in Int /\ x.id <= lb
        <5>1. PICK i \in 1..lb : x = b[i]
          BY <3>7
        <5> QED  BY <3>6, <5>1
      <4>2. ASSUME NEW y \in Range(p) PROVE y.id \in Int /\ y.id > lb
        <5>1. PICK i \in 1..lp : y = p[i]
          BY <3>7
        <5> QED  BY <3>6, <5>1
      <4>3. \A x \in Range(b), y \in Range(p) : x.id # y.id
        BY <4>1, <4>2
      <4> QED  BY <4>3 DEF Ids
    <3>9. \A x, y \in Range(p) : x.id = y.id => x = y
      BY <3>6, <3>7, SMTT(30)
    <3>10. E \cap R = {}
      BY <2>5, <3>9
    <3> QED  BY <3>8, <3>10
  <2>10. ShardGood(s)'
    <3>1. executed[s] \cap relay1[s] = {} /\ executed[s] \cup relay1[s] = Ids(b)
      BY <1>1, <1>2 DEF ShardGood, Reported
    <3>2. Reported(s)'
      BY <2>4, <2>6, <2>8, <2>9, <3>1 DEF Reported
    <3> QED  BY <1>1, <2>4, <2>7, <3>2 DEF ShardGood
  <2>11. \A r \in Shards \ {s} : Parts(r)' = Parts(r)
    BY <1>1, <1>6 DEF HandleinCommit, transform, Parts, Types
  <2> QED  BY <1>1, <2>3, <2>10, <2>11, ShardUnchanged DEF IInv, ShardGood
<1> QED  BY <1>4, <1>5, <1>6

\* Outputs of some value that the loop takes are enough.
LEMMA TakesEnough ==
  ASSUME NEW h, NEW m, NEW tr, Good(h, tr, m), NEW a \in Accounts, NEW v \in Nat,
         NEW chosen \in SUBSET tr[a].utxos, Takes(tr[a], v, chosen), Sum(chosen) > 0
  PROVE  Sum(chosen) >= v
<1>1. /\ tr[a].balance = Sum(tr[a].utxos) /\ IsFiniteSet(tr[a].utxos) /\ tr[a].utxos \in SUBSET Unspent
      /\ tr[a].balance \in Int
  BY DEF Good, Holds, AccountStates
<1>2. chosen \in SUBSET Unspent /\ IsFiniteSet(chosen)
  BY <1>1, FS_Subset
<1>3. PICK c \in Nat : c = Sum(chosen)
  BY <1>2, UtxoSumNat
<1>4. chosen # {}
  <2>1. [tx |-> 0, index |-> 0, value |-> 0] \in Unspent
    BY DEF Unspent
  <2>2. Sum({}) = 0
    BY <2>1, UtxoSumSmall
  <2> QED  BY <1>3, <2>2
<1>5. tr[a].balance >= v /\ StopsAt(chosen, tr[a].utxos, v)
  BY <1>1, <1>4 DEF Takes, LacksFunds
<1>6. CASE c > v
  BY <1>3, <1>6
<1>7. CASE chosen = tr[a].utxos
  BY <1>1, <1>5, <1>7
<1> QED  BY <1>3, <1>5, <1>6, <1>7 DEF StopsAt

\* Outputs of no value can be taken out of an account.
LEMMA DropGood ==
  ASSUME NEW h, NEW m, NEW tr, Good(h, tr, m), NEW a \in Accounts,
         NEW chosen \in SUBSET tr[a].utxos, Sum(chosen) = 0
  PROVE  Good(h, [tr EXCEPT ![a] = Spend(@, chosen)], m)
<1>1. /\ tr \in [Accounts -> AccountStates]
      /\ \A b \in Accounts : /\ IsFiniteSet(tr[b].utxos)
                             /\ tr[b].balance = Sum(tr[b].utxos)
                             /\ tr[b].utxos # {} => tr[b].known
                             /\ \A o \in tr[b].utxos : OutputOf(h, b, o)
                             /\ \A i \in 1..m : h[i].vin \cap tr[b].utxos = {}
  BY DEF Good, Holds
<1>2. PICK tr2, V : tr2 = [tr EXCEPT ![a] = Spend(@, chosen)] /\ V = tr[a].utxos \ chosen
  OBVIOUS
<1>3. tr[a].balance \in Int /\ tr[a].known \in BOOLEAN /\ tr[a].utxos \in SUBSET Unspent
  BY <1>1 DEF AccountStates
<1>4. /\ tr2[a] = Spend(tr[a], chosen) /\ tr2[a].utxos = V /\ tr2[a].known = tr[a].known
      /\ tr2[a].balance = tr[a].balance /\ \A b \in Accounts \ {a} : tr2[b] = tr[b]
  <2>1. tr2[a] = Spend(tr[a], chosen) /\ \A b \in Accounts \ {a} : tr2[b] = tr[b]
    BY <1>1, <1>2
  <2> QED  BY <1>2, <1>3, <2>1 DEF Spend
<1>5. tr2 \in [Accounts -> AccountStates]
  <2>1. Spend(tr[a], chosen) \in AccountStates
    BY <1>3 DEF Spend, AccountStates
  <2> QED  BY <1>1, <1>2, <2>1
<1>6. /\ V \in SUBSET tr[a].utxos /\ V \cup chosen = tr[a].utxos /\ V \cap chosen = {}
      /\ IsFiniteSet(V) /\ IsFiniteSet(chosen)
  <2>1. V \in SUBSET tr[a].utxos /\ V \cup chosen = tr[a].utxos /\ V \cap chosen = {}
    BY <1>2
  <2> QED  BY <1>1, <2>1, FS_Subset
<1>7. Sum(V) = Sum(tr[a].utxos)
  <2>1. V \in SUBSET Unspent /\ chosen \in SUBSET Unspent
    BY <1>3, <1>6
  <2>2. Sum(V) \in Int /\ Sum(V \cup chosen) = Sum(V) + Sum(chosen)
    BY <1>6, <2>1, UtxoSum
  <2>3. Sum(V \cup chosen) = Sum(tr[a].utxos)
    BY <1>6
  <2> QED  BY <2>2, <2>3
<1>8. Holds(h, tr2, m)
  <2>1. /\ IsFiniteSet(tr2[a].utxos) /\ tr2[a].balance = Sum(tr2[a].utxos)
        /\ tr2[a].utxos # {} => tr2[a].known
        /\ \A o \in tr2[a].utxos : OutputOf(h, a, o)
        /\ \A i \in 1..m : h[i].vin \cap tr2[a].utxos = {}
    BY <1>1, <1>4, <1>6, <1>7
  <2> QED  BY <1>1, <1>4, <1>5, <2>1 DEF Holds
<1>9. Wealth(tr2) = Wealth(tr)
  BY <1>4 DEF Wealth
<1> QED  BY <1>2, <1>8, <1>9 DEF Good, FromCoinbase

\* TxTransform adds transactions to the history.
LEMMA TransformSteps ==
  ASSUME IInv, NEW s \in Shards, transformWithCoinbase(s) \/ transformWithOutputs(s)
  PROVE  IInv'
<1>1. Types /\ \A r \in Shards : ShardGood(r)
  BY DEF IInv, ShardGood
<1>2. PICK b \in Seq(Transactions), p \in Seq(Transactions), q \in Seq(Transactions), t \in Seq(Transactions) :
        b = blocks[s] /\ p = proposal[s] /\ q = UTXOTxpool[s] /\ t = txs[s]
  BY <1>1 DEF Types
<1>3. PICK d \in Seq(Transactions) : d = (b \o p) \o q
  <2>1. b \o p \in Seq(Transactions)
    BY ConcatProperties
  <2> QED  BY <2>1, ConcatProperties
<1>4. History(s) = d \o t
  BY <1>2, <1>3 DEF History
<1>5. PICK l \in Lines : /\ l = Head(injectedTxs[s]) /\ injectedTxs[s] # <<>>
                         /\ Tail(injectedTxs[s]) \in Seq(Lines)
  <2>1. PICK i \in Seq(Lines) : i = injectedTxs[s]
    BY <1>1 DEF Types
  <2>2. i # <<>>
    BY <2>1 DEF transformWithCoinbase, transformWithOutputs
  <2>3. Head(i) \in Lines /\ Tail(i) \in Seq(Lines)
    BY <2>2, HeadTailProperties
  <2> QED  BY <2>1, <2>2, <2>3
<1>6. PICK a \in Accounts, v \in Nat : a = Input[l].sender /\ v = Input[l].value
  BY LineType
<1>0. PICK m \in Nat : m = made[s]
  BY <1>1 DEF Types
<1>7. PICK h, tr : h = d \o t /\ m = made[s] /\ tr = trie[s] /\ Good(h, tr, m)
  <2>1. Good(History(s), trie[s], made[s])
    BY <1>1 DEF ShardGood
  <2> QED  BY <1>0, <1>4, <2>1
<1>8. CASE transformWithCoinbase(s)
  <2>0. PICK chosen \in SUBSET tr[a].utxos :
          /\ Sum(chosen) = 0
          /\ trie' = [trie EXCEPT ![s] =
               AddUTXO2StatusTrie([trie[s] EXCEPT ![Input[Head(injectedTxs[s])].sender] = Opened(Spend(@, chosen))],
                 [id |-> made[s] + 2, line |-> Head(injectedTxs[s]),
                  vin |-> {[tx |-> made[s] + 1, index |-> 1, value |-> Input[Head(injectedTxs[s])].value]},
                  vout |-> Outputs(Input[Head(injectedTxs[s])], Input[Head(injectedTxs[s])].value)])]
    BY <1>5, <1>6, <1>7, <1>8, Zenon DEF transformWithCoinbase
  <2>5. PICK trd : trd = [tr EXCEPT ![a] = Spend(@, chosen)] /\ Good(h, trd, m)
    BY <1>7, <2>0, DropGood
  <2>1. PICK o : o = [tx |-> m + 1, index |-> 1, value |-> Input[l].value]
    OBVIOUS
  <2>2. PICK cb, tx, tr2 : /\ cb = NewCoinbaseTX(m + 1, Input[l].sender, Input[l].value)
                           /\ tx = SpendTx(l, {o}, m + 2)
                           /\ tr2 = AddUTXO2StatusTrie([trd EXCEPT ![Input[l].sender] = Opened(@)], tx)
    OBVIOUS
  <2>3. Good(Append(Append(h, cb), tx), tr2, m + 2)
    BY <2>1, <2>2, <2>5, OpenGood
  <2>4. tx = [id |-> m + 2, line |-> l, vin |-> {o}, vout |-> Outputs(Input[l], Input[l].value)]
    <3>1. o \in Unspent /\ o.value = Input[l].value
      BY <1>6, <2>1 DEF Unspent
    <3>2. Sum({o}) = Input[l].value
      BY <3>1, UtxoSumSmall
    <3> QED  BY <2>2, <3>2 DEF SpendTx
  <2>6. /\ txs' = [txs EXCEPT ![s] = Append(Append(t, cb), tx)]
        /\ trie' = [trie EXCEPT ![s] = tr2]
        /\ made' = [made EXCEPT ![s] = m + 2]
        /\ injectedTxs' = [injectedTxs EXCEPT ![s] = Tail(injectedTxs[s])]
        /\ UNCHANGED <<injected, Txpool, UTXOTxpool, proposal, blocks, executed, relay1>>
    <3>1. txs' = [txs EXCEPT ![s] = Append(Append(t, cb), tx)]
      BY <1>2, <1>5, <1>7, <1>8, <2>1, <2>2, <2>4, Zenon DEF transformWithCoinbase
    <3>2. trie' = [trie EXCEPT ![s] = tr2]
      <4>1. PICK raw : raw = [id |-> made[s] + 2, line |-> Head(injectedTxs[s]),
                 vin |-> {[tx |-> made[s] + 1, index |-> 1, value |-> Input[Head(injectedTxs[s])].value]},
                 vout |-> Outputs(Input[Head(injectedTxs[s])], Input[Head(injectedTxs[s])].value)]
        OBVIOUS
      <4>2. trie' = [trie EXCEPT ![s] =
              AddUTXO2StatusTrie([trie[s] EXCEPT ![Input[Head(injectedTxs[s])].sender] = Opened(Spend(@, chosen))], raw)]
        BY <2>0, <4>1, Zenon
      <4>3. raw = tx
        BY <1>5, <1>7, <2>1, <2>4, <4>1, Zenon
      <4>4. [tr EXCEPT ![a] = Opened(Spend(@, chosen))] = [trd EXCEPT ![a] = Opened(@)]
        <5>1. tr \in [Accounts -> AccountStates]
          BY <1>7 DEF Good, Holds
        <5>2. trd[a] = Spend(tr[a], chosen)
          BY <2>5, <5>1
        <5>3. [trd EXCEPT ![a] = Opened(trd[a])] = [tr EXCEPT ![a] = Opened(trd[a])]
          BY <2>5, <5>1
        <5> QED  BY <5>2, <5>3
      <4>5. tr2 = AddUTXO2StatusTrie([tr EXCEPT ![a] = Opened(Spend(@, chosen))], raw)
        BY <1>6, <2>2, <4>3, <4>4
      <4>6. Input[Head(injectedTxs[s])].sender = a /\ trie[s] = tr
        BY <1>5, <1>6, <1>7
      <4> QED  BY <4>2, <4>5, <4>6
    <3>3. /\ made' = [made EXCEPT ![s] = m + 2]
          /\ injectedTxs' = [injectedTxs EXCEPT ![s] = Tail(injectedTxs[s])]
          /\ UNCHANGED <<injected, Txpool, UTXOTxpool, proposal, blocks, executed, relay1>>
      BY <1>7, <1>8 DEF transformWithCoinbase
    <3> QED  BY <3>1, <3>2, <3>3
  <2>7. cb \in Transactions /\ tx \in Transactions
    <3>1. Numbered(Append(h, cb), m + 1) /\ Numbered(h, m)
      <4>1. Good(Append(h, NewCoinbaseTX(m + 1, a, v)), [trd EXCEPT ![a] = Funded(@, o)], m + 1)
        BY <1>6, <2>1, <2>5, CoinbaseGood
      <4> QED  BY <1>6, <1>7, <2>2, <4>1 DEF Good
    <3>2. cb \in Transactions
      BY <1>6, <2>2 DEF NewCoinbaseTX, Transactions, OutputRecords
    <3>0. PICK k \in Nat : k = m + 2
      OBVIOUS
    <3>3. PICK g : g = Append(h, cb) /\ g \in Seq(Transactions) /\ k = Len(g) + 1 /\ k = m + 2
      <4>1. PICK g : g = Append(h, cb)
        OBVIOUS
      <4>2. g \in Seq(Transactions) /\ Len(g) = m + 1
        BY <3>1, <4>1 DEF Numbered
      <4>3. k = Len(g) + 1
        BY <3>0, <4>2
      <4> QED  BY <3>0, <4>1, <4>2, <4>3, Zenon
    <3>4. Append(g, tx) \in Seq(Transactions) /\ Len(Append(g, tx)) = k
      BY <2>3, <3>3 DEF Good, Numbered
    <3>5. Append(g, tx)[k] \in Transactions
      BY <3>3, <3>4, ElementOfSeq
    <3>6. Append(g, tx)[k] = tx
      BY <3>3
    <3> QED  BY <3>2, <3>5, <3>6
  <2>8. PICK t1 \in Seq(Transactions) : t1 = Append(t, cb) /\ d \o t1 = Append(h, cb)
    <3>1. Append(t, cb) \in Seq(Transactions) /\ d \o Append(t, cb) = Append(d \o t, cb)
      BY <2>7, JoinLast
    <3> QED  BY <1>7, <3>1
  <2>9. PICK t2 \in Seq(Transactions) : t2 = Append(t1, tx) /\ d \o t2 = Append(Append(h, cb), tx)
    <3>1. Append(t1, tx) \in Seq(Transactions) /\ d \o Append(t1, tx) = Append(d \o t1, tx)
      BY <2>7, JoinLast
    <3> QED  BY <2>8, <3>1
  <2>10. Types'
    <3>1. txs' = [txs EXCEPT ![s] = t2]
      BY <2>6, <2>8, <2>9
    <3>2. PICK i \in Seq(Lines) : i = Tail(injectedTxs[s])
      BY <1>5
    <3>3. injectedTxs' = [injectedTxs EXCEPT ![s] = i]
      BY <2>6, <3>2
    <3>4. txs' \in [Shards -> Seq(Transactions)]
      BY <1>1, <3>1 DEF Types
    <3>5. injectedTxs' \in [Shards -> Seq(Lines)]
      BY <1>1, <3>3 DEF Types
    <3>6. made' \in [Shards -> Nat] /\ DOMAIN trie' = Shards
      BY <1>1, <2>6 DEF Types
    <3> QED  BY <1>1, <2>6, <3>4, <3>5, <3>6 DEF Types
  <2>11. ShardGood(s)'
    <3>1. /\ blocks'[s] = b /\ proposal'[s] = p /\ UTXOTxpool'[s] = q /\ txs'[s] = t2
          /\ trie'[s] = tr2 /\ made'[s] = m + 2
      BY <1>1, <1>2, <2>6, <2>8, <2>9 DEF Types
    <3>2. History(s)' = Append(Append(h, cb), tx)
      BY <1>3, <2>9, <3>1 DEF History
    <3>3. Reported(s)'
      BY <1>1, <2>6 DEF ShardGood, Reported
    <3> QED  BY <2>3, <3>1, <3>2, <3>3 DEF ShardGood
  <2>12. \A r \in Shards \ {s} : Parts(r)' = Parts(r)
    BY <1>1, <2>6 DEF Parts, Types
  <2> QED  BY <1>1, <2>10, <2>11, <2>12, ShardUnchanged DEF IInv, ShardGood
<1>9. CASE transformWithOutputs(s)
  <2>1. PICK chosen \in SUBSET tr[a].utxos :
          /\ Takes(tr[a], v, chosen) /\ Sum(chosen) > 0
          /\ txs' = [txs EXCEPT ![s] = Append(t, SpendTx(l, chosen, m + 1))]
          /\ trie' = [trie EXCEPT ![s] =
               AddUTXO2StatusTrie([tr EXCEPT ![a] = Spend(@, chosen)], SpendTx(l, chosen, m + 1))]
    <3>1. PICK chosen \in SUBSET trie[s][Input[Head(injectedTxs[s])].sender].utxos :
            /\ Takes(trie[s][Input[Head(injectedTxs[s])].sender], Input[Head(injectedTxs[s])].value, chosen)
            /\ Sum(chosen) > 0
            /\ txs' = [txs EXCEPT ![s] = Append(@, SpendTx(Head(injectedTxs[s]), chosen, made[s] + 1))]
            /\ trie' = [trie EXCEPT ![s] =
                 AddUTXO2StatusTrie([trie[s] EXCEPT ![Input[Head(injectedTxs[s])].sender] = Spend(@, chosen)],
                                    SpendTx(Head(injectedTxs[s]), chosen, made[s] + 1))]
      BY <1>9, Zenon DEF transformWithOutputs, SpendTx
    <3>2. Input[Head(injectedTxs[s])].sender = a /\ Input[Head(injectedTxs[s])].value = v /\ trie[s] = tr
      BY <1>5, <1>6, <1>7
    <3>3. /\ chosen \in SUBSET tr[a].utxos
          /\ Takes(tr[a], v, chosen) /\ Sum(chosen) > 0
      BY <3>1, <3>2
    <3>4. SpendTx(Head(injectedTxs[s]), chosen, made[s] + 1) = SpendTx(l, chosen, m + 1)
      BY <1>5, <1>7
    <3>5. txs' = [txs EXCEPT ![s] = Append(t, SpendTx(l, chosen, m + 1))]
      BY <1>2, <3>1, <3>4
    <3>6. trie' = [trie EXCEPT ![s] =
               AddUTXO2StatusTrie([tr EXCEPT ![a] = Spend(@, chosen)], SpendTx(l, chosen, m + 1))]
      BY <3>1, <3>2, <3>4
    <3> QED  BY <3>3, <3>5, <3>6
  <2>2. /\ made' = [made EXCEPT ![s] = m + 1]
        /\ injectedTxs' = [injectedTxs EXCEPT ![s] = Tail(injectedTxs[s])]
        /\ UNCHANGED <<injected, Txpool, UTXOTxpool, proposal, blocks, executed, relay1>>
    BY <1>7, <1>9 DEF transformWithOutputs
  <2>3. Sum(chosen) >= Input[l].value
    BY <1>6, <1>7, <2>1, TakesEnough
  <2>4. PICK tx, tr2 : /\ tx = SpendTx(l, chosen, m + 1)
                       /\ tr2 = AddUTXO2StatusTrie([tr EXCEPT ![Input[l].sender] = Spend(@, chosen)], tx)
    OBVIOUS
  <2>5. Good(Append(h, tx), tr2, m + 1)
    <3>1. chosen \in SUBSET tr[Input[l].sender].utxos
      BY <1>6
    <3> QED  BY <1>7, <2>3, <2>4, <3>1, SpendGood
  <2>6. tx \in Transactions
    <3>1. h \in Seq(Transactions) /\ Len(h) = m
      BY <1>7 DEF Good, Numbered
    <3>2. PICK k \in Nat : k = m + 1
      OBVIOUS
    <3>3. Append(h, tx) \in Seq(Transactions) /\ Len(Append(h, tx)) = k
      BY <2>5, <3>2 DEF Good, Numbered
    <3>4. Append(h, tx)[k] \in Transactions
      BY <3>2, <3>3, ElementOfSeq
    <3>5. Append(h, tx)[k] = tx
      BY <3>1, <3>2
    <3> QED  BY <3>4, <3>5
  <2>7. PICK t1 \in Seq(Transactions) : t1 = Append(t, tx) /\ d \o t1 = Append(h, tx)
    <3>1. Append(t, tx) \in Seq(Transactions) /\ d \o Append(t, tx) = Append(d \o t, tx)
      BY <2>6, JoinLast
    <3> QED  BY <1>7, <3>1
  <2>8. txs' = [txs EXCEPT ![s] = t1] /\ trie' = [trie EXCEPT ![s] = tr2]
    BY <1>6, <2>1, <2>4, <2>7
  <2>9. Types'
    BY <1>1, <1>5, <2>2, <2>8, SMTT(30) DEF Types
  <2>10. ShardGood(s)'
    <3>1. /\ blocks'[s] = b /\ proposal'[s] = p /\ UTXOTxpool'[s] = q /\ txs'[s] = t1
          /\ trie'[s] = tr2 /\ made'[s] = m + 1
      BY <1>1, <1>2, <2>2, <2>8 DEF Types
    <3>2. History(s)' = Append(h, tx)
      BY <1>3, <2>7, <3>1 DEF History
    <3>3. Reported(s)'
      BY <1>1, <2>2 DEF ShardGood, Reported
    <3> QED  BY <2>5, <3>1, <3>2, <3>3 DEF ShardGood
  <2>11. \A r \in Shards \ {s} : Parts(r)' = Parts(r)
    BY <1>1, <2>2, <2>8 DEF Parts, Types
  <2> QED  BY <1>1, <2>9, <2>10, <2>11, ShardUnchanged DEF IInv, ShardGood
<1> QED  BY <1>8, <1>9

\* A transaction of the history spends only earlier outputs of its sender, each
\* once, and the account states hold what is left: the invariant is inductive.
THEOREM UtxoInductive == Spec => []IInv
<1>1. Init => IInv
  BY InitIInv
<1>2. IInv /\ [Next]_vars => IInv'
  <2> SUFFICES ASSUME IInv, [Next]_vars PROVE IInv'
    OBVIOUS
  <2>1. CASE \E l \in Lines : handleInjectTx(l)
    BY <2>1, InputSteps
  <2>2. ASSUME NEW s \in Shards, takeInjected(s) PROVE IInv'
    BY <2>2, InputSteps
  <2>3. ASSUME NEW s \in Shards, transformWithCoinbase(s) \/ transformWithOutputs(s) PROVE IInv'
    BY <2>3, TransformSteps
  <2>4. ASSUME NEW s \in Shards, putTransformed(s) \/ HandleinPropose(s) \/ HandleinCommit(s) PROVE IInv'
    BY <2>4, MoveSteps
  <2>5. CASE UNCHANGED vars
    <3>1. \A s \in Shards : Parts(s)' = Parts(s)
      BY <2>5 DEF vars, transform, Parts
    <3>2. Types'
      BY <2>5 DEF IInv, Types, vars, transform
    <3> QED  BY <3>1, <3>2, ShardUnchanged DEF IInv, ShardGood
  <2> QED  BY <2>1, <2>2, <2>3, <2>4, <2>5 DEF Next
<1> QED  BY <1>1, <1>2, PTL DEF Spec

-----------------------------------------------------------------------------
(***************************************************************************)
(* The properties.                                                         *)
(***************************************************************************)

\* The types that the runs check.
LEMMA TypesOK == IInv => TypeOK
<1> SUFFICES ASSUME IInv PROVE TypeOK
  OBVIOUS
<1>1. Types /\ \A s \in Shards : Good(History(s), trie[s], made[s]) /\ Reported(s)
  BY DEF IInv
<1>2. ASSUME NEW s \in Shards, NEW a \in Accounts
      PROVE  /\ trie[s][a].balance \in Nat
             /\ trie[s][a].utxos \subseteq [tx : 1..made[s], index : 1..2, value : Nat]
             /\ trie[s][a].utxos # {} => trie[s][a].known
  <2>1. PICK U, h, m : U = trie[s][a].utxos /\ h = History(s) /\ m = made[s]
    OBVIOUS
  <2>2. /\ U \in SUBSET Unspent /\ IsFiniteSet(U) /\ trie[s][a].balance = Sum(U)
        /\ U # {} => trie[s][a].known
        /\ \A o \in U : OutputOf(h, a, o)
        /\ Len(h) = m
    BY <1>1, <2>1 DEF Good, Holds, Numbered, AccountStates
  <2>3. Sum(U) \in Nat
    BY <2>2, UtxoSumNat
  <2>4. \A o \in U : o \in Unspent /\ o.tx \in 1..m /\ o.index \in 1..2
    BY <2>2 DEF OutputOf
  <2>5. \A o \in U : o \in [tx : 1..m, index : 1..2, value : Nat]
    BY <2>4 DEF Unspent
  <2> QED  BY <2>1, <2>2, <2>3, <2>5
<1>3. ASSUME NEW s \in Shards
      PROVE  executed[s] \cap relay1[s] = {} /\
             executed[s] \cup relay1[s] = {blocks[s][i].id : i \in DOMAIN blocks[s]}
  BY <1>1 DEF Reported, Ids, Range
<1> QED  BY <1>1, <1>2, <1>3 DEF TypeOK, Types

\* No output is spent twice, whatever outputs the loop over the map of an account
\* takes first and however blocks and transformations interleave.
THEOREM UtxoNoDoubleSpend == Spec => []NoDoubleSpend
<1>1. IInv => NoDoubleSpend
  <2> SUFFICES ASSUME IInv PROVE NoDoubleSpend
    OBVIOUS
  <2>1. ASSUME NEW s \in Shards
        PROVE  /\ \A i, j \in DOMAIN History(s) :
                    i # j => /\ History(s)[i].id # History(s)[j].id
                             /\ History(s)[i].vin \cap History(s)[j].vin = {}
               /\ \A i \in DOMAIN History(s), a \in Accounts :
                    History(s)[i].vin \cap trie[s][a].utxos = {}
    <3>1. PICK h, m : h = History(s) /\ m = made[s]
      OBVIOUS
    <3>2. Numbered(h, m) /\ Holds(h, trie[s], m) /\ Spends(h, m)
      BY <3>1 DEF IInv, Good
    <3>3. DOMAIN h = 1..m
      BY <3>2, LenProperties DEF Numbered
    <3>4. \A i \in 1..m : h[i].id = i
      BY <3>2 DEF Numbered
    <3>5. \A i, j \in 1..m : i # j => h[i].vin \cap h[j].vin = {}
      BY <3>2 DEF Spends
    <3>6. \A i \in 1..m, a \in Accounts : h[i].vin \cap trie[s][a].utxos = {}
      BY <3>2 DEF Holds
    <3> QED  BY <3>1, <3>3, <3>4, <3>5, <3>6
  <2>2. TypeOK
    BY TypesOK
  <2> QED  BY <2>1, <2>2 DEF NoDoubleSpend
<1> QED  BY <1>1, UtxoInductive, PTL

\* Every input is an output that is earlier in the chain and made out to the sender.
THEOREM UtxoInputsEarlier == Spec => []InputsEarlier
<1>1. IInv => InputsEarlier
  <2> SUFFICES ASSUME IInv, NEW s \in Shards, NEW i \in DOMAIN History(s), NEW o \in History(s)[i].vin
               PROVE  \E j \in 1..(i - 1) :
                        /\ History(s)[j].id = o.tx
                        /\ o.index \in DOMAIN History(s)[j].vout
                        /\ History(s)[j].vout[o.index]
                             = [to |-> Input[History(s)[i].line].sender, value |-> o.value]
    BY DEF InputsEarlier
  <2>1. PICK h, m : h = History(s) /\ m = made[s]
    OBVIOUS
  <2>2. Numbered(h, m) /\ Spends(h, m)
    BY <2>1 DEF IInv, Good
  <2>3. DOMAIN h = 1..m /\ m \in Nat /\ h \in Seq(Transactions) /\ Len(h) = m
    BY <2>2, LenProperties DEF Numbered
  <2>4. o.tx < i /\ OutputOf(h, Input[h[i].line].sender, o) /\ i \in 1..m
    BY <2>1, <2>2, <2>3 DEF Spends
  <2>5. PICK j \in 1..m : j = o.tx
    BY <2>3, <2>4 DEF OutputOf
  <2>6. j \in 1..(i - 1) /\ h[j].id = o.tx
    BY <2>2, <2>3, <2>4, <2>5 DEF Numbered
  <2>7. PICK q \in Seq(OutputRecords) : q = h[j].vout
    <3>1. h[j] \in Transactions
      BY <2>3, ElementOfSeq
    <3> QED  BY <3>1 DEF Transactions
  <2>8. o.index \in DOMAIN q /\ q[o.index] = [to |-> Input[h[i].line].sender, value |-> o.value]
    BY <2>4, <2>5, <2>7, LenProperties DEF OutputOf
  <2> QED  BY <2>1, <2>6, <2>7, <2>8
<1> QED  BY <1>1, UtxoInductive, PTL

\* A balance is the value of the account's outputs, and all value was made by
\* coinbases.
THEOREM UtxoValueOnlyFromCoinbase == Spec => []ValueOnlyFromCoinbase
<1>1. IInv => ValueOnlyFromCoinbase
  <2> SUFFICES ASSUME IInv PROVE ValueOnlyFromCoinbase
    OBVIOUS
  <2>1. \A s \in Shards, a \in Accounts : trie[s][a].balance = Sum(trie[s][a].utxos)
    BY DEF IInv, Good, Holds
  <2>2. ASSUME NEW s \in Shards, NEW C, C = {i \in DOMAIN History(s) : IsCoinbase(History(s)[i])}
        PROVE  SumFunctionOnSet([a \in Accounts |-> Sum(trie[s][a].utxos)], Accounts)
                 = SumFunctionOnSet([i \in C |-> History(s)[i].vout[1].value], C)
    <3>1. PICK h, m : h = History(s) /\ m = made[s]
      OBVIOUS
    <3>2. Numbered(h, m) /\ FromCoinbase(h, trie[s], m)
      BY <3>1 DEF IInv, Good
    <3>3. DOMAIN h = 1..m /\ m \in Nat
      BY <3>2, LenProperties DEF Numbered
    <3>4. C = Coinbases(h, m) /\ C \in SUBSET (1..m)
      BY <2>2, <3>1, <3>3 DEF Coinbases
    <3>5. [a \in Accounts |-> Sum(trie[s][a].utxos)] = Wealth(trie[s])
      BY <2>1 DEF Wealth
    <3>6. PICK f, g : f = Issued(h, m) /\ g = [i \in C |-> h[i].vout[1].value]
      OBVIOUS
    <3>7. \A i \in C : f[i] \in Int /\ g[i] = f[i]
      <4>1. \A i \in 1..m : h[i] \in Transactions /\ Len(h[i].vout) >= 1
        BY <3>2, <3>3 DEF Numbered
      <4>2. \A u \in Transactions : Len(u.vout) >= 1 => u.vout[1].value \in Nat
        <5>1. SUFFICES ASSUME NEW u \in Transactions, Len(u.vout) >= 1 PROVE u.vout[1].value \in Nat
          OBVIOUS
        <5>2. PICK q \in Seq(OutputRecords) : q = u.vout
          BY DEF Transactions
        <5>3. q[1] \in OutputRecords
          BY <5>1, <5>2
        <5> QED  BY <5>2, <5>3 DEF OutputRecords
      <4>3. \A i \in C : f[i] = h[i].vout[1].value /\ g[i] = h[i].vout[1].value
        BY <3>4, <3>6 DEF Issued
      <4> QED  BY <3>4, <4>1, <4>2, <4>3
    <3>8. IsFiniteSet(C)
      <4>1. IsFiniteSet(1..m)
        BY <3>3, FS_Interval
      <4> QED  BY <3>4, <4>1, FS_Subset
    <3>9. SumFunctionOnSet(g, C) = SumFunctionOnSet(f, C)
      BY <3>7, <3>8, SumSame
    <3>10. SumFunctionOnSet(Wealth(trie[s]), Accounts) = SumFunctionOnSet(f, C)
      BY <3>2, <3>4, <3>6 DEF FromCoinbase
    <3> QED  BY <3>1, <3>5, <3>6, <3>9, <3>10
  <2> QED  BY <2>1, <2>2 DEF ValueOnlyFromCoinbase
<1> QED  BY <1>1, UtxoInductive, PTL
=============================================================================
