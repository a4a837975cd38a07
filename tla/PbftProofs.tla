----------------------------- MODULE PbftProofs -----------------------------
(***************************************************************************)
(* Proofs about Pbft, for shards of any size and any number of rounds and  *)
(* losses.                                                                 *)
(*                                                                         *)
(* The argument rests on the main node: it makes a request only when its   *)
(* own chain holds all earlier ones, so request d has number d, parent     *)
(* d - 1 and SeqID d, and every chain is 1, 2, ..., k for some k.  What a  *)
(* node may do next is then a question of numbers alone.                   *)
(***************************************************************************)
EXTENDS Pbft, FiniteSetTheorems, TLAPS

\* Request d is about block d.
RequestInv ==
  \A d \in 1..Len(requests) :
    requests[d].number = d /\ requests[d].parent = d - 1 /\ requests[d].seqID = d

\* A chain is an initial segment of the requests, all of them held by its owner.
ChainInv ==
  \A n \in Nodes :
    /\ Len(chain[n]) <= Len(requests)
    /\ \A i \in 1..Len(chain[n]) : chain[n][i] = i
    /\ 1..Len(chain[n]) \subseteq requestPool[n]
    /\ sequenceID[n] > Len(chain[n])

\* height2Digest binds a number to the request of that number.
IndexInv ==
  \A n \in Nodes :
    /\ DOMAIN height2Digest[n] \subseteq 1..Len(requests)
    /\ \A h \in DOMAIN height2Digest[n] : height2Digest[n][h] = h

\* The main node holds every request, has answered those in its chain, and has
\* at most one that is not.
LeaderInv ==
  /\ requestPool[Leader] = 1..Len(requests)
  /\ DOMAIN height2Digest[Leader] = 1..Len(requests)
  /\ isReply[Leader] = 1..Len(chain[Leader])
  /\ sequenceID[Leader] = Len(chain[Leader]) + 1
  /\ Len(requests) = IF sequenceLock THEN Len(chain[Leader]) + 1 ELSE Len(chain[Leader])
  /\ ~askForLock[Leader]
  /\ ~fatal

\* Messages are about requests that were made.
NetworkInv ==
  \A n \in Nodes :
    /\ prePrepares[n] \subseteq 1..Len(requests)
    /\ requestPool[n] \subseteq 1..Len(requests)
    /\ \A d \in Digests : prepares[n][d] > 0 \/ commits[n][d] > 0 => d <= Len(requests)

\* 2f nodes have broadcast a Commit for the block: that is what handleCommit requires,
\* of other nodes than itself, while its log line says 2f + 1 and the manual "more than
\* 2f".  It holds also of the blocks a node got by catching up.
Certified(d) ==
  Cardinality({m \in Nodes : d \in isCommitBordcast[m]}) >= 2 * malicious_nums

CommitCertificate ==
  \A n \in Nodes : \A i \in DOMAIN chain[n] : Certified(chain[n][i])

\* What holds of the range a node asks for until it has handled the answer.
Asked(n, start, end) ==
  /\ n # Leader
  /\ askForLock[n]
  /\ start > 1
  /\ end \in 1..Len(requests)
  /\ end \in isReply[n]
  /\ end > Len(chain[n])
  /\ Certified(end)

\* A node has at most one request for old messages, or its answer, under way.
CatchUpInv ==
  /\ \A m \in requestOlds : Asked(m.from, m.start, m.end)
  /\ \A m \in sendOlds :
       /\ Asked(m.to, m.start, m.end)
       /\ Len(m.old) = IF m.start > m.end THEN 0 ELSE m.end - m.start + 1
       /\ \A i \in 1..Len(m.old) : m.old[i] = m.start + i - 1
  /\ \A m1, m2 \in requestOlds : m1.from = m2.from => m1 = m2
  /\ \A m1, m2 \in sendOlds : m1.to = m2.to => m1 = m2
  /\ \A m1 \in requestOlds, m2 \in sendOlds : m1.from # m2.to

\* Every Commit counted, or under way, was broadcast by another node.
Committers(n, d) == {m \in Nodes \ {n} : d \in isCommitBordcast[m]}
CountInv ==
  \A n \in Nodes, d \in Digests :
    cntCommitConfirm[n][d] + commits[n][d] <= Cardinality(Committers(n, d))

Inv ==
  /\ TypeOK
  /\ RequestInv
  /\ ChainInv
  /\ IndexInv
  /\ LeaderInv
  /\ NetworkInv
  /\ CatchUpInv
  /\ CountInv
  /\ CommitCertificate

-----------------------------------------------------------------------------
(***************************************************************************)
(* The operators the module is built from.                                 *)
(***************************************************************************)

\* Put binds one number and keeps the other bindings of height2Digest.
LEMMA PutProps ==
  ASSUME NEW m \in Maps, NEW h \in Digests, NEW d \in Digests
  PROVE  /\ Put(m, h, d) \in Maps
         /\ DOMAIN Put(m, h, d) = DOMAIN m \cup {h}
         /\ \A x \in DOMAIN m \cup {h} : Put(m, h, d)[x] = IF x = h THEN d ELSE m[x]
<1>1. PICK S \in SUBSET Digests : m \in [S -> Digests]
  BY DEF Maps
<1>2. Put(m, h, d) \in [S \cup {h} -> Digests]
  BY <1>1 DEF Put
<1>3. S \cup {h} \in SUBSET Digests
  BY <1>1
<1> QED
  BY <1>1, <1>2, <1>3 DEF Put, Maps

\* PutAll binds the numbers of an answer to its digests.
LEMMA PutAllProps ==
  ASSUME NEW m \in Maps, NEW start \in Nat, NEW q \in Seq(Digests),
         start..(start + Len(q) - 1) \subseteq Digests
  PROVE  /\ PutAll(m, start, q) \in Maps
         /\ DOMAIN PutAll(m, start, q) = DOMAIN m \cup start..(start + Len(q) - 1)
         /\ \A x \in DOMAIN m \cup start..(start + Len(q) - 1) :
              PutAll(m, start, q)[x] =
                IF x >= start /\ x < start + Len(q) THEN q[x - start + 1] ELSE m[x]
<1>1. PICK S \in SUBSET Digests : m \in [S -> Digests]
  BY DEF Maps
<1> DEFINE T == S \cup start..(start + Len(q) - 1)
<1>2. ASSUME NEW x \in T
      PROVE  (IF x >= start /\ x < start + Len(q) THEN q[x - start + 1] ELSE m[x])
               \in Digests
  <2>1. x \in Nat
    BY <1>1 DEF Digests
  <2>2. CASE x >= start /\ x < start + Len(q)
    <3>1. x - start + 1 \in 1..Len(q)
      BY <2>1, <2>2
    <3> QED
      BY <3>1, <2>2
  <2>3. CASE ~(x >= start /\ x < start + Len(q))
    <3>1. x \in S
      BY <2>1, <2>3
    <3> QED
      BY <3>1, <2>3, <1>1
  <2> QED
    BY <2>2, <2>3
<1>3. PutAll(m, start, q) \in [T -> Digests]
  BY <1>1, <1>2 DEF PutAll
<1>4. T \in SUBSET Digests
  BY <1>1
<1> QED
  BY <1>1, <1>3, <1>4 DEF PutAll, Maps

Counters == [Nodes -> [Digests -> Nat]]

\* Broadcast adds one message for every node but the sender.
LEMMA BroadcastProps ==
  ASSUME NEW net \in Counters, NEW n \in Nodes, NEW d \in Digests
  PROVE  /\ Broadcast(net, n, d) \in Counters
         /\ \A to \in Nodes, e \in Digests :
              Broadcast(net, n, d)[to][e] =
                IF to = n \/ e # d THEN net[to][e] ELSE net[to][e] + 1
BY DEF Counters, Broadcast

\* Taking one message off the network, or counting one.
Plus(net, n, d) == [net EXCEPT ![n][d] = @ + 1]
Minus(net, n, d) == [net EXCEPT ![n][d] = @ - 1]

LEMMA CounterProps ==
  ASSUME NEW net \in Counters, NEW n \in Nodes, NEW d \in Digests
  PROVE  /\ Plus(net, n, d) \in Counters
         /\ net[n][d] > 0 => Minus(net, n, d) \in Counters
         /\ \A to \in Nodes, e \in Digests :
              /\ Plus(net, n, d)[to][e] =
                   IF to = n /\ e = d THEN net[to][e] + 1 ELSE net[to][e]
              /\ Minus(net, n, d)[to][e] =
                   IF to = n /\ e = d THEN net[to][e] - 1 ELSE net[to][e]
BY DEF Counters, Plus, Minus

\* A chain 1..k is extended by block k + 1 only.
LEMMA AddBlockProps ==
  ASSUME TypeOK, RequestInv, ChainInv, NEW n \in Nodes, NEW d \in 1..Len(requests)
  PROVE  /\ AddBlock(chain[n], d) \in Seq(Digests)
         /\ Len(AddBlock(chain[n], d)) =
              IF d = Len(chain[n]) + 1 THEN Len(chain[n]) + 1 ELSE Len(chain[n])
         /\ \A i \in 1..Len(AddBlock(chain[n], d)) : AddBlock(chain[n], d)[i] = i
<1>1. chain[n] \in Seq(Digests) /\ d \in Digests /\ Len(chain[n]) \in Nat
  BY PbftAssumption DEF TypeOK, Digests
<1>2. requests[d].number = d
  BY DEF RequestInv
<1>3. \A i \in 1..Len(chain[n]) : chain[n][i] = i
  BY DEF ChainInv
<1>4. CASE d = Len(chain[n]) + 1
  BY <1>1, <1>2, <1>3, <1>4 DEF AddBlock
<1>5. CASE d # Len(chain[n]) + 1
  BY <1>1, <1>2, <1>3, <1>5 DEF AddBlock
<1> QED
  BY <1>4, <1>5

\* An answer either brings a chain up to the end of its range or leaves it alone.
LEMMA CatchUpProps ==
  ASSUME TypeOK, RequestInv, ChainInv, CatchUpInv, NEW m \in sendOlds,
         NEW c, c = HandleforSequentialRequest(chain[m.to], m)
  PROVE  /\ c \in Seq(Digests)
         /\ Len(c) = Len(chain[m.to]) \/ Len(c) = m.end
         /\ \A i \in 1..Len(c) : c[i] = i
         /\ \A i \in 1..Len(c) :
              i \in 1..Len(chain[m.to]) \/ \E j \in DOMAIN m.old : m.old[j] = i
<1> DEFINE b == chain[m.to]
           q == m.old
<1>1. /\ m.to \in Nodes /\ m.start \in Nat /\ m.end \in Nat
      /\ q \in Seq(Digests) /\ Len(q) \in Nat /\ DOMAIN q = 1..Len(q)
  BY DEF TypeOK, SendOldMessages
<1>2. b \in Seq(Digests) /\ Len(b) \in Nat /\ \A i \in 1..Len(b) : b[i] = i
  BY <1>1 DEF TypeOK, ChainInv
<1>3. /\ Len(q) = IF m.start > m.end THEN 0 ELSE m.end - m.start + 1
      /\ \A i \in 1..Len(q) : q[i] = m.start + i - 1
      /\ m.end \in 1..Len(requests)
      /\ m.start > 1
  BY DEF CatchUpInv, Asked
<1>4. \A i \in 1..Len(q) : requests[q[i]].number = m.start + i - 1
  <2> TAKE i \in 1..Len(q)
  <2>1. q[i] \in 1..Len(requests)
    <3>1. Len(q) = m.end - m.start + 1 /\ i \in Nat /\ i >= 1 /\ i <= Len(q)
      BY <1>1, <1>3
    <3>2. m.start + i - 1 \in 1..Len(requests)
      BY <1>1, <1>3, <3>1
    <3> QED
      BY <1>3, <3>2
  <2> QED
    BY <2>1, <1>3 DEF RequestInv
<1>5. CASE c = b
  BY <1>2, <1>5
<1>6. CASE c # b
  <2>1. c = AddBlocks(b, q)
    BY <1>6 DEF HandleforSequentialRequest
  <2>2. \E i \in DOMAIN q : requests[q[i]].number = Len(b) + 1
    BY <2>1, <1>6 DEF AddBlocks
  <2> DEFINE k == CHOOSE i \in DOMAIN q : requests[q[i]].number = Len(b) + 1
  <2>3. k \in 1..Len(q) /\ requests[q[k]].number = Len(b) + 1
    BY <2>2, <1>1
  <2>4. c = b \o SubSeq(q, k, Len(q))
    BY <2>1, <2>2 DEF AddBlocks
  <2> HIDE DEF k
  <2>5. m.start + k - 1 = Len(b) + 1
    BY <2>3, <1>4
  <2> DEFINE t == SubSeq(q, k, Len(q))
  <2>6. /\ t \in Seq(Digests)
        /\ Len(t) = Len(q) - k + 1
        /\ \A i \in 1..Len(t) : t[i] = q[k + i - 1]
    BY <1>1, <2>3
  <2>7. c \in Seq(Digests) /\ Len(c) = Len(b) + Len(t)
    BY <1>2, <2>4, <2>6
  <2>8. Len(q) = m.end - m.start + 1
    BY <1>1, <1>3, <2>3
  <2>9. k \in Nat /\ Len(t) \in Nat
    BY <1>1, <2>3, <2>6
  <2> HIDE DEF b, q, t
  <2>10. Len(c) = m.end
    <3>1. m.start \in Nat /\ m.end \in Nat /\ Len(b) \in Nat
      BY <1>1, <1>2
    <3>2. Len(c) = Len(b) + (Len(q) - k + 1)
      BY <2>6, <2>7
    <3>3. Len(q) \in Nat
      BY <1>1 DEF q
    <3> DEFINE lb == Len(b)
               lq == Len(q)
               st == m.start
               en == m.end
    <3>4. /\ lb \in Nat /\ lq \in Nat /\ st \in Nat /\ en \in Nat /\ k \in Nat
          /\ lq = en - st + 1 /\ st + k - 1 = lb + 1
      BY <3>1, <3>3, <2>5, <2>8, <2>9
    <3> HIDE DEF lb, lq, st, en
    <3>5. lb + (lq - k + 1) = en
      BY <3>4
    <3> QED
      BY <3>2, <3>5 DEF lb, lq, en
  <2>11. ASSUME NEW i \in 1..Len(c)
        PROVE  c[i] = i /\ (i \in 1..Len(b) \/ \E j \in DOMAIN q : q[j] = i)
    <3>1. CASE i <= Len(b)
      BY <3>1, <1>2, <2>4, <2>6
    <3>2. CASE i > Len(b)
      <4> DEFINE j == k + (i - Len(b)) - 1
      <4>1. i - Len(b) \in 1..Len(t)
        BY <3>2, <1>2, <2>7, <2>9
      <4>2. j \in 1..Len(q)
        BY <4>1, <2>3, <2>6, <1>1, <1>2
      <4>3. q[j] = i
        <5>1. q[j] = m.start + j - 1
          BY <4>2, <1>3 DEF q
        <5>2. m.start \in Nat /\ Len(b) \in Nat /\ i \in Nat
          BY <1>1, <1>2, <2>7
        <5>3. m.start + j - 1 = i
          BY <5>2, <2>5, <2>9
        <5> QED
          BY <5>1, <5>3
      <4>4. c[i] = t[i - Len(b)]
        BY <3>2, <4>1, <1>2, <2>4, <2>6, <2>7 DEF t
      <4>5. c[i] = q[j]
        BY <4>1, <4>4, <2>6
      <4> QED
        BY <4>2, <4>3, <4>5, <1>1
    <3> QED
      BY <3>1, <3>2, <1>2, <2>7
  <2> QED
    BY <2>7, <2>10, <2>11 DEF b, q
<1> QED
  BY <1>5, <1>6

\* The main node answers with all the blocks asked for.
LEMMA OldRequestsProps ==
  ASSUME TypeOK, IndexInv, LeaderInv, NEW start \in Nat, NEW end \in 1..Len(requests),
         start > 1
  PROVE  /\ oldRequests(start, end) \in Seq(Digests)
         /\ Len(oldRequests(start, end)) = IF start > end THEN 0 ELSE end - start + 1
         /\ \A i \in 1..Len(oldRequests(start, end)) :
              oldRequests(start, end)[i] = start + i - 1
<1>1. CASE start > end
  BY <1>1 DEF oldRequests
<1>2. CASE ~(start > end)
  <2>1. Len(requests) \in Nat /\ Len(requests) <= MaxHeight /\ end \in Nat
    BY DEF TypeOK
  <2>2. \A h \in 1..Len(requests) : served(h) /\ height2Digest[Leader][h] = h
    BY PbftAssumption DEF served, LeaderInv, IndexInv
  <2>3. lastServed(start, end) = end
    <3>1. end \in (start - 1)..end /\ \A k \in start..end : served(k)
      BY <1>2, <2>1, <2>2
    <3>2. \A h \in (start - 1)..end : (h < end => ~served(h + 1)) => h = end
      BY <2>1, <2>2
    <3> QED
      BY <3>1, <3>2 DEF lastServed
  <2>4. oldRequests(start, end) =
          [i \in 1..(end - start + 1) |-> height2Digest[Leader][start + i - 1]]
    BY <1>2, <2>3 DEF oldRequests
  <2>5. \A i \in 1..(end - start + 1) : /\ start + i - 1 \in 1..Len(requests)
                                        /\ start + i - 1 \in Digests
    BY <2>1, <1>2, PbftAssumption DEF Digests
  <2>6. \A i \in 1..(end - start + 1) : height2Digest[Leader][start + i - 1] = start + i - 1
    BY <2>2, <2>5
  <2> DEFINE r == oldRequests(start, end)
             l == end - start + 1
  <2>7. l \in Nat
    BY <1>2, <2>1
  <2>8. r = [i \in 1..l |-> start + i - 1]
    BY <2>4, <2>6
  <2>9. \A i \in 1..l : start + i - 1 \in Digests
    BY <2>5
  <2> HIDE DEF l, r
  <2>10. r \in Seq(Digests) /\ Len(r) = l /\ \A i \in 1..l : r[i] = start + i - 1
    BY <2>7, <2>8, <2>9
  <2> QED
    BY <1>2, <2>10 DEF l, r
<1> QED
  BY <1>1, <1>2

\* Nobody takes a Commit back, so a certificate lasts.
LEMMA CertifiedStep ==
  ASSUME NEW d, Certified(d),
         \A n \in Nodes : isCommitBordcast[n] \subseteq isCommitBordcast'[n]
  PROVE  Certified(d)'
<1> DEFINE S == {m \in Nodes : d \in isCommitBordcast[m]}
<1>1. IsFiniteSet(S') /\ S \subseteq S'
  BY PbftAssumption, FS_Subset
<1>2. Cardinality(S) <= Cardinality(S') /\ Cardinality(S) \in Nat /\ Cardinality(S') \in Nat
  BY <1>1, FS_Subset, FS_CardinalityType
<1>3. malicious_nums \in Int
  BY PbftAssumption, FS_CardinalityType DEF malicious_nums
<1> QED
  BY <1>2, <1>3 DEF Certified

\* A node that has a quorum of Commits makes the request certified.
LEMMA QuorumCertifies ==
  ASSUME TypeOK, CountInv, NEW n \in Nodes, NEW d \in Digests,
         commits[n][d] > 0, quorumReached(n, d)
  PROVE  Certified(d)
<1> DEFINE S == {m \in Nodes : d \in isCommitBordcast[m]}
<1>1. IsFiniteSet(S) /\ Committers(n, d) \subseteq S
  BY PbftAssumption, FS_Subset DEF Committers
<1>2. /\ Cardinality(Committers(n, d)) <= Cardinality(S)
      /\ Cardinality(Committers(n, d)) \in Nat /\ Cardinality(S) \in Nat
  BY <1>1, FS_Subset, FS_CardinalityType
<1>3. cntCommitConfirm[n][d] \in Nat /\ commits[n][d] \in Nat
  BY DEF TypeOK
<1>4. cntCommitConfirm[n][d] + commits[n][d] <= Cardinality(Committers(n, d))
  BY DEF CountInv
<1>5. malicious_nums \in Int
  BY PbftAssumption, FS_CardinalityType DEF malicious_nums
<1> QED
  BY <1>2, <1>3, <1>4, <1>5 DEF Certified, quorumReached, required_cnt

-----------------------------------------------------------------------------
(***************************************************************************)
(* Inv is inductive: one lemma per action.                                 *)
(***************************************************************************)

\* The set of nodes whose Commits a node can count is finite.
LEMMA CommittersFinite ==
  ASSUME NEW n, NEW d
  PROVE  IsFiniteSet(Committers(n, d)) /\ Cardinality(Committers(n, d)) \in Nat
<1>1. Committers(n, d) \subseteq Nodes
  BY DEF Committers
<1> QED
  BY <1>1, PbftAssumption, FS_Subset, FS_CardinalityType

\* Nothing a question or its answer depends on changes.
LEMMA CatchUpKept ==
  ASSUME CatchUpInv,
         UNCHANGED <<requests, chain, askForLock, isReply, isCommitBordcast>>,
         requestOlds' \subseteq requestOlds, sendOlds' \subseteq sendOlds
  PROVE  CatchUpInv'
<1>1. \A k, start, end : Asked(k, start, end) => Asked(k, start, end)'
  BY DEF Asked, Certified
<1> QED
  BY <1>1 DEF CatchUpInv

\* The state of new nodes.
LEMMA InitInv == Init => Inv
<1> SUFFICES ASSUME Init PROVE Inv
  OBVIOUS
<1>1. TypeOK
  <2>1. <<>> \in Maps
    <3>1. <<>> \in [{} -> Digests] /\ {} \in SUBSET Digests
      OBVIOUS
    <3> QED
      BY <3>1 DEF Maps
  <2>2. /\ requests \in Seq(Requests) /\ Len(requests) <= MaxHeight
        /\ sequenceID \in [Nodes -> Nat] /\ chain \in [Nodes -> Seq(Digests)]
        /\ height2Digest \in [Nodes -> Maps]
    BY <2>1, PbftAssumption DEF Init
  <2>3. /\ sequenceLock \in BOOLEAN /\ askForLock \in [Nodes -> BOOLEAN]
        /\ hung \in [Nodes -> BOOLEAN] /\ fatal \in BOOLEAN
    BY DEF Init
  <2>4. lost \in 0..MaxLoss
    BY PbftAssumption DEF Init
  <2> QED
    BY <2>2, <2>3, <2>4 DEF Init, TypeOK
<1>2. RequestInv /\ ChainInv /\ NetworkInv
  BY PbftAssumption DEF Init, RequestInv, ChainInv, NetworkInv
<1>3. IndexInv /\ LeaderInv
  BY PbftAssumption DEF Init, IndexInv, LeaderInv
<1>4. CatchUpInv
  BY DEF Init, CatchUpInv
<1>5. CountInv
  BY CommittersFinite DEF Init, CountInv
<1>6. CommitCertificate
  BY DEF Init, CommitCertificate
<1> QED
  BY <1>1, <1>2, <1>3, <1>4, <1>5, <1>6 DEF Inv

\* Propose makes request Len(requests) + 1 on top of a chain that holds all others.
LEMMA ProposeInv == Inv /\ Propose => Inv'
<1> SUFFICES ASSUME Inv, Propose PROVE Inv'
  OBVIOUS
<1> DEFINE K == Len(requests)
<1>1. /\ TypeOK /\ RequestInv /\ ChainInv /\ IndexInv /\ LeaderInv
      /\ NetworkInv /\ CatchUpInv /\ CountInv /\ CommitCertificate
  BY DEF Inv
<1>2. K \in Nat /\ K < MaxHeight /\ K + 1 \in Digests /\ Leader \in Nodes
  <2>1. K \in Nat /\ K < MaxHeight
    BY <1>1 DEF TypeOK, Propose
  <2> QED
    BY <2>1, PbftAssumption DEF Digests
<1>3. K = Len(chain[Leader]) /\ sequenceID[Leader] = K + 1
  BY <1>1 DEF Propose, mayPropose, LeaderInv
<1>4. CurrentBlock(chain[Leader]) = K
  <2>1. chain[Leader] \in Seq(Digests)
    BY <1>1, <1>2 DEF TypeOK
  <2>2. CASE chain[Leader] = <<>>
    BY <2>2, <1>3 DEF CurrentBlock
  <2>3. CASE chain[Leader] # <<>>
    BY <2>1, <2>3, <1>1, <1>2, <1>3 DEF CurrentBlock, ChainInv
  <2> QED
    BY <2>2, <2>3
<1>5. NewRequest = [number |-> K + 1, parent |-> K, seqID |-> K + 1]
  BY <1>3, <1>4 DEF NewRequest
<1>6. /\ NewRequest \in Requests
      /\ requests' \in Seq(Requests)
      /\ Len(requests') = K + 1
      /\ \A d \in 1..K : requests'[d] = requests[d]
      /\ requests'[K + 1] = NewRequest
  <2>1. NewRequest \in Requests
    BY <1>2, <1>5 DEF Requests
  <2>2. requests' = Append(requests, NewRequest) /\ requests \in Seq(Requests)
    BY <1>1 DEF Propose, TypeOK
  <2> QED
    BY <2>1, <2>2
<1>7. /\ height2Digest[Leader] \in Maps
      /\ height2Digest' = [height2Digest EXCEPT
                             ![Leader] = Put(height2Digest[Leader], K + 1, K + 1)]
  BY <1>1, <1>2, <1>3 DEF Propose, TypeOK
<1> DEFINE p == Put(height2Digest[Leader], K + 1, K + 1)
<1>8. /\ p \in Maps
      /\ DOMAIN p = DOMAIN height2Digest[Leader] \cup {K + 1}
      /\ \A x \in DOMAIN height2Digest[Leader] \cup {K + 1} :
           p[x] = IF x = K + 1 THEN K + 1 ELSE height2Digest[Leader][x]
  BY <1>2, <1>7, PutProps, ZenonT(60)
<1>9. TypeOK'
  <2>1. height2Digest' \in [Nodes -> Maps]
    BY <1>1, <1>2, <1>7, <1>8 DEF TypeOK
  <2>2. requestPool' \in [Nodes -> SUBSET Digests]
    BY <1>1, <1>2 DEF TypeOK, Propose
  <2>3. prePrepares' \in [Nodes -> SUBSET Digests]
    BY <1>1, <1>2 DEF TypeOK, Propose
  <2>4. Len(requests') <= MaxHeight
    BY <1>2, <1>6, PbftAssumption
  <2>5. sequenceLock' \in BOOLEAN
    BY DEF Propose
  <2> QED
    BY <1>1, <1>6, <2>1, <2>2, <2>3, <2>4, <2>5 DEF TypeOK, Propose, votes
<1>10. RequestInv'
  BY <1>1, <1>2, <1>5, <1>6 DEF RequestInv
<1>11. ChainInv'
  <2>1. \A n \in Nodes : requestPool[n] \subseteq requestPool'[n]
    BY <1>1 DEF TypeOK, Propose
  <2> QED
    BY <1>1, <1>2, <1>6, <2>1 DEF ChainInv, Propose, TypeOK
<1>12. IndexInv'
  <2> SUFFICES ASSUME NEW n \in Nodes
               PROVE  /\ DOMAIN height2Digest'[n] \subseteq 1..Len(requests')
                      /\ \A h \in DOMAIN height2Digest'[n] : height2Digest'[n][h] = h
    BY DEF IndexInv
  <2>1. 1..K \cup {K + 1} \subseteq 1..Len(requests')
    BY <1>2, <1>6
  <2>2. CASE n = Leader
    <3>1. height2Digest'[n] = Put(height2Digest[Leader], K + 1, K + 1)
      BY <2>2, <1>1, <1>2, <1>7 DEF TypeOK
    <3> QED
      BY <2>1, <2>2, <3>1, <1>1, <1>2, <1>8 DEF IndexInv
  <2>3. CASE n # Leader
    <3>1. height2Digest'[n] = height2Digest[n]
      BY <2>3, <1>1, <1>7 DEF TypeOK
    <3> QED
      BY <2>1, <3>1, <1>1 DEF IndexInv
  <2> QED
    BY <2>2, <2>3
<1>13. LeaderInv'
  <2>1. height2Digest'[Leader] = Put(height2Digest[Leader], K + 1, K + 1)
    BY <1>1, <1>2, <1>7 DEF TypeOK
  <2>2. DOMAIN height2Digest'[Leader] = 1..Len(requests')
    <3>1. 1..K \cup {K + 1} = 1..(K + 1)
      BY <1>2
    <3> QED
      <4>1. DOMAIN height2Digest[Leader] = 1..K
        BY <1>1 DEF LeaderInv
      <4>2. DOMAIN height2Digest'[Leader] = 1..K \cup {K + 1} /\ Len(requests') = K + 1
        BY <1>6, <1>8, <2>1, <4>1
      <4> HIDE DEF K
      <4> QED
        BY <3>1, <4>2
  <2>3. requestPool'[Leader] = 1..Len(requests')
    <3>1. requestPool'[Leader] = requestPool[Leader] \cup {K + 1}
      BY <1>1, <1>2 DEF Propose, TypeOK
    <3>2. requestPool[Leader] = 1..K
      BY <1>1 DEF LeaderInv
    <3>3. 1..K \cup {K + 1} = 1..(K + 1)
      BY <1>2
    <3> QED
      BY <1>6, <3>1, <3>2, <3>3
  <2> QED
    BY <1>1, <1>2, <1>3, <1>6, <2>2, <2>3 DEF LeaderInv, Propose, votes
<1>14. NetworkInv'
  <2>1. \A n \in Nodes : /\ prePrepares'[n] \subseteq prePrepares[n] \cup {K + 1}
                         /\ requestPool'[n] \subseteq requestPool[n] \cup {K + 1}
    BY <1>1 DEF TypeOK, Propose
  <2>2. 1..K \cup {K + 1} \subseteq 1..Len(requests')
    BY <1>2, <1>6
  <2>3. \A d \in Digests : d <= K => d <= Len(requests')
    BY <1>2, <1>6 DEF Digests
  <2>4. prepares' = prepares /\ commits' = commits
    BY DEF Propose
  <2> QED
    BY <1>1, <2>1, <2>2, <2>3, <2>4 DEF NetworkInv
<1>15. CatchUpInv'
  <2>1. UNCHANGED <<requestOlds, sendOlds, chain, askForLock, isReply, isCommitBordcast>>
    BY DEF Propose, votes
  <2>2. 1..Len(requests) \subseteq 1..Len(requests')
    BY <1>2, <1>6
  <2>3. \A n, start, end : Asked(n, start, end) => Asked(n, start, end)'
    BY <2>1, <2>2 DEF Asked, Certified
  <2> QED
    BY <1>1, <2>1, <2>3 DEF CatchUpInv
<1>16. CountInv' /\ CommitCertificate'
  BY <1>1 DEF CountInv, Committers, CommitCertificate, Certified, Propose, votes
<1> QED
  BY <1>9, <1>10, <1>11, <1>12, <1>13, <1>14, <1>15, <1>16 DEF Inv

\* handlePrePrepare stores a request that was made; its Prepare is about it.
LEMMA PrePrepareInv ==
  ASSUME Inv, NEW n \in Nodes, NEW d \in Digests, handlePrePrepare(n, d)
  PROVE  Inv'
<1>1. /\ TypeOK /\ RequestInv /\ ChainInv /\ IndexInv /\ LeaderInv
      /\ NetworkInv /\ CatchUpInv /\ CountInv /\ CommitCertificate
  BY DEF Inv
<1>2. d \in 1..Len(requests) /\ requests[d].seqID = d
  BY <1>1 DEF handlePrePrepare, NetworkInv, RequestInv
<1> DEFINE p == Put(height2Digest[n], d, d)
<1>3. height2Digest[n] \in Maps /\ height2Digest' = [height2Digest EXCEPT ![n] = p]
  BY <1>1, <1>2 DEF handlePrePrepare, TypeOK
<1>4. /\ p \in Maps
      /\ DOMAIN p = DOMAIN height2Digest[n] \cup {d}
      /\ \A x \in DOMAIN height2Digest[n] \cup {d} :
           p[x] = IF x = d THEN d ELSE height2Digest[n][x]
  BY <1>3, PutProps
<1>5. \A k \in Nodes : height2Digest'[k] = IF k = n THEN p ELSE height2Digest[k]
  BY <1>1, <1>3 DEF TypeOK
<1> HIDE DEF p
<1>6. /\ prepares' \in Counters
      /\ \A k \in Nodes, e \in Digests : prepares'[k][e] > 0 => prepares[k][e] > 0 \/ e = d
  <2>1. prepares \in Counters
    BY <1>1 DEF TypeOK, Counters
  <2>2. prepares' = prepares \/ prepares' = Broadcast(prepares, n, d)
    BY DEF handlePrePrepare
  <2> QED
    BY <2>1, <2>2, BroadcastProps
<1>7. TypeOK'
  <2>1. height2Digest' \in [Nodes -> Maps]
    BY <1>1, <1>3, <1>4 DEF TypeOK
  <2>2. /\ requestPool' \in [Nodes -> SUBSET Digests]
        /\ prePrepares' \in [Nodes -> SUBSET Digests]
    BY <1>1 DEF TypeOK, handlePrePrepare
  <2>3. prepares' \in [Nodes -> [Digests -> Nat]]
    BY <1>6 DEF Counters
  <2> QED
    BY <1>1, <2>1, <2>2, <2>3 DEF TypeOK, handlePrePrepare, votes, locks
<1>8. RequestInv'
  BY <1>1 DEF RequestInv, handlePrePrepare
<1>9. \A k \in Nodes : /\ requestPool[k] \subseteq requestPool'[k]
                       /\ requestPool'[k] \subseteq requestPool[k] \cup {d}
  BY <1>1 DEF TypeOK, handlePrePrepare
<1>10. ChainInv'
  BY <1>1, <1>9 DEF ChainInv, handlePrePrepare
<1>11. IndexInv'
  BY <1>1, <1>2, <1>4, <1>5 DEF IndexInv, handlePrePrepare
<1>12. LeaderInv'
  <2>1. DOMAIN height2Digest'[Leader] = 1..Len(requests)
    BY <1>1, <1>2, <1>4, <1>5, PbftAssumption DEF LeaderInv
  <2>2. requestPool'[Leader] = 1..Len(requests)
    BY <1>1, <1>2, <1>9, PbftAssumption DEF LeaderInv
  <2> QED
    BY <1>1, <2>1, <2>2 DEF LeaderInv, handlePrePrepare, votes, locks
<1>13. NetworkInv'
  <2>1. \A k \in Nodes : prePrepares'[k] \subseteq prePrepares[k]
    BY <1>1 DEF TypeOK, handlePrePrepare
  <2>2. UNCHANGED <<requests, commits>> /\ d <= Len(requests)
    BY <1>2 DEF handlePrePrepare
  <2> QED
    BY <1>1, <1>2, <1>6, <1>9, <2>1, <2>2 DEF NetworkInv
<1>14. CatchUpInv'
  BY <1>1, CatchUpKept DEF handlePrePrepare, votes, locks
<1>15. CountInv' /\ CommitCertificate'
  BY <1>1 DEF CountInv, Committers, CommitCertificate, Certified, handlePrePrepare, votes
<1> QED
  BY <1>7, <1>8, <1>10, <1>11, <1>12, <1>13, <1>14, <1>15 DEF Inv

\* handlePrepare counts; its Commit is one more for every other node to count.
LEMMA PrepareInv ==
  ASSUME Inv, NEW n \in Nodes, NEW d \in Digests, handlePrepare(n, d)
  PROVE  Inv'
<1>1. /\ TypeOK /\ RequestInv /\ ChainInv /\ IndexInv /\ LeaderInv
      /\ NetworkInv /\ CatchUpInv /\ CountInv /\ CommitCertificate
  BY DEF Inv
<1>2. d <= Len(requests)
  BY <1>1 DEF handlePrepare, NetworkInv
<1>3. /\ prepares' \in Counters
      /\ \A k \in Nodes, e \in Digests : prepares'[k][e] > 0 => prepares[k][e] > 0
  <2>1. prepares \in Counters /\ prepares[n][d] > 0
    BY <1>1 DEF TypeOK, Counters, handlePrepare
  <2>2. prepares' = Minus(prepares, n, d)
    BY DEF handlePrepare, Minus
  <2>3. \A k \in Nodes, e \in Digests : prepares[k][e] \in Nat
    BY <2>1 DEF Counters
  <2> QED
    BY <2>1, <2>2, <2>3, CounterProps
<1>4. cntPrepareConfirm' \in Counters
  <2>1. cntPrepareConfirm \in Counters
    BY <1>1 DEF TypeOK, Counters
  <2>2. \/ cntPrepareConfirm' = cntPrepareConfirm
        \/ cntPrepareConfirm' = Plus(cntPrepareConfirm, n, d)
    BY DEF handlePrepare, refusePrepare, acceptPrepare, Plus
  <2> QED
    BY <2>1, <2>2, CounterProps
<1>5. \/ UNCHANGED <<commits, isCommitBordcast>>
      \/ /\ commits' = Broadcast(commits, n, d)
         /\ d \notin isCommitBordcast[n]
         /\ isCommitBordcast' = [isCommitBordcast EXCEPT ![n] = @ \cup {d}]
  BY DEF handlePrepare, refusePrepare, acceptPrepare
<1>6. /\ commits' \in Counters
      /\ \A k \in Nodes, e \in Digests : commits'[k][e] > 0 => commits[k][e] > 0 \/ e = d
  <2>1. commits \in Counters
    BY <1>1 DEF TypeOK, Counters
  <2> QED
    BY <1>5, <2>1, BroadcastProps
<1>7. TypeOK'
  <2>1. isCommitBordcast' \in [Nodes -> SUBSET Digests]
    <3>1. isCommitBordcast \in [Nodes -> SUBSET Digests]
      BY <1>1 DEF TypeOK
    <3> QED
      BY <1>5, <3>1
  <2>2. /\ prepares' \in [Nodes -> [Digests -> Nat]]
        /\ commits' \in [Nodes -> [Digests -> Nat]]
        /\ cntPrepareConfirm' \in [Nodes -> [Digests -> Nat]]
    BY <1>3, <1>4, <1>6 DEF Counters
  <2> QED
    BY <1>1, <2>1, <2>2 DEF TypeOK, handlePrepare, stores, locks
<1>8. RequestInv' /\ ChainInv' /\ IndexInv'
  BY <1>1 DEF RequestInv, ChainInv, IndexInv, handlePrepare, stores
<1>9. LeaderInv'
  BY <1>1 DEF LeaderInv, handlePrepare, stores, locks
<1>10. NetworkInv'
  <2>1. UNCHANGED <<requests, requestPool, prePrepares>>
    BY DEF handlePrepare, stores
  <2> QED
    BY <1>1, <1>2, <1>3, <1>6, <2>1 DEF NetworkInv
<1>11. \A k \in Nodes : isCommitBordcast[k] \subseteq isCommitBordcast'[k]
  <2>1. isCommitBordcast \in [Nodes -> SUBSET Digests]
    BY <1>1 DEF TypeOK
  <2> QED
    BY <1>5, <2>1
<1>12. CatchUpInv'
  <2>1. UNCHANGED <<requests, requestOlds, sendOlds, chain, askForLock, isReply>>
    BY DEF handlePrepare, locks
  <2>2. \A k, start, end : Asked(k, start, end) => Asked(k, start, end)'
    BY <2>1, <1>11, CertifiedStep DEF Asked
  <2> QED
    BY <1>1, <2>1, <2>2 DEF CatchUpInv
<1>13. CountInv'
  <2> SUFFICES ASSUME NEW k \in Nodes, NEW e \in Digests
               PROVE  (cntCommitConfirm[k][e] + commits[k][e]
                        <= Cardinality(Committers(k, e)))'
    BY DEF CountInv
  <2>1. /\ cntCommitConfirm' = cntCommitConfirm
        /\ cntCommitConfirm[k][e] \in Nat /\ commits[k][e] \in Nat
        /\ cntCommitConfirm[k][e] + commits[k][e] <= Cardinality(Committers(k, e))
    BY <1>1 DEF handlePrepare, TypeOK, CountInv
  <2>2. CASE UNCHANGED <<commits, isCommitBordcast>>
    BY <2>1, <2>2 DEF Committers
  <2>3. CASE /\ commits' = Broadcast(commits, n, d)
             /\ d \notin isCommitBordcast[n]
             /\ isCommitBordcast' = [isCommitBordcast EXCEPT ![n] = @ \cup {d}]
    <3>1. commits'[k][e] = IF k = n \/ e # d THEN commits[k][e] ELSE commits[k][e] + 1
      <4>1. commits \in Counters
        BY <1>1 DEF TypeOK, Counters
      <4> QED
        BY <2>3, <4>1, BroadcastProps
    <3>2. \A m \in Nodes : isCommitBordcast'[m] =
            IF m = n THEN isCommitBordcast[m] \cup {d} ELSE isCommitBordcast[m]
      <4>1. isCommitBordcast \in [Nodes -> SUBSET Digests]
        BY <1>1 DEF TypeOK
      <4> QED
        BY <2>3, <4>1
    <3>3. CASE k = n \/ e # d
      <4>1. Committers(k, e)' = Committers(k, e)
        BY <3>2, <3>3 DEF Committers
      <4> QED
        BY <2>1, <3>1, <3>3, <4>1
    <3>4. CASE k # n /\ e = d
      <4>1. n \notin Committers(k, e) /\ Committers(k, e)' = Committers(k, e) \cup {n}
        <5>1. e \notin isCommitBordcast[n]
          BY <2>3, <3>4
        <5> QED
          BY <3>2, <3>4, <5>1 DEF Committers
      <4>2. Cardinality(Committers(k, e)') = Cardinality(Committers(k, e)) + 1
        BY <4>1, CommittersFinite, FS_AddElement
      <4>3. Cardinality(Committers(k, e)) \in Nat
        BY CommittersFinite
      <4> QED
        BY <2>1, <3>1, <3>4, <4>2, <4>3
    <3> QED
      BY <3>3, <3>4
  <2> QED
    BY <1>5, <2>2, <2>3
<1>14. CommitCertificate'
  BY <1>1, <1>11, CertifiedStep DEF CommitCertificate, handlePrepare
<1> QED
  BY <1>7, <1>8, <1>9, <1>10, <1>12, <1>13, <1>14 DEF Inv

\* What every branch of handleCommit does: the Commit moves from the network to
\* the node's count.
LEMMA CommitCommon ==
  ASSUME Inv, NEW n \in Nodes, NEW d \in Digests, handleCommit(n, d)
  PROVE  /\ d \in 1..Len(requests)
         /\ commits[n][d] > 0
         /\ commits' \in Counters /\ cntCommitConfirm' \in Counters
         /\ RequestInv' /\ IndexInv' /\ NetworkInv' /\ CountInv'
         /\ UNCHANGED <<requests, stores, cntPrepareConfirm, isCommitBordcast,
                        prePrepares, prepares, sendOlds, lost>>
<1>1. TypeOK /\ RequestInv /\ IndexInv /\ NetworkInv /\ CountInv
  BY DEF Inv
<1>2. UNCHANGED <<requests, stores, cntPrepareConfirm, isCommitBordcast,
                  prePrepares, prepares, sendOlds, lost>>
  BY DEF handleCommit
<1>3. commits[n][d] > 0 /\ d <= Len(requests) /\ d \in Nat /\ d >= 1 /\ Len(requests) \in Nat
  BY <1>1, PbftAssumption DEF handleCommit, NetworkInv, Digests, TypeOK
<1>4. commits \in Counters /\ cntCommitConfirm \in Counters
  BY <1>1 DEF TypeOK, Counters
<1>5. commits' = Minus(commits, n, d) /\ cntCommitConfirm' = Plus(cntCommitConfirm, n, d)
  BY DEF handleCommit, Minus, Plus
<1>6. commits' \in Counters /\ cntCommitConfirm' \in Counters
  BY <1>3, <1>4, <1>5, CounterProps
<1>7. \A k \in Nodes, e \in Digests :
        /\ commits'[k][e] = IF k = n /\ e = d THEN commits[k][e] - 1 ELSE commits[k][e]
        /\ cntCommitConfirm'[k][e] =
             IF k = n /\ e = d THEN cntCommitConfirm[k][e] + 1 ELSE cntCommitConfirm[k][e]
        /\ commits[k][e] \in Nat /\ cntCommitConfirm[k][e] \in Nat
  <2>1. \A k \in Nodes, e \in Digests :
          commits[k][e] \in Nat /\ cntCommitConfirm[k][e] \in Nat
    BY <1>4 DEF Counters
  <2> QED
    BY <1>4, <1>5, <2>1, CounterProps
<1>8. RequestInv' /\ IndexInv'
  BY <1>1, <1>2 DEF RequestInv, IndexInv, stores
<1>9. NetworkInv'
  <2>1. \A k \in Nodes, e \in Digests : commits'[k][e] > 0 => commits[k][e] > 0
    BY <1>7
  <2> QED
    BY <1>1, <1>2, <2>1 DEF NetworkInv, stores
<1>10. CountInv'
  <2> SUFFICES ASSUME NEW k \in Nodes, NEW e \in Digests
               PROVE  (cntCommitConfirm[k][e] + commits[k][e]
                        <= Cardinality(Committers(k, e)))'
    BY DEF CountInv
  <2>1. Committers(k, e)' = Committers(k, e)
    BY <1>2 DEF Committers
  <2>2. cntCommitConfirm[k][e] + commits[k][e] <= Cardinality(Committers(k, e))
    BY <1>1 DEF CountInv
  <2>3. cntCommitConfirm'[k][e] + commits'[k][e] = cntCommitConfirm[k][e] + commits[k][e]
    BY <1>7
  <2> QED
    BY <2>1, <2>2, <2>3
<1> QED
  BY <1>2, <1>3, <1>6, <1>8, <1>9, <1>10

\* A Commit that completes no quorum changes nothing but the count.
LEMMA CountCommitInv ==
  ASSUME Inv, NEW n \in Nodes, NEW d \in Digests, handleCommit(n, d), countCommit(n, d)
  PROVE  Inv'
<1>1. /\ TypeOK /\ ChainInv /\ LeaderInv /\ CatchUpInv /\ CommitCertificate
  BY DEF Inv
<1>2. /\ commits' \in Counters /\ cntCommitConfirm' \in Counters
      /\ RequestInv' /\ IndexInv' /\ NetworkInv' /\ CountInv'
  BY CommitCommon
<1>3. /\ UNCHANGED <<requests, stores, cntPrepareConfirm, isCommitBordcast,
                     prePrepares, prepares, sendOlds, lost>>
      /\ UNCHANGED <<sequenceID, chain, isReply, locks, requestOlds>>
  BY CommitCommon DEF countCommit
<1>4. TypeOK'
  BY <1>1, <1>2, <1>3 DEF TypeOK, Counters, stores, locks
<1>5. ChainInv' /\ LeaderInv'
  BY <1>1, <1>3 DEF ChainInv, LeaderInv, stores, locks
<1>6. CatchUpInv'
  BY <1>1, <1>3, CatchUpKept DEF locks
<1>7. CommitCertificate'
  BY <1>1, <1>3 DEF CommitCertificate, Certified
<1> QED
  BY <1>2, <1>4, <1>5, <1>6, <1>7 DEF Inv

\* The quorum executes a request the node holds: its chain grows by it or not at
\* all, and the main node executes the one request its lock is held for.
LEMMA ExecuteCommitInv ==
  ASSUME Inv, NEW n \in Nodes, NEW d \in Digests, handleCommit(n, d), executeCommit(n, d)
  PROVE  Inv'
<1>1. /\ TypeOK /\ RequestInv /\ ChainInv /\ LeaderInv /\ CatchUpInv /\ CountInv
      /\ CommitCertificate
  BY DEF Inv
<1>2. /\ d \in 1..Len(requests) /\ commits[n][d] > 0
      /\ commits' \in Counters /\ cntCommitConfirm' \in Counters
      /\ RequestInv' /\ IndexInv' /\ NetworkInv' /\ CountInv'
  BY CommitCommon
<1>3. /\ UNCHANGED <<requests, stores, cntPrepareConfirm, isCommitBordcast,
                     prePrepares, prepares, sendOlds, lost>>
      /\ UNCHANGED <<askForLock, hung, requestOlds>>
  BY CommitCommon DEF executeCommit
<1> DEFINE c == AddBlock(chain[n], d)
           L == Len(chain[n])
<1>4. /\ c \in Seq(Digests)
      /\ Len(c) = IF d = L + 1 THEN L + 1 ELSE L
      /\ \A i \in 1..Len(c) : c[i] = i
  BY <1>1, <1>2, AddBlockProps
<1>5. \A k \in Nodes : /\ chain'[k] = IF k = n THEN c ELSE chain[k]
                       /\ isReply'[k] = IF k = n THEN isReply[k] \cup {d} ELSE isReply[k]
                       /\ sequenceID'[k] = IF k = n THEN sequenceID[k] + 1 ELSE sequenceID[k]
  BY <1>1 DEF TypeOK, executeCommit
<1>6. L \in Nat /\ Len(requests) \in Nat /\ sequenceID[n] \in Nat /\ d \in Nat
  BY <1>1, PbftAssumption DEF TypeOK, Digests
<1>7. d \in requestPool[n] /\ d \notin isReply[n] /\ Certified(d)
  BY <1>1, <1>2, QuorumCertifies DEF executeCommit, quorumReached
<1>8. TypeOK'
  <2>1. chain' \in [Nodes -> Seq(Digests)]
    <3>1. chain' = [chain EXCEPT ![n] = c]
      BY DEF executeCommit
    <3> HIDE DEF c
    <3> QED
      BY <1>1, <1>4, <3>1 DEF TypeOK
  <2>2. isReply' \in [Nodes -> SUBSET Digests]
    BY <1>1 DEF TypeOK, executeCommit
  <2>3. sequenceID' \in [Nodes -> Nat]
    BY <1>1 DEF TypeOK, executeCommit
  <2>4. sequenceLock' \in BOOLEAN /\ fatal' \in BOOLEAN
    BY <1>1 DEF TypeOK, executeCommit, unlockSequence
  <2> QED
    BY <1>1, <1>2, <1>3, <2>1, <2>2, <2>3, <2>4 DEF TypeOK, Counters, stores
<1> HIDE DEF c
<1>9. ChainInv'
  <2> SUFFICES ASSUME NEW k \in Nodes
               PROVE  (/\ Len(chain[k]) <= Len(requests)
                       /\ \A i \in 1..Len(chain[k]) : chain[k][i] = i
                       /\ 1..Len(chain[k]) \subseteq requestPool[k]
                       /\ sequenceID[k] > Len(chain[k]))'
    BY DEF ChainInv
  <2>1. UNCHANGED <<requests, requestPool>>
    BY <1>3 DEF stores
  <2>2. CASE k # n
    BY <1>1, <1>5, <2>1, <2>2 DEF ChainInv
  <2>3. CASE k = n
    <3>1. /\ L <= Len(requests) /\ 1..L \subseteq requestPool[n] /\ sequenceID[n] > L
      BY <1>1 DEF ChainInv
    <3>2. Len(c) <= Len(requests) /\ sequenceID[n] + 1 > Len(c)
      BY <1>2, <1>4, <1>6, <3>1
    <3>3. 1..Len(c) \subseteq requestPool[n]
      BY <1>4, <1>6, <1>7, <3>1
    <3> QED
      BY <1>4, <1>5, <2>1, <2>3, <3>2, <3>3
  <2> QED
    BY <2>2, <2>3
<1>10. LeaderInv'
  <2>1. UNCHANGED <<requests, requestPool, height2Digest, askForLock>> /\ Leader \in Nodes
    BY <1>3, PbftAssumption DEF stores
  <2>2. CASE n # Leader
    <3>1. UNCHANGED <<sequenceLock, fatal>>
      BY <2>2 DEF executeCommit, unlockSequence
    <3> QED
      BY <1>1, <1>5, <2>1, <2>2, <3>1 DEF LeaderInv
  <2>3. CASE n = Leader
    <3>1. /\ isReply[n] = 1..L /\ sequenceID[n] = L + 1
          /\ Len(requests) = IF sequenceLock THEN L + 1 ELSE L
          /\ ~fatal
      BY <1>1, <2>3 DEF LeaderInv
    <3>2. sequenceLock /\ d = L + 1 /\ Len(requests) = L + 1
      BY <1>2, <1>6, <1>7, <3>1
    <3>3. ~sequenceLock' /\ ~fatal'
      BY <2>3, <3>1, <3>2 DEF executeCommit, unlockSequence
    <3>4. Len(c) = L + 1 /\ 1..L \cup {d} = 1..(L + 1)
      BY <1>4, <1>6, <3>2
    <3>5. /\ isReply'[Leader] = 1..Len(chain'[Leader])
          /\ sequenceID'[Leader] = Len(chain'[Leader]) + 1
          /\ Len(requests') = Len(chain'[Leader])
      BY <1>5, <2>1, <2>3, <3>1, <3>2, <3>4
    <3> QED
      BY <1>1, <2>1, <3>3, <3>5 DEF LeaderInv
  <2> QED
    BY <2>2, <2>3
<1>11. CatchUpInv'
  <2>1. UNCHANGED <<requests, requestOlds, sendOlds, askForLock, isCommitBordcast>>
    BY <1>3
  <2>2. ASSUME NEW k \in Nodes, NEW start, NEW end, Asked(k, start, end)
        PROVE  Asked(k, start, end)'
    <3>1. end \in isReply'[k]
      BY <1>5, <2>2 DEF Asked
    <3>2. end > Len(chain'[k])
      <4>1. end \in 1..Len(requests) /\ end > Len(chain[k]) /\ end \in isReply[k]
        BY <2>2 DEF Asked
      <4>2. CASE k # n
        BY <1>5, <4>1, <4>2
      <4>3. CASE k = n
        <5>1. end # d
          BY <1>7, <4>1, <4>3
        <5>2. end > L /\ end \in Nat
          BY <4>1, <4>3
        <5>3. chain'[n] = c
          BY <1>5
        <5>4. end > Len(c)
          BY <1>4, <1>6, <5>1, <5>2
        <5> QED
          BY <4>3, <5>3, <5>4
      <4> QED
        BY <4>2, <4>3
    <3>3. Certified(end)'
      BY <2>1, <2>2 DEF Asked, Certified
    <3> QED
      BY <2>1, <2>2, <3>1, <3>2, <3>3 DEF Asked
  <2>3. /\ \A m \in requestOlds : m.from \in Nodes
        /\ \A m \in sendOlds : m.to \in Nodes
    BY <1>1 DEF TypeOK, RequestOldMessages, SendOldMessages
  <2> QED
    BY <1>1, <2>1, <2>2, <2>3 DEF CatchUpInv
<1>12. CommitCertificate'
  <2> SUFFICES ASSUME NEW k \in Nodes, NEW i \in DOMAIN chain'[k],
                      NEW e, e = chain'[k][i]
               PROVE  Certified(e)
    BY <1>3 DEF CommitCertificate, Certified
  <2>1. CASE k # n
    BY <1>1, <1>5, <2>1 DEF CommitCertificate
  <2>2. CASE k = n
    <3>1. chain'[k] = c /\ DOMAIN c = 1..Len(c)
      <4>1. chain'[n] = c
        BY <1>5
      <4>2. DOMAIN c = 1..Len(c)
        BY <1>4
      <4> QED
        BY <2>2, <4>1, <4>2
    <3>2. i \in 1..Len(c) /\ e = i
      BY <1>4, <3>1
    <3>3. CASE i = d
      BY <1>7, <3>2, <3>3
    <3>4. CASE i # d
      <4>1. i \in 1..L
        BY <1>4, <1>6, <3>2, <3>4
      <4>2. chain[n] \in Seq(Digests) /\ \A j \in 1..L : chain[n][j] = j
        BY <1>1 DEF ChainInv, TypeOK
      <4>3. i \in DOMAIN chain[n] /\ chain[n][i] = i
        BY <4>1, <4>2
      <4> QED
        BY <1>1, <3>2, <4>3 DEF CommitCertificate
    <3> QED
      BY <3>3, <3>4
  <2> QED
    BY <2>1, <2>2
<1> QED
  BY <1>2, <1>8, <1>9, <1>10, <1>11, <1>12 DEF Inv

\* A node that lacks the request asks for the numbers up to it.  The main node
\* lacks none, and askForLock keeps a second question from being asked.
LEMMA AskForOldInv ==
  ASSUME Inv, NEW n \in Nodes, NEW d \in Digests, handleCommit(n, d), askForOld(n, d)
  PROVE  Inv'
<1>1. /\ TypeOK /\ RequestInv /\ ChainInv /\ LeaderInv /\ CatchUpInv /\ CountInv
      /\ CommitCertificate
  BY DEF Inv
<1>2. /\ d \in 1..Len(requests) /\ commits[n][d] > 0
      /\ commits' \in Counters /\ cntCommitConfirm' \in Counters
      /\ RequestInv' /\ IndexInv' /\ NetworkInv' /\ CountInv'
  BY CommitCommon
<1>3. /\ UNCHANGED <<requests, stores, cntPrepareConfirm, isCommitBordcast,
                     prePrepares, prepares, sendOlds, lost>>
      /\ UNCHANGED <<sequenceID, chain, hung>>
  BY CommitCommon DEF askForOld
<1>4. n # Leader
  BY <1>1, <1>2 DEF askForOld, LeaderInv
<1>5. UNCHANGED <<sequenceLock, fatal>>
  BY <1>4 DEF askForOld, unlockSequence
<1>6. \A k \in Nodes :
        /\ isReply'[k] = IF k = n THEN isReply[k] \cup {d} ELSE isReply[k]
        /\ askForLock'[k] = IF k = n THEN TRUE ELSE askForLock[k]
  BY <1>1 DEF TypeOK, askForOld
<1> DEFINE q == [from |-> n, start |-> sequenceID[n] + 1, end |-> d]
<1>7. requestOlds' = requestOlds \cup {q}
  BY <1>1, <1>2 DEF askForOld, RequestInv
<1>8. Len(chain[n]) \in Nat /\ sequenceID[n] \in Nat /\ d \in Nat /\ Len(requests) \in Nat
  BY <1>1, PbftAssumption DEF TypeOK, Digests
<1>9. d > Len(chain[n]) /\ sequenceID[n] + 1 > 1
  <2>1. d \notin 1..Len(chain[n]) /\ sequenceID[n] > Len(chain[n])
    BY <1>1 DEF ChainInv, askForOld
  <2> QED
    BY <1>2, <1>8, <2>1
<1>10. Certified(d)
  BY <1>1, <1>2, QuorumCertifies DEF askForOld
<1>11. TypeOK'
  <2>1. isReply' \in [Nodes -> SUBSET Digests]
    BY <1>1 DEF TypeOK, askForOld
  <2>2. askForLock' \in [Nodes -> BOOLEAN]
    BY <1>1 DEF TypeOK, askForOld
  <2>3. requestOlds' \subseteq RequestOldMessages
    BY <1>1, <1>7, <1>8 DEF TypeOK, RequestOldMessages
  <2> QED
    BY <1>1, <1>2, <1>3, <1>5, <2>1, <2>2, <2>3 DEF TypeOK, Counters, stores
<1>12. ChainInv' /\ CommitCertificate'
  BY <1>1, <1>3 DEF ChainInv, CommitCertificate, Certified, stores
<1>13. LeaderInv'
  <2>1. isReply'[Leader] = isReply[Leader] /\ askForLock'[Leader] = askForLock[Leader]
    BY <1>4, <1>6, PbftAssumption
  <2> QED
    BY <1>1, <1>3, <1>5, <2>1 DEF LeaderInv, stores
<1>14. CatchUpInv'
  <2>1. \A k \in Nodes : \A start, end : Asked(k, start, end) => Asked(k, start, end)'
    BY <1>3, <1>6 DEF Asked, Certified
  <2>2. ASSUME NEW start, start = sequenceID[n] + 1
        PROVE  Asked(n, start, d)'
    <3>1. askForLock'[n] /\ d \in isReply'[n]
      BY <1>6
    <3> QED
      BY <1>2, <1>3, <1>4, <1>9, <1>10, <2>2, <3>1 DEF Asked, Certified
  <2>3. /\ \A m \in requestOlds : m.from \in Nodes
        /\ \A m \in sendOlds : m.to \in Nodes
    BY <1>1 DEF TypeOK, RequestOldMessages, SendOldMessages
  <2>4. /\ \A m \in requestOlds : m.from # n
        /\ \A m \in sendOlds : m.to # n
    BY <1>1 DEF CatchUpInv, Asked, askForOld
  <2>5. q.from = n /\ q.start = sequenceID[n] + 1 /\ q.end = d
    OBVIOUS
  <2> HIDE DEF q
  <2>6. ASSUME NEW m \in requestOlds' PROVE Asked(m.from, m.start, m.end)'
    <3>1. CASE m = q
      BY <2>2, <2>5, <3>1
    <3>2. CASE m # q
      BY <1>1, <1>7, <2>1, <2>3, <3>2 DEF CatchUpInv
    <3> QED
      BY <3>1, <3>2
  <2>7. \A m1, m2 \in requestOlds' : m1.from = m2.from => m1 = m2
    BY <1>1, <1>7, <2>4, <2>5 DEF CatchUpInv
  <2>8. \A m1 \in requestOlds', m2 \in sendOlds : m1.from # m2.to
    BY <1>1, <1>7, <2>4, <2>5 DEF CatchUpInv
  <2>9. sendOlds' = sendOlds
    BY <1>3
  <2>10. \A m \in sendOlds : Asked(m.to, m.start, m.end)'
    BY <1>1, <2>1, <2>3 DEF CatchUpInv
  <2> QED
    BY <1>1, <2>6, <2>7, <2>8, <2>9, <2>10 DEF CatchUpInv
<1> QED
  BY <1>2, <1>11, <1>12, <1>13, <1>14 DEF Inv

\* A second question would wait for the lock for ever; it leaves the rest alone.
LEMMA WaitForAskForLockInv ==
  ASSUME Inv, NEW n \in Nodes, NEW d \in Digests, handleCommit(n, d),
         waitForAskForLock(n, d)
  PROVE  Inv'
<1>1. /\ TypeOK /\ ChainInv /\ LeaderInv /\ CatchUpInv /\ CommitCertificate
  BY DEF Inv
<1>2. /\ d \in 1..Len(requests)
      /\ commits' \in Counters /\ cntCommitConfirm' \in Counters
      /\ RequestInv' /\ IndexInv' /\ NetworkInv' /\ CountInv'
  BY CommitCommon
<1>3. /\ UNCHANGED <<requests, stores, cntPrepareConfirm, isCommitBordcast,
                     prePrepares, prepares, sendOlds, lost>>
      /\ UNCHANGED <<sequenceID, chain, sequenceLock, askForLock, fatal, requestOlds>>
  BY CommitCommon DEF waitForAskForLock
<1>4. n # Leader
  BY <1>1, <1>2 DEF waitForAskForLock, LeaderInv
<1>5. \A k \in Nodes : isReply'[k] = IF k = n THEN isReply[k] \cup {d} ELSE isReply[k]
  BY <1>1 DEF TypeOK, waitForAskForLock
<1>6. TypeOK'
  <2>1. isReply' \in [Nodes -> SUBSET Digests]
    BY <1>1 DEF TypeOK, waitForAskForLock
  <2>2. hung' \in [Nodes -> BOOLEAN]
    BY <1>1 DEF TypeOK, waitForAskForLock
  <2> QED
    BY <1>1, <1>2, <1>3, <2>1, <2>2 DEF TypeOK, Counters, stores
<1>7. ChainInv' /\ CommitCertificate'
  BY <1>1, <1>3 DEF ChainInv, CommitCertificate, Certified, stores
<1>8. LeaderInv'
  <2>1. isReply'[Leader] = isReply[Leader]
    BY <1>4, <1>5, PbftAssumption
  <2> QED
    BY <1>1, <1>3, <2>1 DEF LeaderInv, stores
<1>9. CatchUpInv'
  <2>1. \A k \in Nodes : \A start, end : Asked(k, start, end) => Asked(k, start, end)'
    BY <1>3, <1>5 DEF Asked, Certified
  <2>2. /\ \A m \in requestOlds : m.from \in Nodes
        /\ \A m \in sendOlds : m.to \in Nodes
    BY <1>1 DEF TypeOK, RequestOldMessages, SendOldMessages
  <2>3. UNCHANGED <<requestOlds, sendOlds>>
    BY <1>3
  <2> QED
    BY <1>1, <2>1, <2>2, <2>3 DEF CatchUpInv
<1> QED
  BY <1>2, <1>6, <1>7, <1>8, <1>9 DEF Inv

\* handleCommit, in all its branches.
LEMMA CommitInv ==
  ASSUME Inv, NEW n \in Nodes, NEW d \in Digests, handleCommit(n, d)
  PROVE  Inv'
<1>1. \/ countCommit(n, d) \/ executeCommit(n, d)
      \/ askForOld(n, d) \/ waitForAskForLock(n, d)
  BY DEF handleCommit
<1> QED
  BY <1>1, CountCommitInv, ExecuteCommitInv, AskForOldInv, WaitForAskForLockInv

\* The answer of the main node takes the place of the question.
LEMMA RequestOldInv ==
  ASSUME Inv, NEW m \in requestOlds, handleRequestOldSeq(m)
  PROVE  Inv'
<1>1. /\ TypeOK /\ RequestInv /\ ChainInv /\ IndexInv /\ LeaderInv
      /\ NetworkInv /\ CatchUpInv /\ CountInv /\ CommitCertificate
  BY DEF Inv
<1>2. UNCHANGED <<requests, sequenceID, chain, stores, votes, locks,
                  prePrepares, prepares, commits, lost>>
  BY DEF handleRequestOldSeq
<1>3. m.from \in Nodes /\ m.start \in Nat /\ m.end \in Nat
  BY <1>1 DEF TypeOK, RequestOldMessages
<1>4. Asked(m.from, m.start, m.end)
  BY <1>1 DEF CatchUpInv
<1> DEFINE r == oldRequests(m.start, m.end)
           a == [to |-> m.from, start |-> m.start, end |-> m.end, old |-> r]
<1>5. /\ r \in Seq(Digests)
      /\ Len(r) = IF m.start > m.end THEN 0 ELSE m.end - m.start + 1
      /\ \A i \in 1..Len(r) : r[i] = m.start + i - 1
  <2>1. m.start > 1 /\ m.end \in 1..Len(requests)
    BY <1>4 DEF Asked
  <2> QED
    BY <1>1, <1>3, <2>1, OldRequestsProps
<1>6. requestOlds' = requestOlds \ {m} /\ sendOlds' = sendOlds \cup {a}
  BY DEF handleRequestOldSeq
<1> HIDE DEF r
<1>7. /\ a \in SendOldMessages
      /\ a.to = m.from /\ a.start = m.start /\ a.end = m.end /\ a.old = r
  BY <1>3, <1>5 DEF SendOldMessages
<1> HIDE DEF a
<1>8. TypeOK'
  <2>1. requestOlds' \subseteq RequestOldMessages /\ sendOlds' \subseteq SendOldMessages
    BY <1>1, <1>6, <1>7 DEF TypeOK
  <2> QED
    BY <1>1, <1>2, <2>1 DEF TypeOK, stores, votes, locks
<1>9. RequestInv' /\ ChainInv' /\ IndexInv' /\ LeaderInv' /\ NetworkInv'
  BY <1>1, <1>2 DEF RequestInv, ChainInv, IndexInv, LeaderInv, NetworkInv,
                    stores, votes, locks
<1>10. CatchUpInv'
  <2>1. \A k, start, end : Asked(k, start, end) => Asked(k, start, end)'
    BY <1>2 DEF Asked, Certified, votes, locks
  <2>2. \A q \in requestOlds' : Asked(q.from, q.start, q.end)'
    BY <1>1, <1>6, <2>1 DEF CatchUpInv
  <2>3. ASSUME NEW q \in sendOlds'
        PROVE  /\ Asked(q.to, q.start, q.end)'
               /\ Len(q.old) = IF q.start > q.end THEN 0 ELSE q.end - q.start + 1
               /\ \A i \in 1..Len(q.old) : q.old[i] = q.start + i - 1
    <3>1. CASE q = a
      <4>1. Asked(q.to, q.start, q.end)'
        BY <1>4, <1>7, <2>1, <3>1
      <4> QED
        BY <1>5, <1>7, <3>1, <4>1
    <3>2. CASE q # a
      BY <1>1, <1>6, <2>1, <3>2 DEF CatchUpInv
    <3> QED
      BY <3>1, <3>2
  <2>4. /\ \A m1, m2 \in requestOlds' : m1.from = m2.from => m1 = m2
        /\ \A m1, m2 \in sendOlds' : m1.to = m2.to => m1 = m2
        /\ \A m1 \in requestOlds', m2 \in sendOlds' : m1.from # m2.to
    BY <1>1, <1>6, <1>7 DEF CatchUpInv
  <2> QED
    BY <2>2, <2>3, <2>4 DEF CatchUpInv
<1>11. CountInv' /\ CommitCertificate'
  BY <1>1, <1>2 DEF CountInv, Committers, CommitCertificate, Certified, votes
<1> QED
  BY <1>8, <1>9, <1>10, <1>11 DEF Inv

\* A request below the last one is in the main node's chain, hence certified.
LEMMA EarlierCertified ==
  ASSUME TypeOK, ChainInv, LeaderInv, CommitCertificate,
         NEW i \in 1..Len(requests), i < Len(requests)
  PROVE  Certified(i)
<1>1. Len(requests) \in Nat /\ chain[Leader] \in Seq(Digests) /\ Len(chain[Leader]) \in Nat
  BY PbftAssumption DEF TypeOK
<1>2. Len(requests) <= Len(chain[Leader]) + 1
  BY <1>1 DEF LeaderInv
<1>3. i \in DOMAIN chain[Leader] /\ chain[Leader][i] = i
  BY <1>1, <1>2, PbftAssumption DEF ChainInv
<1> QED
  BY <1>3, PbftAssumption DEF CommitCertificate

\* The requester gets blocks that extend its chain, or none, and moves past the
\* range; the blocks below the end of the range are in the main node's chain.
LEMMA SendOldInv ==
  ASSUME Inv, NEW m \in sendOlds, handleSendOldSeq(m)
  PROVE  Inv'
<1>1. /\ TypeOK /\ RequestInv /\ ChainInv /\ IndexInv /\ LeaderInv
      /\ NetworkInv /\ CatchUpInv /\ CountInv /\ CommitCertificate
  BY DEF Inv
<1> DEFINE n       == m.to
           K       == Len(requests)
           q       == m.old
           digests == {q[i] : i \in DOMAIN q}
           next    == m.end + 1
           pool    == requestPool[n] \cup digests
           index   == PutAll(height2Digest[n], m.start, q)
           c       == HandleforSequentialRequest(chain[n], m)
<1>2. /\ UNCHANGED <<requests, cntPrepareConfirm, cntCommitConfirm, isCommitBordcast,
                     sequenceLock, hung, prePrepares, commits, requestOlds, lost>>
      /\ sendOlds' = sendOlds \ {m}
      /\ chain' = [chain EXCEPT ![n] = c]
      /\ requestPool' = [requestPool EXCEPT ![n] = pool]
      /\ height2Digest' = [height2Digest EXCEPT ![n] = index]
      /\ isReply' = [isReply EXCEPT ![n] = isReply[n] \cup digests]
      /\ sequenceID' = [sequenceID EXCEPT ![n] = next]
      /\ askForLock' = [askForLock EXCEPT ![n] = FALSE]
      /\ fatal' = (fatal \/ ~askForLock[n])
      /\ prepares' = IF next \in DOMAIN index /\ index[next] \in pool
                        /\ IsValidBlock(c, index[next])
                       THEN Broadcast(prepares, n, index[next])
                       ELSE prepares
  BY <1>1 DEF handleSendOldSeq, sequenceAfter, freeAskForLock, TypeOK
<1>3. /\ n \in Nodes /\ m.start \in Nat /\ m.end \in Nat
      /\ q \in Seq(Digests) /\ Len(q) \in Nat /\ DOMAIN q = 1..Len(q)
      /\ K \in Nat /\ K <= MaxHeight
      /\ chain[n] \in Seq(Digests) /\ Len(chain[n]) \in Nat
  BY <1>1 DEF TypeOK, SendOldMessages
<1>4. /\ n # Leader /\ askForLock[n] /\ m.start > 1 /\ m.end \in 1..K
      /\ m.end > Len(chain[n]) /\ Certified(m.end)
      /\ Len(q) = IF m.start > m.end THEN 0 ELSE m.end - m.start + 1
      /\ \A i \in 1..Len(q) : q[i] = m.start + i - 1
  BY <1>1 DEF CatchUpInv, Asked
<1>5. digests \subseteq 1..K /\ digests \subseteq Digests
  <2>1. ASSUME NEW i \in 1..Len(q) PROVE q[i] \in 1..K
    <3>1. Len(q) = m.end - m.start + 1 /\ i \in Nat /\ i >= 1 /\ i <= Len(q)
      BY <1>3, <1>4
    <3>2. m.start + i - 1 \in 1..K
      BY <1>3, <1>4, <3>1
    <3> QED
      BY <1>4, <3>2
  <2> QED
    BY <1>3, <2>1
<1>6. /\ c \in Seq(Digests)
      /\ Len(c) = Len(chain[n]) \/ Len(c) = m.end
      /\ \A i \in 1..Len(c) : c[i] = i
      /\ \A i \in 1..Len(c) : i \in 1..Len(chain[n]) \/ \E j \in DOMAIN q : q[j] = i
  BY <1>1, CatchUpProps
<1> HIDE DEF c
<1>7. Len(c) \in Nat /\ Len(c) <= m.end /\ Len(c) <= K
  BY <1>3, <1>4, <1>6
<1>8. /\ index \in Maps
      /\ DOMAIN index \subseteq 1..K
      /\ \A x \in DOMAIN index : index[x] = x
  <2> DEFINE R == m.start..(m.start + Len(q) - 1)
  <2>1. R \subseteq 1..K /\ R \subseteq Digests
    <3>1. CASE m.start > m.end
      BY <1>3, <1>4, <3>1
    <3>2. CASE ~(m.start > m.end)
      <4>1. R = m.start..m.end
        BY <1>3, <1>4, <3>2
      <4>2. m.end <= K /\ m.start >= 1 /\ MaxHeight \in Nat
        BY <1>3, <1>4, PbftAssumption
      <4>3. \A x \in m.start..m.end : x \in 1..K /\ x \in 1..MaxHeight
        <5> HIDE DEF K
        <5> QED
          BY <1>3, <4>2
      <4> QED
        BY <4>1, <4>3 DEF Digests
    <3> QED
      BY <3>1, <3>2
  <2>2. height2Digest[n] \in Maps
    BY <1>1, <1>3 DEF TypeOK
  <2>3. /\ index \in Maps
        /\ DOMAIN index = DOMAIN height2Digest[n] \cup R
        /\ \A x \in DOMAIN height2Digest[n] \cup R :
             index[x] = IF x >= m.start /\ x < m.start + Len(q)
                          THEN q[x - m.start + 1] ELSE height2Digest[n][x]
    BY <1>3, <2>1, <2>2, PutAllProps
  <2>4. DOMAIN height2Digest[n] \subseteq 1..K
    BY <1>1, <1>3 DEF IndexInv
  <2>5. ASSUME NEW x \in DOMAIN index PROVE index[x] = x
    <3>1. x \in 1..K
      BY <2>1, <2>3, <2>4
    <3>2. CASE x >= m.start /\ x < m.start + Len(q)
      <4>1. x - m.start + 1 \in 1..Len(q)
        BY <1>3, <3>1, <3>2
      <4>2. q[x - m.start + 1] = m.start + (x - m.start + 1) - 1
        BY <1>4, <4>1
      <4>3. m.start + (x - m.start + 1) - 1 = x
        BY <1>3, <3>1
      <4>4. index[x] = q[x - m.start + 1]
        BY <2>3, <2>5, <3>2
      <4> QED
        BY <4>2, <4>3, <4>4
    <3>3. CASE ~(x >= m.start /\ x < m.start + Len(q))
      <4>1. x \notin R
        BY <1>3, <3>1, <3>3
      <4>2. x \in DOMAIN height2Digest[n] /\ index[x] = height2Digest[n][x]
        BY <2>3, <2>5, <3>3, <4>1
      <4> QED
        BY <1>1, <1>3, <4>2 DEF IndexInv
    <3> QED
      BY <3>2, <3>3
  <2> QED
    BY <2>1, <2>3, <2>4, <2>5
<1> HIDE DEF index, digests
<1>9. /\ prepares' \in Counters
      /\ \A k \in Nodes, e \in Digests : prepares'[k][e] > 0 => prepares[k][e] > 0 \/ e <= K
  <2>1. prepares \in Counters
    BY <1>1 DEF TypeOK, Counters
  <2>2. CASE prepares' = prepares
    BY <2>1, <2>2
  <2>3. CASE prepares' # prepares
    <3>1. next \in DOMAIN index /\ prepares' = Broadcast(prepares, n, index[next])
      BY <1>2, <2>3
    <3>2. next \in 1..K /\ index[next] = next
      BY <1>8, <3>1
    <3>3. next \in Digests /\ next <= K
      BY <1>3, <3>2, PbftAssumption DEF Digests
    <3>4. prepares' = Broadcast(prepares, n, next)
      BY <3>1, <3>2
    <3> HIDE DEF next
    <3>5. /\ prepares' \in Counters
          /\ \A k \in Nodes, e \in Digests :
               prepares'[k][e] = IF k = n \/ e # next THEN prepares[k][e]
                                                      ELSE prepares[k][e] + 1
      BY <1>3, <2>1, <3>3, <3>4, BroadcastProps
    <3> QED
      BY <3>3, <3>5
  <2> QED
    BY <2>2, <2>3
<1>10. \A k \in Nodes : k # n =>
         /\ chain'[k] = chain[k] /\ requestPool'[k] = requestPool[k]
         /\ height2Digest'[k] = height2Digest[k] /\ isReply'[k] = isReply[k]
         /\ sequenceID'[k] = sequenceID[k] /\ askForLock'[k] = askForLock[k]
  BY <1>1, <1>2 DEF TypeOK
<1>11. /\ chain'[n] = c /\ requestPool'[n] = pool /\ height2Digest'[n] = index
       /\ sequenceID'[n] = next
  BY <1>1, <1>2, <1>3 DEF TypeOK
<1>12. TypeOK'
  <2>1. chain' \in [Nodes -> Seq(Digests)]
    BY <1>1, <1>2, <1>6 DEF TypeOK
  <2>2. requestPool' \in [Nodes -> SUBSET Digests] /\ isReply' \in [Nodes -> SUBSET Digests]
    BY <1>1, <1>2, <1>3, <1>5 DEF TypeOK
  <2>3. height2Digest' \in [Nodes -> Maps]
    BY <1>1, <1>2, <1>8 DEF TypeOK
  <2>4. sequenceID' \in [Nodes -> Nat]
    BY <1>1, <1>2, <1>3 DEF TypeOK
  <2>5. askForLock' \in [Nodes -> BOOLEAN]
    BY <1>1, <1>2 DEF TypeOK
  <2>6. fatal' \in BOOLEAN
    BY <1>2
  <2>7. sendOlds' \subseteq SendOldMessages
    BY <1>1, <1>2 DEF TypeOK
  <2> QED
    BY <1>1, <1>2, <1>9, <2>1, <2>2, <2>3, <2>4, <2>5, <2>6, <2>7 DEF TypeOK, Counters
<1>13. RequestInv'
  BY <1>1, <1>2 DEF RequestInv
<1>14. ChainInv'
  <2> SUFFICES ASSUME NEW k \in Nodes
               PROVE  (/\ Len(chain[k]) <= Len(requests)
                       /\ \A i \in 1..Len(chain[k]) : chain[k][i] = i
                       /\ 1..Len(chain[k]) \subseteq requestPool[k]
                       /\ sequenceID[k] > Len(chain[k]))'
    BY DEF ChainInv
  <2>1. CASE k # n
    BY <1>1, <1>2, <1>10, <2>1 DEF ChainInv
  <2>2. CASE k = n
    <3>1. 1..Len(c) \subseteq pool
      <4>1. 1..Len(chain[n]) \subseteq requestPool[n]
        BY <1>1, <1>3 DEF ChainInv
      <4>2. \A j \in DOMAIN q : q[j] \in digests
        BY DEF digests
      <4> QED
        BY <1>6, <4>1, <4>2
    <3>2. next > Len(c)
      BY <1>3, <1>7
    <3>3. requests' = requests
      BY <1>2
    <3> HIDE DEF pool, next
    <3> QED
      BY <1>6, <1>7, <1>11, <2>2, <3>1, <3>2, <3>3
  <2> QED
    BY <2>1, <2>2
<1>15. IndexInv'
  <2>1. requests' = requests
    BY <1>2
  <2> QED
    BY <1>1, <1>8, <1>10, <1>11, <2>1 DEF IndexInv
<1>16. LeaderInv'
  <2>1. /\ chain'[Leader] = chain[Leader] /\ requestPool'[Leader] = requestPool[Leader]
        /\ height2Digest'[Leader] = height2Digest[Leader]
        /\ isReply'[Leader] = isReply[Leader] /\ sequenceID'[Leader] = sequenceID[Leader]
        /\ askForLock'[Leader] = askForLock[Leader]
    BY <1>4, <1>10, PbftAssumption
  <2>2. ~fatal'
    BY <1>1, <1>2, <1>4 DEF LeaderInv
  <2>3. UNCHANGED <<requests, sequenceLock>>
    BY <1>2
  <2> QED
    BY <1>1, <2>1, <2>2, <2>3 DEF LeaderInv
<1>17. NetworkInv'
  <2>1. \A k \in Nodes : requestPool'[k] \subseteq 1..K
    BY <1>1, <1>5, <1>10, <1>11 DEF NetworkInv
  <2>2. UNCHANGED <<requests, prePrepares, commits>>
    BY <1>2
  <2> QED
    BY <1>1, <1>9, <2>1, <2>2 DEF NetworkInv
<1>18. CatchUpInv'
  <2>1. UNCHANGED <<requests, requestOlds, isCommitBordcast>>
    BY <1>2
  <2>2. \A k \in Nodes : \A start, end :
          k # n /\ Asked(k, start, end) => Asked(k, start, end)'
    BY <1>10, <2>1 DEF Asked, Certified
  <2>3. /\ \A r \in requestOlds : r.from \in Nodes /\ r.from # n
        /\ \A r \in sendOlds' : r.to \in Nodes /\ r.to # n
    BY <1>1, <1>2 DEF TypeOK, RequestOldMessages, SendOldMessages, CatchUpInv
  <2>4. sendOlds' \subseteq sendOlds
    BY <1>2
  <2>5. \A r \in requestOlds : Asked(r.from, r.start, r.end)'
    BY <1>1, <2>2, <2>3 DEF CatchUpInv
  <2>6. \A r \in sendOlds' : Asked(r.to, r.start, r.end)'
    BY <1>1, <2>2, <2>3, <2>4 DEF CatchUpInv
  <2> QED
    BY <1>1, <2>1, <2>4, <2>5, <2>6 DEF CatchUpInv
<1>19. CountInv'
  BY <1>1, <1>2 DEF CountInv, Committers
<1>20. CommitCertificate'
  <2> SUFFICES ASSUME NEW k \in Nodes, NEW i \in DOMAIN chain'[k],
                      NEW e, e = chain'[k][i]
               PROVE  Certified(e)
    BY <1>2 DEF CommitCertificate, Certified
  <2>1. CASE k # n
    BY <1>1, <1>10, <2>1 DEF CommitCertificate
  <2>2. CASE k = n
    <3>1. chain'[k] = c /\ DOMAIN c = 1..Len(c)
      BY <1>6, <1>11, <2>2
    <3>2. i \in 1..m.end /\ e = i
      BY <1>3, <1>6, <1>7, <3>1
    <3>3. CASE i = m.end
      BY <1>4, <3>2, <3>3
    <3>4. CASE i # m.end
      <4>1. i \in 1..K /\ i < K
        BY <1>3, <1>4, <3>2, <3>4
      <4> QED
        BY <1>1, <3>2, <4>1, EarlierCertified
    <3> QED
      BY <3>3, <3>4
  <2> QED
    BY <2>1, <2>2
<1> QED
  BY <1>12, <1>13, <1>14, <1>15, <1>16, <1>17, <1>18, <1>19, <1>20 DEF Inv

\* A message that is lost takes nothing from what is known about the others.
LEMMA LossInv == Inv /\ TcpDialFails => Inv'
<1> SUFFICES ASSUME Inv, TcpDialFails PROVE Inv'
  OBVIOUS
<1>1. /\ TypeOK /\ RequestInv /\ ChainInv /\ IndexInv /\ LeaderInv
      /\ NetworkInv /\ CatchUpInv /\ CountInv /\ CommitCertificate
  BY DEF Inv
<1>2. UNCHANGED <<requests, sequenceID, chain, stores, votes, locks>>
  BY DEF TcpDialFails
<1>3. /\ prePrepares' \in [Nodes -> SUBSET Digests]
      /\ \A k \in Nodes : prePrepares'[k] \subseteq prePrepares[k]
  <2>1. prePrepares \in [Nodes -> SUBSET Digests]
    BY <1>1 DEF TypeOK
  <2>2. \/ prePrepares' = prePrepares
        \/ \E n \in Nodes, d \in Digests :
             prePrepares' = [prePrepares EXCEPT ![n] = prePrepares[n] \ {d}]
    BY <2>1 DEF TcpDialFails
  <2> QED
    BY <2>1, <2>2
<1>4. /\ prepares' \in Counters
      /\ \A k \in Nodes, e \in Digests : prepares'[k][e] > 0 => prepares[k][e] > 0
  <2>1. prepares \in Counters /\ \A k \in Nodes, e \in Digests : prepares[k][e] \in Nat
    BY <1>1 DEF TypeOK, Counters
  <2>2. \/ prepares' = prepares
        \/ \E n \in Nodes, d \in Digests :
             prepares[n][d] > 0 /\ prepares' = Minus(prepares, n, d)
    BY DEF TcpDialFails, Minus
  <2> QED
    BY <2>1, <2>2, CounterProps
<1>5. /\ commits' \in Counters
      /\ \A k \in Nodes, e \in Digests : /\ commits'[k][e] > 0 => commits[k][e] > 0
                                         /\ commits'[k][e] <= commits[k][e]
  <2>1. commits \in Counters /\ \A k \in Nodes, e \in Digests : commits[k][e] \in Nat
    BY <1>1 DEF TypeOK, Counters
  <2>2. \/ commits' = commits
        \/ \E n \in Nodes, d \in Digests :
             commits[n][d] > 0 /\ commits' = Minus(commits, n, d)
    BY DEF TcpDialFails, Minus
  <2> QED
    BY <2>1, <2>2, CounterProps
<1>6. requestOlds' \subseteq requestOlds /\ sendOlds' \subseteq sendOlds
  BY DEF TcpDialFails
<1>7. TypeOK'
  <2>1. lost' \in 0..MaxLoss
    BY <1>1, PbftAssumption DEF TcpDialFails, TypeOK
  <2> QED
    BY <1>1, <1>2, <1>3, <1>4, <1>5, <1>6, <2>1 DEF TypeOK, Counters, stores, votes, locks
<1>8. RequestInv' /\ ChainInv' /\ IndexInv' /\ LeaderInv'
  BY <1>1, <1>2 DEF RequestInv, ChainInv, IndexInv, LeaderInv, stores, votes, locks
<1>9. NetworkInv'
  BY <1>1, <1>2, <1>3, <1>4, <1>5 DEF NetworkInv, stores
<1>10. CatchUpInv'
  BY <1>1, <1>2, <1>6, CatchUpKept DEF votes, locks
<1>11. CountInv'
  <2> SUFFICES ASSUME NEW k \in Nodes, NEW e \in Digests
               PROVE  (cntCommitConfirm[k][e] + commits[k][e]
                        <= Cardinality(Committers(k, e)))'
    BY DEF CountInv
  <2>1. UNCHANGED <<cntCommitConfirm, isCommitBordcast>>
    BY <1>2 DEF votes
  <2>2. Committers(k, e)' = Committers(k, e) /\ Cardinality(Committers(k, e)) \in Nat
    BY <2>1, CommittersFinite DEF Committers
  <2>3. /\ cntCommitConfirm[k][e] \in Nat /\ commits[k][e] \in Nat /\ commits'[k][e] \in Nat
        /\ commits'[k][e] <= commits[k][e]
        /\ cntCommitConfirm[k][e] + commits[k][e] <= Cardinality(Committers(k, e))
    BY <1>1, <1>5 DEF TypeOK, Counters, CountInv
  <2> QED
    BY <2>1, <2>2, <2>3
<1>12. CommitCertificate'
  BY <1>1, <1>2 DEF CommitCertificate, Certified, votes
<1> QED
  BY <1>7, <1>8, <1>9, <1>10, <1>11, <1>12 DEF Inv

\* Every step of the shard preserves the invariant.
LEMMA NextInv == Inv /\ [Next]_vars => Inv'
<1> SUFFICES ASSUME Inv, [Next]_vars PROVE Inv'
  OBVIOUS
<1>1. CASE Propose
  BY <1>1, ProposeInv
<1>2. CASE \E n \in Nodes, d \in Digests : handlePrePrepare(n, d)
  BY <1>2, PrePrepareInv
<1>3. CASE \E n \in Nodes, d \in Digests : handlePrepare(n, d)
  BY <1>3, PrepareInv
<1>4. CASE \E n \in Nodes, d \in Digests : handleCommit(n, d)
  BY <1>4, CommitInv
<1>5. CASE \E m \in requestOlds : handleRequestOldSeq(m)
  BY <1>5, RequestOldInv
<1>6. CASE \E m \in sendOlds : handleSendOldSeq(m)
  BY <1>6, SendOldInv
<1>7. CASE TcpDialFails
  BY <1>7, LossInv
<1>8. CASE UNCHANGED vars
  <2>1. /\ TypeOK /\ RequestInv /\ ChainInv /\ IndexInv /\ LeaderInv
        /\ NetworkInv /\ CatchUpInv /\ CountInv /\ CommitCertificate
    BY DEF Inv
  <2>2. TypeOK'
    BY <1>8, <2>1 DEF TypeOK, vars, stores, votes, locks, network
  <2>3. RequestInv' /\ ChainInv' /\ IndexInv' /\ LeaderInv' /\ NetworkInv'
    BY <1>8, <2>1 DEF RequestInv, ChainInv, IndexInv, LeaderInv, NetworkInv,
                      vars, stores, votes, locks, network
  <2>4. CatchUpInv'
    BY <1>8, <2>1, CatchUpKept DEF vars, votes, locks, network
  <2>5. CountInv' /\ CommitCertificate'
    BY <1>8, <2>1 DEF CountInv, Committers, CommitCertificate, Certified,
                      vars, votes, network
  <2> QED
    BY <2>2, <2>3, <2>4, <2>5 DEF Inv
<1> QED
  BY <1>1, <1>2, <1>3, <1>4, <1>5, <1>6, <1>7, <1>8 DEF Next

-----------------------------------------------------------------------------
(***************************************************************************)
(* What holds of every shard.                                              *)
(***************************************************************************)

\* Inv holds in every state of every shard: the conjunction from which the safety
\* properties of the handlers of messageHandle.go follow.
THEOREM Invariance == Spec => []Inv
<1>1. Init => Inv
  BY InitInv
<1>2. Inv /\ [Next]_vars => Inv'
  BY NextInv
<1> QED
  BY <1>1, <1>2, PTL DEF Spec

\* The state keeps its types; height2Digest never binds a number not proposed.
THEOREM TypeCorrect == Spec => []TypeOK
<1>1. Inv => TypeOK
  BY DEF Inv
<1> QED
  BY <1>1, Invariance, PTL

\* "all node in the shard maintain the same blockchain" (pbft.go:31): the blocks two
\* nodes have at a height are the same, for every shard size and any losses.
THEOREM Agreement == Spec => []ChainAgreement
<1>1. Inv => ChainAgreement
  <2> SUFFICES ASSUME Inv, NEW m \in Nodes, NEW n \in Nodes,
                      NEW i \in DOMAIN chain[m] \cap DOMAIN chain[n]
               PROVE  chain[m][i] = chain[n][i]
    BY DEF ChainAgreement
  <2>1. chain[m] \in Seq(Digests) /\ chain[n] \in Seq(Digests)
    BY DEF Inv, TypeOK
  <2>2. i \in 1..Len(chain[m]) /\ i \in 1..Len(chain[n])
    BY <2>1
  <2>3. chain[m][i] = i /\ chain[n][i] = i
    BY <2>2 DEF Inv, ChainInv
  <2> QED
    BY <2>3
<1> QED
  BY <1>1, Invariance, PTL

\* Every block of a chain names the one below it as its parent, although AddBlock
\* (blockchain.go:252) compares block numbers only.
THEOREM Linked == Spec => []ChainLinked
<1>1. Inv => ChainLinked
  <2> SUFFICES ASSUME Inv, NEW n \in Nodes, NEW i \in DOMAIN chain[n]
               PROVE  requests[chain[n][i]].parent = IF i = 1 THEN 0 ELSE chain[n][i - 1]
    BY DEF ChainLinked
  <2>1. /\ chain[n] \in Seq(Digests) /\ Len(chain[n]) \in Nat /\ Len(requests) \in Nat
        /\ Len(chain[n]) <= Len(requests)
        /\ \A j \in 1..Len(chain[n]) : chain[n][j] = j
    <3>1. TypeOK /\ ChainInv
      BY DEF Inv
    <3>2. chain[n] \in Seq(Digests) /\ requests \in Seq(Requests)
      BY <3>1 DEF TypeOK
    <3> QED
      BY <3>1, <3>2 DEF ChainInv
  <2>2. i \in 1..Len(chain[n]) /\ i \in 1..Len(requests)
    BY <2>1
  <2>3. chain[n][i] = i /\ requests[i].parent = i - 1
    BY <2>1, <2>2 DEF Inv, RequestInv
  <2>4. CASE i = 1
    BY <2>3, <2>4
  <2>5. CASE i # 1
    <3>1. i - 1 \in 1..Len(chain[n])
      BY <2>1, <2>2, <2>5
    <3> QED
      BY <2>1, <2>3, <2>5, <3>1
  <2> QED
    BY <2>4, <2>5
<1> QED
  BY <1>1, Invariance, PTL

\* No node executes, or copies while catching up, a block that fewer than 2f nodes
\* broadcast a Commit for (handleCommit's required_cnt).
\* The threshold is lower than the 2f + 1 Commits of the log line at messageHandle.go:211.
THEOREM Certification == Spec => []CommitCertificate
<1>1. Inv => CommitCertificate
  BY DEF Inv
<1> QED
  BY <1>1, Invariance, PTL

\* sequenceLock is held exactly while one request is not executed, and neither
\* sequenceLock nor askForLock is unlocked while it is free.
THEOREM Locking == Spec => []LockDiscipline
<1>1. Inv => LockDiscipline
  <2> SUFFICES ASSUME Inv PROVE LockDiscipline
    OBVIOUS
  <2>1. /\ Len(requests) = (IF sequenceLock THEN Len(chain[Leader]) + 1
                                            ELSE Len(chain[Leader]))
        /\ ~fatal /\ Len(chain[Leader]) \in Nat
    BY PbftAssumption DEF Inv, LeaderInv, TypeOK
  <2>2. Len(chain[Leader]) + 1 # Len(chain[Leader])
    BY <2>1
  <2> QED
    BY <2>1, <2>2 DEF LockDiscipline
<1> QED
  BY <1>1, Invariance, PTL

\* A node's sequenceID is beyond its chain; the main node's is the next one.
THEOREM Sequencing == Spec => []SequenceAhead
<1>1. Inv => SequenceAhead
  BY DEF Inv, ChainInv, LeaderInv, SequenceAhead
<1> QED
  BY <1>1, Invariance, PTL

\* handleRequestOldSeq answers with the blocks of the heights asked for, in order.
THEOREM OldOrder == Spec => []OldInOrder
<1>1. Inv => OldInOrder
  <2> SUFFICES ASSUME Inv, NEW m \in sendOlds, NEW i \in DOMAIN m.old
               PROVE  /\ m.old[i] \in DOMAIN requests
                      /\ requests[m.old[i]].number = m.start + i - 1
    BY DEF OldInOrder
  <2>1. /\ m.start \in Nat /\ m.end \in Nat /\ m.old \in Seq(Digests)
        /\ Len(m.old) \in Nat /\ requests \in Seq(Requests) /\ Len(requests) \in Nat
    <3>1. m \in SendOldMessages /\ requests \in Seq(Requests)
      BY DEF Inv, TypeOK
    <3> QED
      BY <3>1 DEF SendOldMessages
  <2>2. /\ Len(m.old) = (IF m.start > m.end THEN 0 ELSE m.end - m.start + 1)
        /\ m.start > 1 /\ m.end \in 1..Len(requests)
        /\ \A j \in 1..Len(m.old) : m.old[j] = m.start + j - 1
    BY DEF Inv, CatchUpInv, Asked
  <2>3. i \in 1..Len(m.old) /\ m.old[i] = m.start + i - 1
    BY <2>1, <2>2
  <2>4. m.start + i - 1 \in 1..Len(requests)
    <3>1. Len(m.old) = m.end - m.start + 1 /\ i \in Nat /\ i >= 1 /\ i <= Len(m.old)
      BY <2>1, <2>2, <2>3
    <3> QED
      BY <2>1, <2>2, <3>1
  <2>5. requests[m.start + i - 1].number = m.start + i - 1
    BY <2>4 DEF Inv, RequestInv
  <2>6. DOMAIN requests = 1..Len(requests)
    BY <2>1
  <2> QED
    BY <2>3, <2>4, <2>5, <2>6
<1> QED
  BY <1>1, Invariance, PTL

-----------------------------------------------------------------------------
(***************************************************************************)
(* The shard implements the replicated ledger of module ShardLedger.       *)
(***************************************************************************)

\* A chain that is 1, 2, ..., k is determined by k.
LEMMA SameBlocks ==
  ASSUME NEW c \in Seq(Digests), NEW b \in Seq(Digests), Len(c) = Len(b),
         \A i \in 1..Len(c) : c[i] = i, \A i \in 1..Len(b) : b[i] = i
  PROVE  c = b
OBVIOUS

\* How one step changes the chains: not at all, or the chain of one node grows to
\* a longer initial segment of the requests, which stay the same.
Grows(n) ==
  /\ requests' = requests
  /\ Len(chain'[n]) > Len(chain[n])
  /\ chain' = [chain EXCEPT ![n] = chain'[n]]

LEMMA ChainStep ==
  ASSUME Inv, [Next]_vars
  PROVE  chain' = chain \/ \E n \in Nodes : Grows(n)
<1>1. /\ TypeOK /\ RequestInv /\ ChainInv /\ CatchUpInv
  BY DEF Inv
<1>2. Inv'
  BY NextInv
<1>3. ASSUME NEW n \in Nodes, NEW c, requests' = requests,
             chain' = [chain EXCEPT ![n] = c], Len(c) >= Len(chain[n])
      PROVE  chain' = chain \/ Grows(n)
  <2>1. chain \in [Nodes -> Seq(Digests)] /\ chain'[n] = c
    BY <1>1, <1>3 DEF TypeOK
  <2>2. c \in Seq(Digests) /\ \A i \in 1..Len(c) : c[i] = i
    <3>1. chain'[n] \in Seq(Digests) /\ \A i \in 1..Len(chain'[n]) : chain'[n][i] = i
      BY <1>2 DEF Inv, TypeOK, ChainInv
    <3> QED
      BY <2>1, <3>1
  <2>3. chain[n] \in Seq(Digests) /\ \A i \in 1..Len(chain[n]) : chain[n][i] = i
    BY <1>1 DEF TypeOK, ChainInv
  <2>4. CASE Len(c) = Len(chain[n])
    <3>1. c = chain[n]
      BY <2>2, <2>3, <2>4, SameBlocks
    <3> QED
      BY <1>3, <2>1, <3>1
  <2>5. CASE Len(c) # Len(chain[n])
    <3>1. Len(c) > Len(chain[n])
      BY <1>3, <2>2, <2>3, <2>5
    <3> QED
      BY <1>3, <2>1, <3>1 DEF Grows
  <2> QED
    BY <2>4, <2>5
<1>4. CASE \E n \in Nodes, d \in Digests : handleCommit(n, d)
  <2>1. PICK n \in Nodes, d \in Digests : handleCommit(n, d)
    BY <1>4
  <2>2. CASE executeCommit(n, d)
    <3> DEFINE c == AddBlock(chain[n], d)
    <3>1. chain' = [chain EXCEPT ![n] = c] /\ requests' = requests
      BY <2>1, <2>2 DEF executeCommit, handleCommit
    <3>2. d \in 1..Len(requests)
      BY <2>1, CommitCommon
    <3>3. Len(c) = IF d = Len(chain[n]) + 1 THEN Len(chain[n]) + 1 ELSE Len(chain[n])
      BY <1>1, <3>2, AddBlockProps
    <3> HIDE DEF c
    <3>4. Len(chain[n]) \in Nat
      BY <1>1 DEF TypeOK
    <3>5. Len(c) >= Len(chain[n])
      BY <3>3, <3>4
    <3> QED
      BY <1>3, <3>1, <3>5
  <2>3. CASE ~executeCommit(n, d)
    BY <2>1, <2>3 DEF handleCommit, countCommit, askForOld, waitForAskForLock
  <2> QED
    BY <2>2, <2>3
<1>5. CASE \E m \in sendOlds : handleSendOldSeq(m)
  <2>1. PICK m \in sendOlds : handleSendOldSeq(m)
    BY <1>5
  <2> DEFINE c == HandleforSequentialRequest(chain[m.to], m)
  <2>2. chain' = [chain EXCEPT ![m.to] = c] /\ requests' = requests /\ m.to \in Nodes
    BY <1>1, <2>1 DEF handleSendOldSeq, TypeOK, SendOldMessages
  <2>3. Len(c) = Len(chain[m.to]) \/ Len(c) = m.end
    BY <1>1, CatchUpProps
  <2> HIDE DEF c
  <2>4. m.end > Len(chain[m.to]) /\ m.end \in 1..Len(requests) /\ Len(chain[m.to]) \in Nat
    BY <1>1, <2>2 DEF CatchUpInv, Asked, TypeOK
  <2>5. Len(c) >= Len(chain[m.to])
    BY <2>3, <2>4
  <2> QED
    BY <1>3, <2>2, <2>5
<1>6. CASE /\ ~\E n \in Nodes, d \in Digests : handleCommit(n, d)
           /\ ~\E m \in sendOlds : handleSendOldSeq(m)
  BY <1>6 DEF Next, vars, Propose, handlePrePrepare, handlePrepare, handleRequestOldSeq,
              TcpDialFails
<1> QED
  BY <1>4, <1>5, <1>6

\* The steps that leave no node with a lock and without an answer to come that had
\* none before.
LEMMA FewerUnanswered ==
  ASSUME TypeOK, AskForLockFreed, unanswered' \subseteq unanswered, lost' = lost
  PROVE  Cardinality(unanswered') <= lost'
<1>1. IsFiniteSet(unanswered)
  BY PbftAssumption, FS_Subset DEF unanswered
<1>2. IsFiniteSet(unanswered') /\ Cardinality(unanswered') <= Cardinality(unanswered)
  BY <1>1, FS_Subset
<1>3. Cardinality(unanswered) \in Nat /\ Cardinality(unanswered') \in Nat /\ lost \in Nat
  BY <1>1, <1>2, FS_CardinalityType DEF TypeOK
<1> QED
  BY <1>2, <1>3 DEF AskForLockFreed

\* A lost message leaves at most one node without an answer to come.
LEMMA OneMoreUnanswered ==
  ASSUME TypeOK, AskForLockFreed, TcpDialFails
  PROVE  Cardinality(unanswered') <= lost'
<1>1. IsFiniteSet(unanswered) /\ lost \in Nat
  BY PbftAssumption, FS_Subset DEF unanswered, TypeOK
<1>2. askForLock' = askForLock /\ lost' = lost + 1
  BY DEF TcpDialFails, locks
<1>3. \E k : unanswered' \subseteq unanswered \cup {k}
  <2>1. CASE requestOlds' = requestOlds /\ sendOlds' = sendOlds
    BY <1>2, <2>1 DEF unanswered, asking
  <2>2. CASE \E m \in requestOlds : requestOlds' = requestOlds \ {m} /\ sendOlds' = sendOlds
    <3>1. PICK m \in requestOlds : requestOlds' = requestOlds \ {m} /\ sendOlds' = sendOlds
      BY <2>2
    <3>2. unanswered' \subseteq unanswered \cup {m.from}
      BY <1>2, <3>1 DEF unanswered, asking
    <3> QED
      BY <3>2
  <2>3. CASE \E m \in sendOlds : sendOlds' = sendOlds \ {m} /\ requestOlds' = requestOlds
    <3>1. PICK m \in sendOlds : sendOlds' = sendOlds \ {m} /\ requestOlds' = requestOlds
      BY <2>3
    <3>2. unanswered' \subseteq unanswered \cup {m.to}
      BY <1>2, <3>1 DEF unanswered, asking
    <3> QED
      BY <3>2
  <2> QED
    BY <2>1, <2>2, <2>3 DEF TcpDialFails
<1>4. PICK k : unanswered' \subseteq unanswered \cup {k}
  BY <1>3
<1>5. /\ IsFiniteSet(unanswered \cup {k})
      /\ Cardinality(unanswered \cup {k}) <= Cardinality(unanswered) + 1
  <2>1. /\ IsFiniteSet(unanswered \cup {k})
        /\ Cardinality(unanswered \cup {k}) = IF k \in unanswered
             THEN Cardinality(unanswered) ELSE Cardinality(unanswered) + 1
    BY <1>1, FS_AddElement
  <2>2. Cardinality(unanswered) \in Nat
    BY <1>1, FS_CardinalityType
  <2> QED
    BY <2>1, <2>2
<1>6. IsFiniteSet(unanswered') /\ Cardinality(unanswered') <= Cardinality(unanswered \cup {k})
  BY <1>4, <1>5, FS_Subset
<1>7. /\ Cardinality(unanswered) \in Nat /\ Cardinality(unanswered') \in Nat
      /\ Cardinality(unanswered \cup {k}) \in Nat
  BY <1>1, <1>5, <1>6, FS_CardinalityType
<1> QED
  BY <1>1, <1>2, <1>5, <1>6, <1>7 DEF AskForLockFreed

\* Every step keeps askForLock bound to a request or its answer.
LEMMA AskForLockStep ==
  ASSUME Inv, AskForLockFreed, [Next]_vars
  PROVE  AskForLockFreed'
<1>1. /\ TypeOK /\ LeaderInv /\ CatchUpInv
      /\ \A n \in Nodes : hung[n] => n # Leader /\ askForLock[n]
  BY DEF Inv, AskForLockFreed
<1>2. CASE askForLock' = askForLock /\ hung' = hung /\ lost' = lost
           /\ requestOlds' = requestOlds /\ sendOlds' = sendOlds
  <2>1. unanswered' = unanswered
    BY <1>2 DEF unanswered, asking
  <2> QED
    BY <1>2, <2>1 DEF AskForLockFreed
<1>3. ASSUME NEW n \in Nodes, NEW d \in Digests, handleCommit(n, d)
      PROVE  AskForLockFreed'
  <2>1. sendOlds' = sendOlds /\ lost' = lost
    BY <1>3 DEF handleCommit
  <2>2. CASE countCommit(n, d) \/ executeCommit(n, d)
    BY <1>2, <2>1, <2>2 DEF countCommit, executeCommit, locks
  <2>3. CASE askForOld(n, d)
    <3> DEFINE r == [from |-> n, start |-> sequenceID[n] + 1, end |-> requests[d].seqID]
    <3>1. /\ askForLock' = [askForLock EXCEPT ![n] = TRUE] /\ hung' = hung
          /\ r \in requestOlds' /\ r.from = n /\ requestOlds \subseteq requestOlds'
      BY <2>3 DEF askForOld
    <3> HIDE DEF r
    <3>2. unanswered' \subseteq unanswered
      BY <1>1, <2>1, <3>1 DEF unanswered, asking, TypeOK
    <3>3. \A k \in Nodes : hung'[k] => k # Leader /\ askForLock'[k]
      BY <1>1, <3>1 DEF TypeOK
    <3> QED
      BY <1>1, <2>1, <3>2, <3>3, FewerUnanswered DEF AskForLockFreed
  <2>4. CASE waitForAskForLock(n, d)
    <3>1. /\ hung' = [hung EXCEPT ![n] = TRUE] /\ askForLock[n]
          /\ askForLock' = askForLock /\ requestOlds' = requestOlds
      BY <2>4 DEF waitForAskForLock
    <3>2. unanswered' = unanswered
      BY <2>1, <3>1 DEF unanswered, asking
    <3>3. n # Leader
      BY <1>1, <3>1 DEF LeaderInv
    <3>4. \A k \in Nodes : hung'[k] => k # Leader /\ askForLock'[k]
      BY <1>1, <3>1, <3>3 DEF TypeOK
    <3> QED
      BY <2>1, <3>2, <3>4 DEF AskForLockFreed
  <2> QED
    BY <1>3, <2>2, <2>3, <2>4 DEF handleCommit
<1>4. ASSUME NEW m \in requestOlds, handleRequestOldSeq(m)
      PROVE  AskForLockFreed'
  <2> DEFINE a == [to |-> m.from, start |-> m.start, end |-> m.end,
                   old |-> oldRequests(m.start, m.end)]
  <2>1. /\ askForLock' = askForLock /\ hung' = hung /\ lost' = lost
        /\ requestOlds' = requestOlds \ {m} /\ sendOlds \subseteq sendOlds'
        /\ a \in sendOlds' /\ a.to = m.from
    BY <1>4 DEF handleRequestOldSeq, locks
  <2> HIDE DEF a
  <2>2. unanswered' \subseteq unanswered
    BY <2>1 DEF unanswered, asking
  <2> QED
    BY <1>1, <2>1, <2>2, FewerUnanswered DEF AskForLockFreed
<1>5. ASSUME NEW m \in sendOlds, handleSendOldSeq(m)
      PROVE  AskForLockFreed'
  <2>1. /\ askForLock' = [askForLock EXCEPT ![m.to] = FALSE] /\ hung' = hung /\ lost' = lost
        /\ requestOlds' = requestOlds /\ sendOlds' = sendOlds \ {m}
        /\ ~hung[m.to] /\ m.to \in Nodes
    BY <1>1, <1>5 DEF handleSendOldSeq, freeAskForLock, TypeOK, SendOldMessages
  <2>2. unanswered' \subseteq unanswered
    BY <1>1, <2>1 DEF unanswered, asking, TypeOK
  <2>3. \A k \in Nodes : hung'[k] => k # Leader /\ askForLock'[k]
    BY <1>1, <2>1 DEF TypeOK
  <2> QED
    BY <1>1, <2>1, <2>2, <2>3, FewerUnanswered DEF AskForLockFreed
<1>6. CASE TcpDialFails
  <2>1. hung' = hung /\ askForLock' = askForLock
    BY <1>6 DEF TcpDialFails, locks
  <2> QED
    BY <1>1, <1>6, <2>1, OneMoreUnanswered DEF AskForLockFreed
<1>7. CASE \/ Propose
           \/ \E n \in Nodes, d \in Digests : handlePrePrepare(n, d) \/ handlePrepare(n, d)
           \/ UNCHANGED vars
  BY <1>2, <1>7 DEF Propose, handlePrePrepare, handlePrepare, vars, locks, network
<1> QED
  BY <1>3, <1>4, <1>5, <1>6, <1>7 DEF Next

\* A node blocks in handleCommit only on an askForLock of its own, the main node never
\* does, and every answer frees the lock: as many nodes hold it in vain as messages
\* were lost, at most.
THEOREM AskForLocking == Spec => []AskForLockFreed
<1>1. Init => AskForLockFreed
  <2> SUFFICES ASSUME Init PROVE AskForLockFreed
    OBVIOUS
  <2>1. unanswered = {}
    BY DEF Init, unanswered
  <2>2. Cardinality(unanswered) = 0
    BY <2>1, FS_EmptySet
  <2> QED
    BY <2>2 DEF Init, AskForLockFreed
<1>2. Inv /\ AskForLockFreed /\ [Next]_vars => AskForLockFreed'
  BY AskForLockStep
<1> QED
  BY <1>1, <1>2, Invariance, PTL DEF Spec

\* pbft_all implements ShardLedger: Propose extends the log, an execution or a
\* catch-up moves one node's ledger along it, and all else is invisible.
THEOREM Refinement == Spec => LedgerSpec
<1> DEFINE log == [i \in 1..Len(requests) |-> i]
<1>1. Init => Ledger!Init
  BY DEF Init, Ledger!Init
<1>2. ASSUME Inv, [Next]_vars PROVE [Ledger!Next]_(Ledger!vars)
  <2>1. Inv'
    BY <1>2, NextInv
  <2>2. /\ requests \in Seq(Requests) /\ Len(requests) \in Nat /\ Len(requests) <= MaxHeight
        /\ chain \in [Nodes -> Seq(Digests)] /\ MaxHeight \in Nat /\ Leader \in Nodes
    BY <1>2, PbftAssumption DEF Inv, TypeOK
  <2>3. /\ log \in Seq(Digests) /\ Len(log) = Len(requests)
        /\ \A i \in 1..Len(log) : log[i] = i
    BY <2>2 DEF Digests
  <2>4. CASE Propose
    <3> DEFINE K == Len(requests)
    <3>1. K = Len(chain[Leader]) /\ K < MaxHeight /\ chain' = chain
      BY <1>2, <2>4 DEF Inv, LeaderInv, Propose, mayPropose
    <3>2. chain[Leader] = log
      <4>1. chain[Leader] \in Seq(Digests) /\ \A i \in 1..Len(chain[Leader]) : chain[Leader][i] = i
        BY <1>2, <2>2 DEF Inv, ChainInv
      <4> HIDE DEF log
      <4> QED
        BY <2>3, <3>1, <4>1, SameBlocks
    <3>3. Len(requests') = K + 1
      BY <2>2, <2>4 DEF Propose
    <3>4. K + 1 \in Digests
      BY <2>2, <3>1 DEF Digests
    <3>5. log' = Append(log, K + 1)
      BY <2>2, <3>3
    <3>6. Ledger!Extend
      BY <3>1, <3>2, <3>4, <3>5 DEF Ledger!Extend
    <3> QED
      BY <3>6 DEF Ledger!Next
  <2>5. ASSUME NEW n \in Nodes, Grows(n) PROVE Ledger!Next
    <3> DEFINE k == Len(chain'[n])
    <3>1. /\ chain'[n] \in Seq(Digests) /\ k <= Len(requests')
          /\ \A i \in 1..k : chain'[n][i] = i
      BY <2>1 DEF Inv, TypeOK, ChainInv
    <3>2. requests' = requests /\ k > Len(chain[n]) /\ chain' = [chain EXCEPT ![n] = chain'[n]]
      BY <2>5 DEF Grows
    <3>3. k \in (Len(chain[n]) + 1)..Len(log) /\ k \in Nat
      BY <2>2, <2>3, <3>1, <3>2
    <3>4. SubSeq(log, 1, k) = chain'[n]
      <4>1. /\ SubSeq(log, 1, k) \in Seq(Digests) /\ Len(SubSeq(log, 1, k)) = k
            /\ \A i \in 1..k : SubSeq(log, 1, k)[i] = i
        <5> HIDE DEF log, k
        <5> QED
          BY <2>3, <3>3
      <4> HIDE DEF log
      <4> QED
        BY <3>1, <4>1, SameBlocks
    <3>5. chain' = [chain EXCEPT ![n] = SubSeq(log, 1, k)] /\ log' = log
      BY <3>2, <3>4
    <3>6. Ledger!Execute(n)
      BY <3>3, <3>5 DEF Ledger!Execute
    <3> QED
      BY <3>6 DEF Ledger!Next
  <2>6. CASE ~Propose /\ chain' = chain
    <3>1. requests' = requests
      BY <1>2, <2>6 DEF Next, vars, handlePrePrepare, handlePrepare, handleCommit,
                        handleRequestOldSeq, handleSendOldSeq, TcpDialFails
    <3> QED
      BY <2>6, <3>1 DEF Ledger!vars
  <2> QED
    BY <1>2, <2>4, <2>5, <2>6, ChainStep
<1> QED
  BY <1>1, <1>2, Invariance, PTL DEF Spec, LedgerSpec, Ledger!Spec
=============================================================================
