------------------------- MODULE SyncHotstuffProofs -------------------------
(***************************************************************************)
(* Proofs about SyncHotstuff, for any number of nodes, any latency and any *)
(* number of blocks, in synchronous and other behaviours alike.            *)
(*                                                                         *)
(* Since the main node proposes under sequenceLock and unlocks it when it  *)
(* has committed, the block at place b of "made" is the only one of height *)
(* b and follows b - 1 (OneBlockPerHeight).  What a node has then depends  *)
(* on the length of its chain alone (ChainsCount), and the waiting commits *)
(* are for the next block (NextWaits).  Whatever handleVote has read is of *)
(* a block that the node has not stored, so that a block is accepted once, *)
(* from the vote or from the proposal.  A node that has not recorded a     *)
(* block still has its proposal to come (ProposalsArrive), which is what a *)
(* blocked node waits for.                                                 *)
(***************************************************************************)
EXTENDS SyncHotstuff, TLAPS

OneBlockPerHeight ==
  /\ \A b \in DOMAIN made : made[b].number = b /\ made[b].parent = b - 1
  /\ \A m \in net : m.seq = m.block /\ m.block \in DOMAIN made
  /\ \A n \in Nodes : requestPool[n] \subseteq DOMAIN made

ChainsCount ==
  \A n \in Nodes :
    /\ sequenceID[n] = Len(chain[n]) + (IF committing[n] THEN 0 ELSE 1)
    /\ \A h \in DOMAIN chain[n] : chain[n][h] = h

NextWaits ==
  \A n \in Nodes :
    /\ \A w \in waiting[n] : w.block = Len(chain[n]) + 1 /\ w.block \in requestPool[n]
    /\ \A v, w \in waiting[n] : v = w
    /\ committing[n] => Len(chain[n]) \in requestPool[n]

VotesAreNew ==
  \A n \in Nodes : handling[n] # NoVote =>
    /\ handling[n].seq = handling[n].block /\ handling[n].block \in DOMAIN made
    /\ handling[n].block \notin requestPool[n]
    /\ ~hung[n]

LeaderRound ==
  /\ ~sequenceLocked => /\ Len(chain[Leader]) = Len(made)
                        /\ waiting[Leader] = {} /\ ~committing[Leader]
  /\ sequenceLocked => Len(made) = Len(chain[Leader]) + (IF committing[Leader] THEN 0 ELSE 1)
  /\ \A b \in DOMAIN made : b \in requestPool[Leader] /\ height2Digest[Leader][b] = b
  /\ ~hung[Leader]
  /\ \A m \in net : m.type = "propose" => m.to # Leader

ProposalsArrive ==
  \A n \in Nodes \ {Leader} :
    /\ \A b \in DOMAIN made :
         \/ height2Digest[n][b] = b
         \/ \E m \in net : m.type = "propose" /\ m.to = n /\ m.block = b
    /\ \A b \in requestPool[n] : height2Digest[n][b] = b
    /\ hung[n] => /\ sequenceID[n] \in DOMAIN made
                  /\ height2Digest[n][sequenceID[n]] # sequenceID[n]

IInv ==
  /\ TypeOK /\ OneBlockPerHeight /\ ChainsCount /\ NextWaits /\ VotesAreNew
  /\ LeaderRound /\ ProposalsArrive

-----------------------------------------------------------------------------
\* The current block of a node is its height.
LEMMA CurrentIsHeight ==
  ASSUME TypeOK, ChainsCount, NEW n \in Nodes
  PROVE  CurrentBlock(n) = Len(chain[n]) /\ Len(chain[n]) \in Nat
<1>1. chain[n] \in Seq(Heights)
  BY DEF TypeOK
<1>2. Len(chain[n]) \in Nat /\ DOMAIN chain[n] = 1..Len(chain[n])
  BY <1>1
<1>3. CASE chain[n] = <<>>
  BY <1>3 DEF CurrentBlock
<1>4. CASE chain[n] # <<>>
  <2>1. Len(chain[n]) \in DOMAIN chain[n]
    BY <1>1, <1>2, <1>4
  <2>2. \A h \in DOMAIN chain[n] : chain[n][h] = h
    BY DEF ChainsCount
  <2> QED  BY <1>4, <2>1, <2>2 DEF CurrentBlock
<1> QED  BY <1>2, <1>3, <1>4

\* Messages of a broadcast.
LEMMA BroadcastType ==
  ASSUME NEW type \in {"propose", "vote", "revote"}, NEW n \in Nodes, NEW b \in Heights
  PROVE  /\ Broadcast(type, n, b, b) \subseteq Message
         /\ \A m \in Broadcast(type, n, b, b) :
              m.type = type /\ m.to # n /\ m.block = b /\ m.seq = b
         /\ \A k \in Nodes \ {n} : \E m \in Broadcast(type, n, b, b) :
              m.type = type /\ m.to = k /\ m.block = b /\ m.age = 0
<1> DEFINE msg(k) ==
      [type |-> type, from |-> n, to |-> k, block |-> b, seq |-> b, age |-> 0]
<1>1. Broadcast(type, n, b, b) = {msg(k) : k \in Nodes \ {n}}
  BY DEF Broadcast
<1>2. \A k \in Nodes \ {n} :
        /\ msg(k) \in Message /\ msg(k).age = 0
        /\ msg(k).type = type /\ msg(k).to = k /\ msg(k).block = b /\ msg(k).seq = b
  BY SyncHotstuffAssumption DEF Message
<1> HIDE DEF msg
<1> QED  BY <1>1, <1>2

\* The nodes start with empty chains and pools, and nothing is in transit.
THEOREM InitEstablishes == Init => IInv
<1> SUFFICES ASSUME Init PROVE IInv
  OBVIOUS
<1>1. made = <<>> /\ Len(made) = 0 /\ DOMAIN made = {}
  BY DEF Init
<1>2. \A n \in Nodes : chain[n] = <<>> /\ Len(chain[n]) = 0 /\ DOMAIN chain[n] = {}
  <2>1. \A n \in Nodes : chain[n] = <<>>
    BY DEF Init
  <2>2. Len(<<>>) = 0 /\ DOMAIN <<>> = {}
    OBVIOUS
  <2> QED  BY <2>1, <2>2
<1>3. TypeOK
  <2>1. chain \in [Nodes -> Seq(Heights)]
    <3>1. <<>> \in Seq(Heights)
      OBVIOUS
    <3> QED  BY <3>1 DEF Init
  <2>2. made \in Seq([number : Heights, parent : 0..MaxBlocks]) /\ Len(made) <= MaxBlocks
    BY <1>1, SyncHotstuffAssumption
  <2>3. slept \in 0..SleepTime
    BY SyncHotstuffAssumption DEF Init, SleepTime
  <2>4. height2Digest \in [Nodes -> [Heights -> 0..MaxBlocks]]
    BY SyncHotstuffAssumption DEF Init
  <2> QED  BY <2>1, <2>2, <2>3, <2>4 DEF Init, TypeOK
<1>4. OneBlockPerHeight /\ ChainsCount /\ NextWaits /\ VotesAreNew
  BY <1>1, <1>2 DEF Init, OneBlockPerHeight, ChainsCount, NextWaits, VotesAreNew
<1>5. LeaderRound /\ ProposalsArrive
  BY <1>1, <1>2, SyncHotstuffAssumption DEF Init, LeaderRound, ProposalsArrive
<1> QED  BY <1>3, <1>4, <1>5 DEF IInv

-----------------------------------------------------------------------------
\* The main node proposes the block after the last one, and sends it to everybody.
LEMMA ProposePreserves == IInv /\ Propose => IInv'
<1> SUFFICES ASSUME IInv, Propose PROVE IInv'
  OBVIOUS
<1> DEFINE block == Len(made) + 1
<1> DEFINE msgs == Broadcast("propose", Leader, block, block)
<1>0. Leader \in Nodes /\ MaxBlocks \in Nat /\ MaxLatency \in Nat
  BY SyncHotstuffAssumption
<1>1. /\ TypeOK /\ OneBlockPerHeight /\ ChainsCount /\ NextWaits /\ VotesAreNew
      /\ LeaderRound /\ ProposalsArrive
  BY DEF IInv
<1>2. Len(made) \in Nat /\ DOMAIN made = 1..Len(made) /\ block \in Heights
  BY <1>0, <1>1 DEF TypeOK, Propose, Heights
<1>3. /\ ~sequenceLocked /\ Len(chain[Leader]) = Len(made) /\ waiting[Leader] = {}
      /\ ~committing[Leader] /\ sequenceID[Leader] = block
  BY <1>0, <1>1 DEF LeaderRound, Propose, MayPropose, ChainsCount
<1>4. CurrentBlock(Leader) = Len(made)
  BY <1>0, <1>1, <1>3, CurrentIsHeight
<1>5. made' = Append(made, [number |-> block, parent |-> block - 1])
  BY <1>2, <1>3, <1>4 DEF Propose
<1>6. /\ made' \in Seq([number : Heights, parent : 0..MaxBlocks])
      /\ Len(made') = block /\ DOMAIN made' = 1..block
      /\ \A b \in DOMAIN made : made'[b] = made[b]
      /\ made'[block] = [number |-> block, parent |-> block - 1]
  BY <1>0, <1>1, <1>2, <1>5 DEF TypeOK, Heights
<1>7. /\ net' = net \cup msgs
      /\ requestPool' = [requestPool EXCEPT ![Leader] = @ \cup {block}]
      /\ height2Digest' = [height2Digest EXCEPT ![Leader][block] = block]
      /\ waiting' = [waiting EXCEPT ![Leader] = @ \cup {Waiter(block, block)}]
      /\ sequenceLocked' = TRUE /\ slept' = 0
      /\ UNCHANGED <<sequenceID, chain, committing, handling, hung>>
  BY <1>3 DEF Propose, commits
<1>8. /\ msgs \subseteq Message
      /\ \A m \in msgs : m.type = "propose" /\ m.to # Leader /\ m.block = block /\ m.seq = block
      /\ \A k \in Nodes \ {Leader} :
           \E m \in msgs : m.type = "propose" /\ m.to = k /\ m.block = block
  BY <1>0, <1>2, BroadcastType
<1>9. TypeOK'
  <2>1. Waiter(block, block) \in [block : Heights, seq : Heights, age : 0..WaitTime]
    BY <1>0, <1>2 DEF Waiter, WaitTime
  <2>2. slept' \in 0..SleepTime
    BY <1>0, <1>7 DEF SleepTime
  <2>3. block <= MaxBlocks /\ block \in 0..MaxBlocks
    BY <1>0, <1>2 DEF Heights
  <2>4. net' \subseteq Message
    BY <1>1, <1>7, <1>8 DEF TypeOK
  <2>5. /\ requestPool' \in [Nodes -> SUBSET Heights]
        /\ waiting' \in [Nodes -> SUBSET [block : Heights, seq : Heights, age : 0..WaitTime]]
    BY <1>1, <1>2, <1>7, <2>1 DEF TypeOK
  <2>6. height2Digest' \in [Nodes -> [Heights -> 0..MaxBlocks]]
    BY <1>1, <1>2, <1>7, <2>3 DEF TypeOK
  <2> QED  BY <1>1, <1>6, <1>7, <2>2, <2>3, <2>4, <2>5, <2>6 DEF TypeOK
<1>10. OneBlockPerHeight'
  <2>1. \A b \in DOMAIN made' : made'[b].number = b /\ made'[b].parent = b - 1
    BY <1>1, <1>2, <1>6 DEF OneBlockPerHeight
  <2>2. \A m \in net' : m.seq = m.block /\ m.block \in DOMAIN made'
    BY <1>1, <1>2, <1>6, <1>7, <1>8 DEF OneBlockPerHeight
  <2>3. \A n \in Nodes : requestPool'[n] \subseteq DOMAIN made'
    BY <1>1, <1>2, <1>6, <1>7 DEF OneBlockPerHeight, TypeOK
  <2> QED  BY <2>1, <2>2, <2>3 DEF OneBlockPerHeight
<1>11. ChainsCount'
  BY <1>1, <1>7 DEF ChainsCount
<1>12. NextWaits' /\ VotesAreNew'
  <2>1. /\ waiting'[Leader] = {Waiter(block, block)} /\ Waiter(block, block).block = block
        /\ requestPool'[Leader] = requestPool[Leader] \cup {block}
        /\ \A k \in Nodes \ {Leader} : /\ waiting'[k] = waiting[k]
                                      /\ requestPool'[k] = requestPool[k]
    BY <1>0, <1>1, <1>3, <1>7 DEF TypeOK, Waiter
  <2>2. NextWaits'
    BY <1>1, <1>3, <1>7, <2>1 DEF NextWaits
  <2>3. handling[Leader] = NoVote
    BY <1>0, <1>1 DEF VotesAreNew, LeaderRound
  <2>4. DOMAIN made \subseteq DOMAIN made'
    BY <1>2, <1>6
  <2>5. VotesAreNew'
    BY <1>1, <1>7, <2>1, <2>3, <2>4 DEF VotesAreNew
  <2> QED  BY <2>2, <2>5
<1>13. LeaderRound'
  <2>1. \A b \in DOMAIN made' : b \in requestPool'[Leader] /\ height2Digest'[Leader][b] = b
    <3>1. requestPool'[Leader] = requestPool[Leader] \cup {block}
      BY <1>0, <1>1, <1>7 DEF TypeOK
    <3>2. \A b \in Heights :
            height2Digest'[Leader][b] = IF b = block THEN block ELSE height2Digest[Leader][b]
      <4>1. height2Digest'[Leader] = [height2Digest[Leader] EXCEPT ![block] = block]
        BY <1>0, <1>1, <1>7 DEF TypeOK
      <4>2. height2Digest[Leader] \in [Heights -> 0..MaxBlocks]
        BY <1>0, <1>1 DEF TypeOK
      <4> HIDE DEF block
      <4> QED  BY <4>1, <4>2
    <3>3. \A b \in DOMAIN made' : b \in Heights /\ (b = block \/ b \in DOMAIN made)
      BY <1>0, <1>2, <1>6 DEF Heights
    <3> QED  BY <1>1, <3>1, <3>2, <3>3 DEF LeaderRound
  <2>2. \A m \in net' : m.type = "propose" => m.to # Leader
    BY <1>1, <1>7, <1>8 DEF LeaderRound
  <2> QED  BY <1>1, <1>3, <1>6, <1>7, <2>1, <2>2 DEF LeaderRound
<1>14. ProposalsArrive'
  <2> SUFFICES ASSUME NEW n \in Nodes \ {Leader}
               PROVE  /\ \A b \in DOMAIN made' :
                           \/ height2Digest'[n][b] = b
                           \/ \E m \in net' : m.type = "propose" /\ m.to = n /\ m.block = b
                      /\ \A b \in requestPool'[n] : height2Digest'[n][b] = b
                      /\ hung'[n] => /\ sequenceID'[n] \in DOMAIN made'
                                     /\ height2Digest'[n][sequenceID'[n]] # sequenceID'[n]
    BY DEF ProposalsArrive
  <2>1. height2Digest'[n] = height2Digest[n] /\ requestPool'[n] = requestPool[n]
    BY <1>0, <1>1, <1>7 DEF TypeOK
  <2>2. ASSUME NEW b \in DOMAIN made'
        PROVE  \/ height2Digest'[n][b] = b
               \/ \E m \in net' : m.type = "propose" /\ m.to = n /\ m.block = b
    <3>1. CASE b = block
      BY <3>1, <1>7, <1>8
    <3>2. CASE b \in DOMAIN made
      BY <3>2, <1>1, <1>7, <2>1 DEF ProposalsArrive
    <3> QED  BY <3>1, <3>2, <1>2, <1>6
  <2> QED  BY <2>1, <2>2, <1>1, <1>2, <1>6, <1>7 DEF ProposalsArrive
<1> QED  BY <1>9, <1>10, <1>11, <1>12, <1>13, <1>14 DEF IInv

-----------------------------------------------------------------------------
\* A node takes a message that changes none of its variables, and votes or not.  A
\* proposal is only used up like this when its block is recorded.
LEMMA TakePreserves ==
  ASSUME IInv, NEW n \in Nodes, NEW m \in net, m.to = n,
         m.type = "propose" => height2Digest[n][m.block] = m.block,
         NEW votes, votes = {} \/ votes = Broadcast("revote", n, m.block, m.seq),
         net' = (net \ {m}) \cup votes,
         UNCHANGED state, UNCHANGED <<synchronous, made, sequenceLocked, slept>>
  PROVE  IInv'
<1>0. UNCHANGED <<sequenceID, chain, committing, requestPool, height2Digest, waiting, handling, hung>>
  BY DEF state, commits
<1>1. /\ TypeOK /\ OneBlockPerHeight /\ ChainsCount /\ NextWaits /\ VotesAreNew
      /\ LeaderRound /\ ProposalsArrive
  BY DEF IInv
<1>2. m \in Message /\ m.seq = m.block /\ m.block \in Heights /\ m.block \in DOMAIN made
  BY <1>1 DEF TypeOK, OneBlockPerHeight, Message
<1>3. /\ votes \subseteq Message
      /\ \A v \in votes : v.type = "revote" /\ v.block = m.block /\ v.seq = m.block
  BY <1>2, BroadcastType
<1>4. TypeOK' /\ OneBlockPerHeight'
  BY <1>0, <1>1, <1>2, <1>3 DEF TypeOK, OneBlockPerHeight
<1>5. ChainsCount' /\ NextWaits' /\ VotesAreNew'
  <2>1. ChainsCount'
    BY <1>0, <1>1 DEF ChainsCount
  <2>2. NextWaits' /\ VotesAreNew'
    BY <1>0, <1>1 DEF NextWaits, VotesAreNew
  <2> QED  BY <2>1, <2>2
<1>6. LeaderRound'
  <2>1. \A v \in net' : v.type = "propose" => v.to # Leader
    BY <1>1, <1>3 DEF LeaderRound
  <2> QED  BY <1>0, <1>1, <2>1 DEF LeaderRound
<1>7. ProposalsArrive'
  <2>1. ASSUME NEW k \in Nodes \ {Leader}, NEW b \in DOMAIN made
        PROVE  \/ height2Digest[k][b] = b
               \/ \E v \in net' : v.type = "propose" /\ v.to = k /\ v.block = b
    <3>1. CASE height2Digest[k][b] = b
      BY <3>1
    <3>2. CASE height2Digest[k][b] # b
      <4>1. PICK v \in net : v.type = "propose" /\ v.to = k /\ v.block = b
        BY <1>1, <3>2 DEF ProposalsArrive
      <4>2. v # m
        BY <4>1, <3>2
      <4> QED  BY <4>1, <4>2
    <3> QED  BY <3>1, <3>2
  <2> QED  BY <1>0, <1>1, <2>1 DEF ProposalsArrive
<1> QED  BY <1>4, <1>5, <1>6, <1>7 DEF IInv

\* A block that is valid at a node is the next one, and no other one waits there.
LEMMA ValidIsNext ==
  ASSUME IInv, NEW n \in Nodes, NEW m, m.block \in DOMAIN made, HandleinPropose(n, m)
  PROVE  m.block = Len(chain[n]) + 1 /\ (~Known(n, m) => waiting[n] = {})
<1>1. TypeOK /\ OneBlockPerHeight /\ ChainsCount /\ NextWaits
  BY DEF IInv
<1>2. made[m.block].parent = m.block - 1 /\ m.block \in Int
  <2>1. DOMAIN made = 1..Len(made)
    BY <1>1 DEF TypeOK
  <2> QED  BY <1>1, <2>1 DEF OneBlockPerHeight
<1>3. CurrentBlock(n) = Len(chain[n]) /\ Len(chain[n]) \in Nat
  BY <1>1, CurrentIsHeight
<1>4. m.block - 1 = Len(chain[n])
  BY <1>2, <1>3 DEF HandleinPropose
<1>5. m.block = Len(chain[n]) + 1
  BY <1>2, <1>3, <1>4
<1> QED  BY <1>1, <1>5 DEF NextWaits, Known

\* A node other than the main node takes a block that it does not know, from the
\* proposal, which is used up, or from a vote.
LEMMA AcceptPreserves ==
  ASSUME IInv, NEW n \in Nodes \ {Leader}, NEW m, m.seq = m.block, m.block \in DOMAIN made,
         NEW msgs, msgs \subseteq net,
         \A v \in net \ msgs : v.type = "propose" => v.to = n /\ v.block = m.block,
         ~hung[n], ~Known(n, m), Accept(n, m, msgs),
         handling' = [handling EXCEPT ![n] = NoVote],
         UNCHANGED <<synchronous, made, sequenceLocked, slept>>
  PROVE  IInv'
<1>0. Leader \in Nodes /\ MaxBlocks \in Nat /\ MaxLatency \in Nat
  BY SyncHotstuffAssumption
<1>1. /\ TypeOK /\ OneBlockPerHeight /\ ChainsCount /\ NextWaits /\ VotesAreNew
      /\ LeaderRound /\ ProposalsArrive
  BY DEF IInv
<1>a. DOMAIN made \subseteq Heights
  <2>1. Len(made) \in Nat /\ DOMAIN made = 1..Len(made) /\ Len(made) <= MaxBlocks
    BY <1>1 DEF TypeOK
  <2> QED  BY <1>0, <2>1 DEF Heights
<1>2. m.block \in Heights
  BY <1>a
<1> DEFINE b == m.block
<1>3. /\ requestPool' = [requestPool EXCEPT ![n] = @ \cup {b}]
      /\ height2Digest' = [height2Digest EXCEPT ![n][b] = b]
      /\ UNCHANGED <<sequenceID, chain, committing, hung>>
  BY <1>2 DEF Accept, commits
<1>4. PICK votes :
        /\ votes = {} \/ votes = Broadcast("vote", n, b, b)
        /\ net' = msgs \cup votes
  <2>1. net' = msgs \cup Broadcast("vote", n, b, b) \/ net' = msgs \cup {}
    BY <1>2 DEF Accept
  <2> QED  BY <2>1
<1>5. /\ votes \subseteq Message
      /\ \A v \in votes : v.type = "vote" /\ v.block = b /\ v.seq = b
  BY <1>2, <1>4, BroadcastType
<1>6. \/ waiting' = waiting
      \/ /\ waiting' = [waiting EXCEPT ![n] = {Waiter(b, b)}]
         /\ b = Len(chain[n]) + 1
  <2>1. CASE HandleinPropose(n, m)
    <3>1. waiting[n] = {} /\ b = Len(chain[n]) + 1
      BY <2>1, ValidIsNext
    <3>2. waiting' = [waiting EXCEPT ![n] = @ \cup {Waiter(b, b)}]
      BY <1>2, <2>1 DEF Accept
    <3> QED  BY <3>1, <3>2
  <2>2. CASE ~HandleinPropose(n, m)
    BY <2>2 DEF Accept
  <2> QED  BY <2>1, <2>2
<1>7. Waiter(b, b) \in [block : Heights, seq : Heights, age : 0..WaitTime] /\ Waiter(b, b).block = b
  BY <1>0, <1>2 DEF Waiter, WaitTime
<1>8. /\ requestPool'[n] = requestPool[n] \cup {b}
      /\ height2Digest'[n] = [height2Digest[n] EXCEPT ![b] = b]
      /\ handling'[n] = NoVote
      /\ \A k \in Nodes \ {n} : /\ requestPool'[k] = requestPool[k]
                               /\ height2Digest'[k] = height2Digest[k]
                               /\ handling'[k] = handling[k]
  BY <1>1, <1>3 DEF TypeOK
<1>9. \A h \in Heights : height2Digest'[n][h] = IF h = b THEN b ELSE height2Digest[n][h]
  <2>1. height2Digest[n] \in [Heights -> 0..MaxBlocks]
    BY <1>1 DEF TypeOK
  <2> HIDE DEF b
  <2> QED  BY <1>8, <2>1
<1>10. TypeOK'
  <2>1. b \in 0..MaxBlocks
    BY <1>0, <1>2 DEF Heights
  <2>2. net' \subseteq Message
    BY <1>1, <1>4, <1>5 DEF TypeOK
  <2>3. requestPool' \in [Nodes -> SUBSET Heights]
    BY <1>1, <1>2, <1>3 DEF TypeOK
  <2>4. height2Digest' \in [Nodes -> [Heights -> 0..MaxBlocks]]
    BY <1>1, <1>2, <1>3, <2>1 DEF TypeOK
  <2>5. waiting' \in [Nodes -> SUBSET [block : Heights, seq : Heights, age : 0..WaitTime]]
    <3> DEFINE Waiters == [block : Heights, seq : Heights, age : 0..WaitTime]
    <3>1. waiting \in [Nodes -> SUBSET Waiters] /\ {Waiter(b, b)} \in SUBSET Waiters
      BY <1>1, <1>7 DEF TypeOK
    <3> HIDE DEF Waiters, b
    <3>2. waiting' \in [Nodes -> SUBSET Waiters]
      BY <1>6, <3>1
    <3> QED  BY <3>2 DEF Waiters
  <2>6. handling' \in [Nodes -> {NoVote} \cup [at : {"height", "judge"}, block : Heights, seq : Heights]]
    BY <1>1 DEF TypeOK
  <2> QED  BY <1>1, <1>3, <2>2, <2>3, <2>4, <2>5, <2>6 DEF TypeOK
<1>11. OneBlockPerHeight'
  <2>1. \A v \in net' : v.seq = v.block /\ v.block \in DOMAIN made
    BY <1>1, <1>4, <1>5 DEF OneBlockPerHeight
  <2>2. \A k \in Nodes : requestPool'[k] \subseteq DOMAIN made
    BY <1>1, <1>8 DEF OneBlockPerHeight
  <2> QED  BY <1>1, <2>1, <2>2 DEF OneBlockPerHeight
<1>12. ChainsCount' /\ VotesAreNew'
  <2>1. ChainsCount'
    BY <1>1, <1>3 DEF ChainsCount
  <2>2. VotesAreNew'
    BY <1>1, <1>3, <1>8 DEF VotesAreNew
  <2> QED  BY <2>1, <2>2
<1>13. NextWaits'
  <2> SUFFICES ASSUME NEW k \in Nodes
               PROVE  /\ \A w \in waiting'[k] : /\ w.block = Len(chain[k]) + 1
                                                /\ w.block \in requestPool'[k]
                      /\ \A v, w \in waiting'[k] : v = w
                      /\ committing[k] => Len(chain[k]) \in requestPool'[k]
    BY <1>3 DEF NextWaits
  <2>1. CASE waiting'[k] = waiting[k]
    BY <1>1, <1>8, <2>1 DEF NextWaits
  <2>2. CASE k = n /\ waiting'[n] = {Waiter(b, b)} /\ b = Len(chain[n]) + 1
    <3>1. committing[n] => Len(chain[n]) \in requestPool[n]
      BY <1>1 DEF NextWaits
    <3> QED  BY <1>7, <1>8, <2>2, <3>1
  <2> QED  BY <1>1, <1>6, <2>1, <2>2 DEF TypeOK
<1>14. LeaderRound'
  <2>1. \A v \in net' : v.type = "propose" => v.to # Leader
    BY <1>1, <1>4, <1>5 DEF LeaderRound
  <2>2. waiting'[Leader] = waiting[Leader]
    BY <1>0, <1>1, <1>6 DEF TypeOK
  <2> QED  BY <1>0, <1>1, <1>3, <1>8, <2>1, <2>2 DEF LeaderRound
<1>15. ProposalsArrive'
  <2> SUFFICES ASSUME NEW k \in Nodes \ {Leader}
               PROVE  /\ \A h \in DOMAIN made :
                           \/ height2Digest'[k][h] = h
                           \/ \E v \in net' : v.type = "propose" /\ v.to = k /\ v.block = h
                      /\ \A h \in requestPool'[k] : height2Digest'[k][h] = h
                      /\ hung[k] => /\ sequenceID[k] \in DOMAIN made
                                    /\ height2Digest'[k][sequenceID[k]] # sequenceID[k]
    BY <1>3 DEF ProposalsArrive
  <2>1. requestPool[k] \subseteq Heights
    BY <1>1 DEF TypeOK
  <2>2. \A h \in Heights : height2Digest[k][h] = h => height2Digest'[k][h] = h
    BY <1>8, <1>9
  <2>3. ASSUME NEW h \in DOMAIN made
        PROVE  \/ height2Digest'[k][h] = h
               \/ \E v \in net' : v.type = "propose" /\ v.to = k /\ v.block = h
    <3>1. CASE height2Digest[k][h] = h
      BY <1>a, <2>2, <3>1
    <3>2. CASE height2Digest[k][h] # h
      <4>1. PICK v \in net : v.type = "propose" /\ v.to = k /\ v.block = h
        BY <1>1, <3>2 DEF ProposalsArrive
      <4>2. CASE v \notin msgs
        BY <1>2, <1>9, <4>1, <4>2
      <4>3. CASE v \in msgs
        BY <1>4, <4>1, <4>3
      <4> QED  BY <4>2, <4>3
    <3> QED  BY <3>1, <3>2
  <2>4. \A h \in requestPool'[k] : height2Digest'[k][h] = h
    <3>1. CASE k = n
      BY <1>1, <1>2, <1>8, <1>9, <2>1, <2>2, <3>1 DEF ProposalsArrive
    <3>2. CASE k # n
      BY <1>1, <1>8, <3>2 DEF ProposalsArrive
    <3> QED  BY <3>1, <3>2
  <2>5. hung[k] => /\ sequenceID[k] \in DOMAIN made
                   /\ height2Digest'[k][sequenceID[k]] # sequenceID[k]
    BY <1>1, <1>8 DEF ProposalsArrive
  <2> QED  BY <2>3, <2>4, <2>5
<1> QED  BY <1>10, <1>11, <1>12, <1>13, <1>14, <1>15 DEF IInv

\* A node gets a proposal: it knows the block already, or accepts it.
LEMMA handleProposePreserves ==
  ASSUME IInv, NEW n \in Nodes, NEW m \in net, handlePropose(n, m)
  PROVE  IInv'
<1>1. /\ m.to = n /\ ~hung[n] /\ m.type = "propose" /\ handling[n] = NoVote
      /\ UNCHANGED <<synchronous, made, sequenceLocked, slept, handling>>
  BY DEF handlePropose, Receives
<1>2. n # Leader
  BY <1>1 DEF IInv, LeaderRound
<1>3. m.seq = m.block /\ m.block \in DOMAIN made
  BY DEF IInv, OneBlockPerHeight
<1>4. CASE Known(n, m)
  <2>1. height2Digest[n][m.block] = m.block
    BY <1>2, <1>4 DEF IInv, ProposalsArrive, Known
  <2>2. net' = (net \ {m}) \cup Broadcast("revote", n, m.block, m.seq) /\ UNCHANGED state
    BY <1>1, <1>4 DEF handlePropose, state
  <2> QED  BY <1>1, <2>1, <2>2, TakePreserves
<1>5. CASE ~Known(n, m)
  <2>1. handling' = [handling EXCEPT ![n] = NoVote]
    BY <1>1 DEF IInv, TypeOK
  <2> DEFINE msgs == net \ {m}
  <2>2. /\ msgs \subseteq net
        /\ \A v \in net \ msgs : v.type = "propose" => v.to = n /\ v.block = m.block
    BY <1>1
  <2>3. Accept(n, m, msgs)
    BY <1>5 DEF handlePropose
  <2> HIDE DEF msgs
  <2> QED  BY <1>1, <1>2, <1>3, <1>5, <2>1, <2>2, <2>3, AcceptPreserves
<1> QED  BY <1>4, <1>5

\* A node gets a vote: it blocks on pBreak, drops the vote, or keeps it to compare
\* its height.
LEMMA handleVotePreserves ==
  ASSUME IInv, NEW n \in Nodes, NEW m \in net, handleVote(n, m)
  PROVE  IInv'
<1>1. /\ m.to = n /\ ~hung[n] /\ m.type # "propose" /\ handling[n] = NoVote /\ net' = net \ {m}
      /\ UNCHANGED <<synchronous, made, sequenceLocked, slept>>
      /\ UNCHANGED <<sequenceID, chain, committing, requestPool, height2Digest, waiting>>
  BY DEF handleVote, Receives, commits
<1>2. /\ TypeOK /\ OneBlockPerHeight /\ ChainsCount /\ NextWaits /\ VotesAreNew
      /\ LeaderRound /\ ProposalsArrive
  BY DEF IInv
<1>3. m.seq = m.block /\ m.block \in DOMAIN made /\ m.block \in Heights
  BY <1>2 DEF OneBlockPerHeight, TypeOK, Message
<1> DEFINE vote == [at |-> "height", block |-> m.block, seq |-> m.seq]
<1>4. \/ hung' = [hung EXCEPT ![n] = TRUE] /\ handling' = handling /\ Equivocates(n, m)
      \/ hung' = hung /\ handling' = handling
      \/ hung' = hung /\ handling' = [handling EXCEPT ![n] = vote] /\ ~Known(n, m)
  BY DEF handleVote
<1>5. /\ \A k \in Nodes : hung'[k] = hung[k] \/ (k = n /\ Equivocates(n, m) /\ handling' = handling)
      /\ \A k \in Nodes : handling'[k] = handling[k] \/ (k = n /\ handling'[n] = vote /\ ~Known(n, m) /\ hung' = hung)
  BY <1>2, <1>4 DEF TypeOK
<1>6. /\ vote \in [at : {"height", "judge"}, block : Heights, seq : Heights]
      /\ vote.block = m.block /\ vote.seq = m.block
  BY <1>3
<1> HIDE DEF vote
<1>7. TypeOK'
  <2>1. hung' \in [Nodes -> BOOLEAN]
    BY <1>2, <1>4 DEF TypeOK
  <2>2. handling' \in [Nodes -> {NoVote} \cup [at : {"height", "judge"}, block : Heights, seq : Heights]]
    BY <1>2, <1>4, <1>6 DEF TypeOK
  <2> QED  BY <1>1, <1>2, <2>1, <2>2 DEF TypeOK
<1>8. OneBlockPerHeight' /\ ChainsCount' /\ NextWaits'
  BY <1>1, <1>2 DEF OneBlockPerHeight, ChainsCount, NextWaits
<1>9. VotesAreNew'
  BY <1>1, <1>2, <1>3, <1>5, <1>6 DEF VotesAreNew, Known
<1>10. LeaderRound'
  <2>1. hung'[Leader] = hung[Leader]
    BY <1>2, <1>3, <1>5, SyncHotstuffAssumption DEF LeaderRound, Equivocates
  <2>2. \A v \in net' : v.type = "propose" => v.to # Leader
    BY <1>1, <1>2 DEF LeaderRound
  <2> QED  BY <1>1, <1>2, <2>1, <2>2 DEF LeaderRound
<1>11. ProposalsArrive'
  <2>1. \A k \in Nodes \ {Leader} : \A b \in DOMAIN made :
          \/ height2Digest[k][b] = b
          \/ \E v \in net' : v.type = "propose" /\ v.to = k /\ v.block = b
    BY <1>1, <1>2 DEF ProposalsArrive
  <2>2. \A k \in Nodes \ {Leader} :
          hung'[k] => /\ sequenceID[k] \in DOMAIN made
                      /\ height2Digest[k][sequenceID[k]] # sequenceID[k]
    BY <1>2, <1>3, <1>5 DEF ProposalsArrive, Equivocates
  <2> QED  BY <1>1, <1>2, <2>1, <2>2 DEF ProposalsArrive
<1> QED  BY <1>7, <1>8, <1>9, <1>10, <1>11 DEF IInv

\* A handler drops the vote that it has read, or goes on to judge its block.
LEMMA CompareHeightPreserves ==
  ASSUME IInv, NEW n \in Nodes, CompareHeight(n)
  PROVE  IInv'
<1>1. /\ TypeOK /\ OneBlockPerHeight /\ ChainsCount /\ NextWaits /\ VotesAreNew
      /\ LeaderRound /\ ProposalsArrive
  BY DEF IInv
<1> DEFINE Votes == [at : {"height", "judge"}, block : Heights, seq : Heights]
<1> DEFINE judged == [handling[n] EXCEPT !.at = "judge"]
<1>2. handling[n] # NoVote /\ handling[n] \in Votes
  <2>1. handling[n].at = "height"
    BY DEF CompareHeight
  <2>2. NoVote.at = "free"
    BY DEF NoVote
  <2> QED  BY <1>1, <2>1, <2>2 DEF TypeOK
<1>3. judged \in Votes /\ judged.block = handling[n].block /\ judged.seq = handling[n].seq
  BY <1>2
<1>4. /\ handling' = [handling EXCEPT ![n] = judged] \/ handling' = [handling EXCEPT ![n] = NoVote]
      /\ UNCHANGED <<synchronous, made, sequenceID, chain, committing, requestPool, height2Digest,
                     waiting, hung, sequenceLocked, slept, net>>
  BY DEF CompareHeight, commits
<1> HIDE DEF judged, Votes
<1>5. handling \in [Nodes -> {NoVote} \cup Votes]
  BY <1>1 DEF TypeOK, Votes
<1>6. /\ handling' \in [Nodes -> {NoVote} \cup Votes]
      /\ handling'[n] = judged \/ handling'[n] = NoVote
      /\ \A k \in Nodes \ {n} : handling'[k] = handling[k]
  BY <1>3, <1>4, <1>5
<1>7. TypeOK'
  BY <1>1, <1>4, <1>6 DEF TypeOK, Votes
<1>8. OneBlockPerHeight' /\ ChainsCount' /\ NextWaits'
  BY <1>1, <1>4 DEF OneBlockPerHeight, ChainsCount, NextWaits
<1>9. VotesAreNew'
  BY <1>1, <1>2, <1>3, <1>4, <1>6 DEF VotesAreNew
<1>10. LeaderRound'
  BY <1>1, <1>4 DEF LeaderRound
<1>11. ProposalsArrive'
  BY <1>1, <1>4 DEF ProposalsArrive
<1> QED  BY <1>7, <1>8, <1>9, <1>10, <1>11 DEF IInv

\* A handler accepts the block of a vote.
LEMMA JudgeVotedPreserves ==
  ASSUME IInv, NEW n \in Nodes, JudgeVoted(n)
  PROVE  IInv'
<1>1. /\ handling[n].at = "judge" /\ Accept(n, handling[n], net)
      /\ handling' = [handling EXCEPT ![n] = NoVote]
      /\ UNCHANGED <<synchronous, made, sequenceLocked, slept>>
  BY DEF JudgeVoted
<1>2. handling[n] # NoVote
  BY <1>1 DEF NoVote
<1>3. /\ handling[n].seq = handling[n].block /\ handling[n].block \in DOMAIN made
      /\ ~Known(n, handling[n]) /\ ~hung[n]
  BY <1>2 DEF IInv, VotesAreNew, Known
<1>4. n # Leader
  BY <1>3 DEF IInv, LeaderRound, Known
<1> QED  BY <1>1, <1>3, <1>4, AcceptPreserves

\* The timer of a block fires: it is the next block, the node has no other one
\* waiting and is not blocked.
LEMMA WaitToCommitPreserves ==
  ASSUME IInv, NEW n \in Nodes, NEW w \in waiting[n], WaitToCommit(n, w)
  PROVE  IInv'
<1>0. Leader \in Nodes /\ MaxBlocks \in Nat
  BY SyncHotstuffAssumption
<1>1. /\ TypeOK /\ OneBlockPerHeight /\ ChainsCount /\ NextWaits /\ VotesAreNew
      /\ LeaderRound /\ ProposalsArrive
  BY DEF IInv
<1> DEFINE b == w.block
<1>2. b = Len(chain[n]) + 1 /\ b \in requestPool[n] /\ b \in DOMAIN made /\ b \in Heights
  BY <1>1 DEF NextWaits, OneBlockPerHeight, TypeOK
<1>3. Len(chain[n]) \in Nat /\ chain[n] \in Seq(Heights)
  BY <1>1 DEF TypeOK
<1>4. made[b].number = b
  BY <1>1, <1>2 DEF OneBlockPerHeight
<1>5. chain' = [chain EXCEPT ![n] = Append(@, b)]
  BY <1>2, <1>3, <1>4 DEF WaitToCommit, AddBlock
<1>6. /\ ~committing[n] /\ committing' = [committing EXCEPT ![n] = TRUE]
      /\ waiting' = [waiting EXCEPT ![n] = @ \ {w}]
      /\ UNCHANGED <<made, sequenceID, requestPool, height2Digest, handling, hung, sequenceLocked,
                     slept, net>>
  BY DEF WaitToCommit
<1>7. /\ chain'[n] = Append(chain[n], b) /\ committing'[n] = TRUE /\ waiting'[n] = {}
      /\ \A k \in Nodes \ {n} : /\ chain'[k] = chain[k] /\ committing'[k] = committing[k]
                               /\ waiting'[k] = waiting[k]
  BY <1>1, <1>5, <1>6 DEF TypeOK, NextWaits
<1>8. /\ chain'[n] \in Seq(Heights) /\ Len(chain'[n]) = b /\ DOMAIN chain'[n] = 1..b
      /\ \A h \in DOMAIN chain'[n] : h \in DOMAIN chain[n] \/ h = b
      /\ \A h \in DOMAIN chain[n] : chain'[n][h] = chain[n][h]
      /\ chain'[n][b] = b
  <2>1. chain'[n] = Append(chain[n], b)
    BY <1>7
  <2> HIDE DEF b
  <2> QED  BY <1>2, <1>3, <2>1
<1>9. sequenceID[n] = b
  BY <1>1, <1>2, <1>6 DEF ChainsCount
<1>10. TypeOK'
  <2>1. chain' \in [Nodes -> Seq(Heights)]
    BY <1>1, <1>5, <1>7, <1>8 DEF TypeOK
  <2>2. committing' \in [Nodes -> BOOLEAN]
    BY <1>1, <1>6 DEF TypeOK
  <2>3. waiting' \in [Nodes -> SUBSET [block : Heights, seq : Heights, age : 0..WaitTime]]
    BY <1>1, <1>6 DEF TypeOK
  <2> QED  BY <1>1, <1>6, <2>1, <2>2, <2>3 DEF TypeOK
<1>11. OneBlockPerHeight' /\ VotesAreNew' /\ ProposalsArrive'
  BY <1>1, <1>6 DEF OneBlockPerHeight, VotesAreNew, ProposalsArrive
<1>12. ChainsCount'
  <2> SUFFICES ASSUME NEW k \in Nodes
               PROVE  /\ sequenceID[k] = Len(chain'[k]) + (IF committing'[k] THEN 0 ELSE 1)
                      /\ \A h \in DOMAIN chain'[k] : chain'[k][h] = h
    BY <1>6 DEF ChainsCount
  <2>1. CASE k = n
    <3>1. \A h \in DOMAIN chain[n] : chain[n][h] = h
      BY <1>1 DEF ChainsCount
    <3>2. \A h \in DOMAIN chain'[n] : chain'[n][h] = h
      BY <1>8, <3>1
    <3>3. b + 0 = b
      BY <1>2, <1>3
    <3> QED  BY <1>7, <1>8, <1>9, <2>1, <3>2, <3>3
  <2>2. CASE k # n
    BY <1>1, <1>7, <2>2 DEF ChainsCount
  <2> QED  BY <2>1, <2>2
<1>13. NextWaits'
  BY <1>1, <1>2, <1>6, <1>7, <1>8 DEF NextWaits
<1>14. LeaderRound'
  <2>1. CASE n = Leader
    <3>1. sequenceLocked
      BY <1>1, <2>1 DEF LeaderRound
    <3>2. Len(made) = Len(chain[Leader]) + 1
      BY <1>1, <1>6, <2>1, <3>1 DEF LeaderRound
    <3>3. Len(made) = Len(chain'[Leader]) + 0
      BY <1>2, <1>3, <1>8, <2>1, <3>2
    <3> QED  BY <1>1, <1>6, <1>7, <2>1, <3>1, <3>3 DEF LeaderRound
  <2>2. CASE n # Leader
    BY <1>0, <1>1, <1>6, <1>7, <2>2 DEF LeaderRound
  <2> QED  BY <2>1, <2>2
<1> QED  BY <1>10, <1>11, <1>12, <1>13, <1>14 DEF IInv

\* A commit ends: sequenceID catches up with the chain, and the main node opens
\* sequenceLock.
LEMMA EndRoundPreserves ==
  ASSUME IInv, NEW n \in Nodes, EndRound(n)
  PROVE  IInv'
<1>0. Leader \in Nodes /\ MaxBlocks \in Nat
  BY SyncHotstuffAssumption
<1>1. /\ TypeOK /\ OneBlockPerHeight /\ ChainsCount /\ NextWaits /\ VotesAreNew
      /\ LeaderRound /\ ProposalsArrive
  BY DEF IInv
<1>2. /\ committing[n] /\ committing' = [committing EXCEPT ![n] = FALSE]
      /\ sequenceID' = [sequenceID EXCEPT ![n] = @ + 1]
      /\ sequenceLocked' = (sequenceLocked /\ n # Leader)
      /\ UNCHANGED <<made, chain, requestPool, height2Digest, waiting, handling, hung, slept, net>>
  BY DEF EndRound, Unlocked
<1>3. /\ committing'[n] = FALSE /\ sequenceID'[n] = sequenceID[n] + 1
      /\ \A k \in Nodes \ {n} : committing'[k] = committing[k] /\ sequenceID'[k] = sequenceID[k]
  BY <1>1, <1>2 DEF TypeOK
<1>4. Len(chain[n]) \in Nat /\ sequenceID[n] = Len(chain[n])
  <2>1. Len(chain[n]) \in Nat
    BY <1>1 DEF TypeOK
  <2>2. sequenceID[n] = Len(chain[n]) + 0
    BY <1>1, <1>2 DEF ChainsCount
  <2> QED  BY <2>1, <2>2
<1>5. ~hung[n]
  <2>1. CASE n = Leader
    BY <1>1, <2>1 DEF LeaderRound
  <2>2. CASE n # Leader
    <3>1. sequenceID[n] \in requestPool[n]
      BY <1>1, <1>2, <1>4 DEF NextWaits
    <3> QED  BY <1>1, <2>2, <3>1 DEF ProposalsArrive
  <2> QED  BY <2>1, <2>2
<1>6. TypeOK'
  <2>1. committing' \in [Nodes -> BOOLEAN] /\ sequenceLocked' \in BOOLEAN
    BY <1>1, <1>2 DEF TypeOK
  <2>2. sequenceID' \in [Nodes -> Nat]
    BY <1>1, <1>2 DEF TypeOK
  <2> QED  BY <1>1, <1>2, <2>1, <2>2 DEF TypeOK
<1>7. OneBlockPerHeight' /\ NextWaits' /\ VotesAreNew'
  BY <1>1, <1>2 DEF OneBlockPerHeight, NextWaits, VotesAreNew
<1>8. ChainsCount'
  <2> SUFFICES ASSUME NEW k \in Nodes
               PROVE  /\ sequenceID'[k] = Len(chain[k]) + (IF committing'[k] THEN 0 ELSE 1)
                      /\ \A h \in DOMAIN chain[k] : chain[k][h] = h
    BY <1>2 DEF ChainsCount
  <2>1. CASE k = n
    BY <1>1, <1>3, <1>4, <2>1 DEF ChainsCount
  <2>2. CASE k # n
    BY <1>1, <1>3, <2>2 DEF ChainsCount
  <2> QED  BY <2>1, <2>2
<1>9. LeaderRound'
  <2>1. CASE n = Leader
    <3>1. sequenceLocked
      BY <1>1, <1>2, <2>1 DEF LeaderRound
    <3>2. Len(made) = Len(chain[Leader])
      <4>1. Len(made) = Len(chain[Leader]) + 0
        BY <1>1, <1>2, <2>1, <3>1 DEF LeaderRound
      <4> QED  BY <1>4, <2>1, <4>1
    <3>3. waiting[Leader] = {}
      <4>1. Len(chain[Leader]) + 1 \notin DOMAIN made
        BY <1>1, <1>4, <2>1, <3>2 DEF TypeOK
      <4> QED  BY <1>0, <1>1, <4>1 DEF NextWaits, OneBlockPerHeight
    <3> QED  BY <1>1, <1>2, <1>3, <2>1, <3>2, <3>3 DEF LeaderRound
  <2>2. CASE n # Leader
    <3>1. sequenceLocked' = sequenceLocked
      BY <1>1, <1>2, <2>2 DEF TypeOK
    <3> QED  BY <1>0, <1>1, <1>2, <1>3, <2>2, <3>1 DEF LeaderRound
  <2> QED  BY <2>1, <2>2
<1>10. ProposalsArrive'
  BY <1>1, <1>2, <1>3, <1>5 DEF ProposalsArrive
<1> QED  BY <1>6, <1>7, <1>8, <1>9, <1>10 DEF IInv

\* Time changes ages only.
LEMMA TickPreserves == IInv /\ Tick => IInv'
<1> SUFFICES ASSUME IInv, Tick PROVE IInv'
  OBVIOUS
<1>1. /\ TypeOK /\ OneBlockPerHeight /\ ChainsCount /\ NextWaits /\ VotesAreNew
      /\ LeaderRound /\ ProposalsArrive
  BY DEF IInv
<1>2. MaxLatency \in Nat /\ WaitTime \in Nat /\ SleepTime \in Nat
  BY SyncHotstuffAssumption DEF WaitTime, SleepTime
<1>3. ASSUME NEW bound \in Nat, NEW age \in 0..bound PROVE Older(age, bound) \in 0..bound
  BY <1>3 DEF Older
<1> DEFINE older(m) == [m EXCEPT !.age = Older(@, MaxLatency)]
<1> DEFINE elder(w) == [w EXCEPT !.age = Older(@, WaitTime)]
<1> DEFINE Waiters == [block : Heights, seq : Heights, age : 0..WaitTime]
<1>4. /\ net' = {older(m) : m \in net} \/ net' = net
      /\ waiting' = [n \in Nodes |-> {elder(w) : w \in waiting[n]}]
      /\ slept' \in 0..SleepTime
      /\ UNCHANGED <<synchronous, made, sequenceID, chain, committing, requestPool, height2Digest,
                     handling, hung, sequenceLocked>>
  BY <1>1, <1>2, <1>3 DEF Tick, TypeOK, commits
<1>5. \A m \in Message : /\ older(m) \in Message
                         /\ older(m).type = m.type /\ older(m).to = m.to
                         /\ older(m).block = m.block /\ older(m).seq = m.seq
  <2> SUFFICES ASSUME NEW m \in Message
               PROVE  /\ older(m) \in Message
                      /\ older(m).type = m.type /\ older(m).to = m.to
                      /\ older(m).block = m.block /\ older(m).seq = m.seq
    OBVIOUS
  <2>1. Older(m.age, MaxLatency) \in 0..MaxLatency
    BY <1>2, <1>3 DEF Message
  <2> QED  BY <2>1 DEF Message
<1>6. \A w \in Waiters : elder(w) \in Waiters /\ elder(w).block = w.block
  <2> SUFFICES ASSUME NEW w \in Waiters
               PROVE  elder(w) \in Waiters /\ elder(w).block = w.block
    OBVIOUS
  <2>1. Older(w.age, WaitTime) \in 0..WaitTime
    BY <1>2, <1>3
  <2> QED  BY <2>1
<1>7. net \subseteq Message /\ waiting \in [Nodes -> SUBSET Waiters]
  BY <1>1 DEF TypeOK
<1> HIDE DEF older, elder, Waiters
<1>8. /\ net' \subseteq Message
      /\ \A m \in net' : \E v \in net : /\ m.type = v.type /\ m.to = v.to
                                       /\ m.block = v.block /\ m.seq = v.seq
      /\ \A v \in net : \E m \in net' : /\ m.type = v.type /\ m.to = v.to
                                       /\ m.block = v.block /\ m.seq = v.seq
  BY <1>4, <1>5, <1>7
<1>9. /\ waiting' \in [Nodes -> SUBSET Waiters]
      /\ \A n \in Nodes : waiting'[n] = {elder(w) : w \in waiting[n]}
  BY <1>4, <1>6, <1>7
<1>10. TypeOK'
  BY <1>1, <1>4, <1>8, <1>9 DEF TypeOK, Waiters
<1>11. OneBlockPerHeight'
  <2>1. \A m \in net' : m.seq = m.block /\ m.block \in DOMAIN made
    BY <1>1, <1>8 DEF OneBlockPerHeight
  <2> QED  BY <1>1, <1>4, <2>1 DEF OneBlockPerHeight
<1>12. ChainsCount' /\ VotesAreNew'
  <2>1. ChainsCount'
    BY <1>1, <1>4 DEF ChainsCount
  <2>2. VotesAreNew'
    BY <1>1, <1>4 DEF VotesAreNew
  <2> QED  BY <2>1, <2>2
<1>13. NextWaits'
  <2> SUFFICES ASSUME NEW n \in Nodes
               PROVE  /\ \A w \in waiting'[n] : /\ w.block = Len(chain[n]) + 1
                                                /\ w.block \in requestPool[n]
                      /\ \A v, w \in waiting'[n] : v = w
                      /\ committing[n] => Len(chain[n]) \in requestPool[n]
    BY <1>4 DEF NextWaits
  <2>1. waiting[n] \subseteq Waiters
    BY <1>7
  <2> QED  BY <1>1, <1>6, <1>9, <2>1 DEF NextWaits
<1>14. LeaderRound'
  <2>1. waiting[Leader] = {} => waiting'[Leader] = {}
    BY <1>9, SyncHotstuffAssumption
  <2>2. \A m \in net' : m.type = "propose" => m.to # Leader
    BY <1>1, <1>8 DEF LeaderRound
  <2> QED  BY <1>1, <1>4, <2>1, <2>2 DEF LeaderRound
<1>15. ProposalsArrive'
  <2>1. \A n \in Nodes \ {Leader} : \A b \in DOMAIN made :
          \/ height2Digest[n][b] = b
          \/ \E m \in net' : m.type = "propose" /\ m.to = n /\ m.block = b
    BY <1>1, <1>8 DEF ProposalsArrive
  <2> QED  BY <1>1, <1>4, <2>1 DEF ProposalsArrive
<1> QED  BY <1>10, <1>11, <1>12, <1>13, <1>14, <1>15 DEF IInv

\* Every step preserves the inductive invariant.
THEOREM NextPreserves == IInv /\ [Next]_vars => IInv'
<1> SUFFICES ASSUME IInv, [Next]_vars PROVE IInv'
  OBVIOUS
<1>1. CASE Propose
  BY <1>1, ProposePreserves
<1>2. ASSUME NEW n \in Nodes, NEW m \in net, handlePropose(n, m) PROVE IInv'
  BY <1>2, handleProposePreserves
<1>3. ASSUME NEW n \in Nodes, NEW m \in net, handleVote(n, m) PROVE IInv'
  BY <1>3, handleVotePreserves
<1>4. ASSUME NEW n \in Nodes, NEW w \in waiting[n], WaitToCommit(n, w) PROVE IInv'
  BY <1>4, WaitToCommitPreserves
<1>5. CASE Tick
  BY <1>5, TickPreserves
<1>6. ASSUME NEW n \in Nodes, CompareHeight(n) \/ JudgeVoted(n) \/ EndRound(n) PROVE IInv'
  BY <1>6, CompareHeightPreserves, JudgeVotedPreserves, EndRoundPreserves
<1>7. CASE UNCHANGED vars
  <2>1. UNCHANGED <<synchronous, made, sequenceID, chain, committing, requestPool, height2Digest,
                    waiting, handling, hung, sequenceLocked, slept, net>>
    BY <1>7 DEF vars, state, commits
  <2>2. TypeOK' /\ OneBlockPerHeight' /\ NextWaits' /\ VotesAreNew'
    BY <2>1 DEF IInv, TypeOK, OneBlockPerHeight, NextWaits, VotesAreNew
  <2>3. ChainsCount'
    BY <2>1 DEF IInv, ChainsCount
  <2>4. LeaderRound'
    BY <2>1 DEF IInv, LeaderRound
  <2>5. ProposalsArrive'
    BY <2>1 DEF IInv, ProposalsArrive
  <2> QED  BY <2>2, <2>3, <2>4, <2>5 DEF IInv
<1> QED  BY <1>1, <1>2, <1>3, <1>4, <1>5, <1>6, <1>7 DEF Next

\* The inductive invariant holds in every reachable state.
THEOREM HotstuffInvariant == Spec => []IInv
<1> QED  BY InitEstablishes, NextPreserves, PTL DEF Spec

-----------------------------------------------------------------------------
\* Two nodes never have different blocks at a height, whatever the delays: each
\* chain is the sequence of the main node's proposals, up to its length.
THEOREM NodesAgree == Spec => []Agreement
<1>1. IInv => Agreement
  <2> SUFFICES ASSUME IInv PROVE Agreement
    OBVIOUS
  <2>1. TypeOK /\ \A n \in Nodes : \A h \in DOMAIN chain[n] : chain[n][h] = h
    BY DEF IInv, ChainsCount
  <2> QED  BY <2>1 DEF Agreement
<1> QED  BY <1>1, HotstuffInvariant, PTL

\* sequenceID, which WaitToCommit advances whatever AddBlock does, is the height
\* after the chain whenever no commit is under way.
THEOREM SequenceFollowsChain == Spec => []SequenceIsHeight
<1>1. IInv => SequenceIsHeight
  BY DEF IInv, ChainsCount, SequenceIsHeight
<1> QED  BY <1>1, HotstuffInvariant, PTL

\* The block that a node waits to commit extends its chain until it is added, and is
\* the only one, although handlers read the chain and sequenceID at different times
\* and may accept it from a vote.
THEOREM CommitsStayValid == Spec => []WaitsForNext
<1>1. IInv => WaitsForNext
  <2> SUFFICES ASSUME IInv, NEW n \in Nodes, NEW w \in waiting[n]
               PROVE  /\ made[w.block].number = Len(chain[n]) + 1
                      /\ made[w.block].parent = CurrentBlock(n)
                      /\ \A v \in waiting[n] : v = w
    BY DEF WaitsForNext
  <2>1. /\ w.block = Len(chain[n]) + 1 /\ w.block \in DOMAIN made
        /\ \A v \in waiting[n] : v = w
    BY DEF IInv, NextWaits, OneBlockPerHeight
  <2>2. made[w.block].number = w.block /\ made[w.block].parent = w.block - 1
    BY <2>1 DEF IInv, OneBlockPerHeight
  <2>3. CurrentBlock(n) = Len(chain[n]) /\ Len(chain[n]) \in Nat
    BY CurrentIsHeight DEF IInv
  <2> QED  BY <2>1, <2>2, <2>3
<1> QED  BY <1>1, HotstuffInvariant, PTL

\* A node blocked on pBreak still has the proposal of its height to come.
THEOREM HangsAreOvertaken == Spec => []HangOnlyOvertaken
<1>1. IInv => HangOnlyOvertaken
  <2> SUFFICES ASSUME IInv, NEW n \in Nodes, hung[n]
               PROVE  /\ n # Leader
                      /\ \E m \in net : m.type = "propose" /\ m.to = n /\ m.seq = sequenceID[n]
    BY DEF HangOnlyOvertaken
  <2>1. n # Leader
    BY DEF IInv, LeaderRound
  <2>2. PICK m \in net : m.type = "propose" /\ m.to = n /\ m.block = sequenceID[n]
    BY <2>1 DEF IInv, ProposalsArrive
  <2>3. m.seq = m.block
    BY <2>2 DEF IInv, OneBlockPerHeight
  <2> QED  BY <2>1, <2>2, <2>3
<1> QED  BY <1>1, HotstuffInvariant, PTL

-----------------------------------------------------------------------------
(***************************************************************************)
(* Synchronous behaviours.  Between two proposals a node that is not       *)
(* blocked goes through three phases, each with its place in time: the     *)
(* proposal is on its way for as long as Propose has slept, at most        *)
(* MaxLatency; the commit was started at most MaxLatency after the         *)
(* proposal and takes WaitTime; then the node has every block.  When       *)
(* Propose has slept SleepTime only the last phase is possible.  A block   *)
(* learned from a vote only starts the second phase earlier.  The sleep    *)
(* after the last proposal is not counted.                                 *)
(***************************************************************************)
ToCome(n) ==
  /\ Len(chain[n]) + 1 = Len(made) /\ waiting[n] = {} /\ Len(made) \notin requestPool[n]
  /\ \E m \in net : /\ m.type = "propose" /\ m.to = n /\ m.block = Len(made)
                    /\ Len(made) < MaxBlocks => m.age = slept

Waits(n) ==
  /\ Len(chain[n]) + 1 = Len(made)
  /\ \E w \in waiting[n] :
       Len(made) < MaxBlocks => w.age <= slept /\ slept <= w.age + MaxLatency

HasAll(n) == Len(chain[n]) = Len(made)

KeepsPace == \A n \in Nodes \ {Leader} : ~hung[n] => ToCome(n) \/ Waits(n) \/ HasAll(n)

NothingSkipped ==
  \A n \in Nodes : \A b \in requestPool[n] :
    b <= Len(chain[n]) \/ \E w \in waiting[n] : w.block = b

InTime == synchronous => KeepsPace /\ NothingSkipped

\* The main node proposes when the other nodes have everything, and its own commit
\* waits.
LEMMA ProposeInTime == IInv /\ InTime /\ Propose => InTime'
<1> SUFFICES ASSUME IInv, InTime, Propose, synchronous PROVE KeepsPace' /\ NothingSkipped'
  BY DEF InTime, Propose
<1> DEFINE block == Len(made) + 1
<1>0. Leader \in Nodes /\ MaxBlocks \in Nat /\ MaxLatency \in Nat \ {0}
  BY SyncHotstuffAssumption
<1>1. /\ TypeOK /\ OneBlockPerHeight /\ ChainsCount /\ NextWaits /\ LeaderRound
      /\ KeepsPace /\ NothingSkipped
  BY DEF IInv, InTime
<1>2. Len(made) \in Nat /\ DOMAIN made = 1..Len(made) /\ block \in Heights
  BY <1>0, <1>1 DEF TypeOK, Propose, Heights
<1>3. sequenceID[Leader] = block
  BY <1>0, <1>1 DEF LeaderRound, Propose, MayPropose, ChainsCount
<1>4. slept = SleepTime /\ Len(made') = block /\ Len(made) < MaxBlocks
  BY <1>0, <1>1, <1>2 DEF Propose, MayPropose, TypeOK
<1>5. /\ net' = net \cup Broadcast("propose", Leader, block, block)
      /\ requestPool' = [requestPool EXCEPT ![Leader] = @ \cup {block}]
      /\ waiting' = [waiting EXCEPT ![Leader] = @ \cup {Waiter(block, block)}]
      /\ slept' = 0
      /\ UNCHANGED <<chain, hung>>
  BY <1>3 DEF Propose, commits
<1>6. NothingSkipped'
  <2>1. /\ requestPool'[Leader] = requestPool[Leader] \cup {block}
        /\ waiting'[Leader] = waiting[Leader] \cup {Waiter(block, block)}
        /\ Waiter(block, block).block = block
    BY <1>0, <1>1, <1>5 DEF TypeOK, Waiter
  <2>2. \A n \in Nodes \ {Leader} : requestPool'[n] = requestPool[n] /\ waiting'[n] = waiting[n]
    BY <1>1, <1>5 DEF TypeOK
  <2>3. \A b \in requestPool'[Leader] :
          b <= Len(chain'[Leader]) \/ \E w \in waiting'[Leader] : w.block = b
    BY <1>0, <1>1, <1>5, <2>1 DEF NothingSkipped
  <2>4. \A n \in Nodes \ {Leader} : \A b \in requestPool'[n] :
          b <= Len(chain'[n]) \/ \E w \in waiting'[n] : w.block = b
    BY <1>1, <1>5, <2>2 DEF NothingSkipped
  <2> QED  BY <2>3, <2>4 DEF NothingSkipped
<1>7. KeepsPace'
  <2> SUFFICES ASSUME NEW n \in Nodes \ {Leader}, ~hung[n] PROVE ToCome(n)'
    BY <1>5 DEF KeepsPace
  <2>1. requestPool'[n] = requestPool[n] /\ waiting'[n] = waiting[n]
    BY <1>1, <1>5 DEF TypeOK
  <2>2. ~ToCome(n)
    BY <1>0, <1>1, <1>4 DEF ToCome, TypeOK, Message, SleepTime
  <2>3. ~Waits(n)
    <3>1. ASSUME NEW w \in waiting[n] PROVE w.age \in 0..WaitTime
      BY <1>1 DEF TypeOK
    <3> QED  BY <1>0, <1>4, <3>1 DEF Waits, SleepTime, WaitTime
  <2>4. Len(chain[n]) + 1 = block
    BY <1>1, <2>2, <2>3 DEF KeepsPace, HasAll
  <2>5. waiting[n] = {} /\ block \notin requestPool[n]
    <3>1. block \notin DOMAIN made
      BY <1>2
    <3> QED  BY <1>1, <2>4, <3>1 DEF NextWaits, OneBlockPerHeight
  <2>6. \E m \in net' : m.type = "propose" /\ m.to = n /\ m.block = block /\ m.age = 0
    <3>1. PICK m \in Broadcast("propose", Leader, block, block) :
            m.type = "propose" /\ m.to = n /\ m.block = block /\ m.age = 0
      BY <1>0, <1>2, BroadcastType
    <3> QED  BY <1>5, <3>1
  <2> QED  BY <1>4, <1>5, <2>1, <2>4, <2>5, <2>6 DEF ToCome
<1> QED  BY <1>6, <1>7

\* A message that leaves the node as it is, and was not the proposal the node waits
\* for, leaves every phase as it is.
LEMMA TakeInTime ==
  ASSUME IInv, InTime, NEW n \in Nodes, NEW m \in net, m.to = n,
         m.type = "propose" => m.block \in requestPool[n],
         net \ {m} \subseteq net', \A k \in Nodes : hung[k] => hung'[k],
         UNCHANGED <<chain, requestPool, waiting>>,
         UNCHANGED <<synchronous, made, sequenceLocked, slept>>
  PROVE  InTime'
<1> SUFFICES ASSUME synchronous PROVE KeepsPace' /\ NothingSkipped'
  BY DEF InTime
<1>1. KeepsPace /\ NothingSkipped
  BY DEF InTime
<1>2. NothingSkipped'
  BY <1>1 DEF NothingSkipped
<1>3. ASSUME NEW k \in Nodes \ {Leader}, ~hung'[k]
      PROVE  (ToCome(k) \/ Waits(k) \/ HasAll(k))'
  <2>1. CASE ToCome(k)
    <3>1. PICK v \in net : /\ v.type = "propose" /\ v.to = k /\ v.block = Len(made)
                           /\ Len(made) < MaxBlocks => v.age = slept
      BY <2>1 DEF ToCome
    <3>2. v # m
      BY <2>1, <3>1 DEF ToCome
    <3>3. v \in net'
      BY <3>2
    <3> QED  BY <2>1, <3>1, <3>3 DEF ToCome
  <2>2. CASE Waits(k)
    BY <2>2 DEF Waits
  <2>3. CASE HasAll(k)
    BY <2>3 DEF HasAll
  <2> QED  BY <1>1, <1>3, <2>1, <2>2, <2>3 DEF KeepsPace
<1> QED  BY <1>2, <1>3 DEF KeepsPace

\* A node accepts the block that it waits for and starts to commit it at once; any
\* other block it accepts is in its chain.
LEMMA AcceptInTime ==
  ASSUME IInv, InTime, NEW n \in Nodes \ {Leader}, NEW m, m.seq = m.block,
         m.block \in DOMAIN made, NEW msgs, msgs \subseteq net,
         \A v \in net \ msgs : v.type = "propose" => v.to = n /\ v.block = m.block,
         ~hung[n], ~Known(n, m), Accept(n, m, msgs),
         UNCHANGED <<synchronous, made, sequenceLocked, slept>>
  PROVE  InTime'
<1> SUFFICES ASSUME synchronous PROVE KeepsPace' /\ NothingSkipped'
  BY DEF InTime
<1>0. MaxLatency \in Nat /\ MaxBlocks \in Nat
  BY SyncHotstuffAssumption
<1>1. /\ TypeOK /\ OneBlockPerHeight /\ ChainsCount /\ NextWaits
      /\ KeepsPace /\ NothingSkipped
  BY DEF IInv, InTime
<1>2. /\ m.block \in Nat /\ Len(made) \in Nat /\ m.block <= Len(made)
      /\ made[m.block].parent = m.block - 1
  <2>1. Len(made) \in Nat /\ DOMAIN made = 1..Len(made)
    BY <1>1 DEF TypeOK
  <2>2. made[m.block].parent = m.block - 1
    BY <1>1 DEF OneBlockPerHeight
  <2> QED  BY <2>1, <2>2
<1>3. /\ requestPool' = [requestPool EXCEPT ![n] = @ \cup {m.block}]
      /\ msgs \subseteq net' /\ chain' = chain /\ hung' = hung
      /\ \A k \in Nodes \ {n} : waiting'[k] = waiting[k]
  <2>1. \A k \in Nodes \ {n} : waiting'[k] = waiting[k]
    BY <1>1 DEF Accept, TypeOK
  <2> QED  BY <2>1 DEF Accept, commits
<1>4. /\ requestPool'[n] = requestPool[n] \cup {m.block}
      /\ \A k \in Nodes \ {n} : requestPool'[k] = requestPool[k]
  BY <1>1, <1>3 DEF TypeOK
<1>5. CurrentBlock(n) = Len(chain[n]) /\ Len(chain[n]) \in Nat
  BY <1>1, CurrentIsHeight
<1>6. ASSUME NEW k \in Nodes \ {Leader, n}, ~hung[k]
      PROVE  (ToCome(k) \/ Waits(k) \/ HasAll(k))'
  <2>1. CASE ToCome(k)
    <3>1. PICK v \in net : /\ v.type = "propose" /\ v.to = k /\ v.block = Len(made)
                           /\ Len(made) < MaxBlocks => v.age = slept
      BY <2>1 DEF ToCome
    <3>2. v \in net'
      BY <1>3, <3>1
    <3> QED  BY <1>3, <1>4, <2>1, <3>1, <3>2 DEF ToCome
  <2>2. CASE Waits(k)
    BY <1>3, <2>2 DEF Waits
  <2>3. CASE HasAll(k)
    BY <1>3, <2>3 DEF HasAll
  <2> QED  BY <1>1, <1>6, <2>1, <2>2, <2>3 DEF KeepsPace
<1>7. CASE m.block = Len(chain[n]) + 1
  <2>1. waiting' = [waiting EXCEPT ![n] = @ \cup {Waiter(m.block, m.seq)}]
    BY <1>2, <1>5, <1>7 DEF Accept, HandleinPropose
  <2>2. /\ waiting'[n] = waiting[n] \cup {Waiter(m.block, m.seq)}
        /\ Waiter(m.block, m.seq).block = m.block /\ Waiter(m.block, m.seq).age = 0
    BY <1>1, <2>1 DEF TypeOK, Waiter
  <2>3. ToCome(n)
    <3>1. ~HasAll(n)
      BY <1>2, <1>5, <1>7 DEF HasAll
    <3>2. waiting[n] = {}
      BY <1>1, <1>7 DEF NextWaits, Known
    <3> QED  BY <1>1, <3>1, <3>2 DEF KeepsPace, Waits
  <2>4. Len(made) < MaxBlocks => slept \in 0..MaxLatency
    BY <1>1, <2>3 DEF ToCome, TypeOK, Message
  <2>5. Waits(n)'
    BY <1>0, <1>3, <2>2, <2>3, <2>4 DEF Waits, ToCome
  <2>6. NothingSkipped'
    BY <1>1, <1>3, <1>4, <2>2 DEF NothingSkipped
  <2> QED  BY <1>3, <1>6, <2>5, <2>6 DEF KeepsPace
<1>8. CASE m.block # Len(chain[n]) + 1
  <2>1. waiting' = waiting
    BY <1>2, <1>5, <1>8 DEF Accept, HandleinPropose
  <2>2. Len(made) <= Len(chain[n]) + 1
    BY <1>1, <1>2, <1>5 DEF KeepsPace, ToCome, Waits, HasAll
  <2>3. m.block <= Len(chain[n])
    BY <1>2, <1>5, <1>8, <2>2
  <2>4. NothingSkipped'
    BY <1>1, <1>3, <1>4, <2>1, <2>3 DEF NothingSkipped
  <2>5. CASE ToCome(n)
    <3>1. PICK v \in net : /\ v.type = "propose" /\ v.to = n /\ v.block = Len(made)
                           /\ Len(made) < MaxBlocks => v.age = slept
      BY <2>5 DEF ToCome
    <3>2. v.block # m.block
      BY <1>2, <1>5, <2>3, <2>5, <3>1 DEF ToCome
    <3>3. v \in net' /\ Len(made) \notin requestPool'[n]
      BY <1>3, <1>4, <2>5, <3>1, <3>2 DEF ToCome
    <3> QED  BY <1>3, <1>6, <2>1, <2>4, <2>5, <3>1, <3>3 DEF KeepsPace, ToCome
  <2>6. CASE Waits(n)
    BY <1>3, <1>6, <2>1, <2>4, <2>6 DEF KeepsPace, Waits
  <2>7. CASE HasAll(n)
    BY <1>3, <1>6, <2>4, <2>7 DEF KeepsPace, HasAll
  <2> QED  BY <1>1, <2>5, <2>6, <2>7 DEF KeepsPace
<1> QED  BY <1>7, <1>8

\* A commit ends the second phase: the block it adds is the one that waited.
LEMMA WaitToCommitInTime ==
  ASSUME IInv, InTime, NEW n \in Nodes, NEW w \in waiting[n], WaitToCommit(n, w)
  PROVE  InTime'
<1> SUFFICES ASSUME synchronous PROVE KeepsPace' /\ NothingSkipped'
  BY DEF InTime, WaitToCommit
<1>1. TypeOK /\ OneBlockPerHeight /\ NextWaits /\ KeepsPace /\ NothingSkipped
  BY DEF IInv, InTime
<1>2. /\ w.block = Len(chain[n]) + 1 /\ w.block \in DOMAIN made /\ made[w.block].number = w.block
      /\ Len(chain[n]) \in Nat /\ chain[n] \in Seq(Heights)
  BY <1>1 DEF NextWaits, OneBlockPerHeight, TypeOK
<1>3. /\ chain' = [chain EXCEPT ![n] = Append(@, w.block)]
      /\ waiting' = [waiting EXCEPT ![n] = @ \ {w}]
      /\ UNCHANGED <<made, requestPool, hung, slept, net>>
  BY <1>2 DEF WaitToCommit, AddBlock
<1>4. /\ Len(chain'[n]) = Len(chain[n]) + 1 /\ waiting'[n] = {}
      /\ \A k \in Nodes \ {n} : chain'[k] = chain[k] /\ waiting'[k] = waiting[k]
  BY <1>1, <1>2, <1>3 DEF TypeOK, NextWaits
<1>5. NothingSkipped'
  <2>1. \A b \in requestPool[n] : b <= Len(chain[n]) + 1
    <3>1. \A b \in requestPool[n] :
            b \in Nat /\ (b <= Len(chain[n]) \/ b = Len(chain[n]) + 1)
      BY <1>1, SyncHotstuffAssumption DEF NothingSkipped, NextWaits, TypeOK, Heights
    <3> QED  BY <1>2, <3>1
  <2> QED  BY <1>1, <1>3, <1>4, <2>1 DEF NothingSkipped
<1>6. ASSUME NEW k \in Nodes \ {Leader}, ~hung[k]
      PROVE  (ToCome(k) \/ Waits(k) \/ HasAll(k))'
  <2>1. CASE k # n
    BY <1>1, <1>3, <1>4, <1>6, <2>1 DEF KeepsPace, ToCome, Waits, HasAll
  <2>2. CASE k = n
    <3>1. ~ToCome(n)
      BY DEF ToCome
    <3>2. ~HasAll(n)
      BY <1>1, <1>2 DEF HasAll, TypeOK
    <3>3. Waits(n)
      BY <1>1, <1>6, <2>2, <3>1, <3>2 DEF KeepsPace
    <3> QED  BY <1>3, <1>4, <2>2, <3>3 DEF Waits, HasAll
  <2> QED  BY <2>1, <2>2
<1> QED  BY <1>3, <1>5, <1>6 DEF KeepsPace

\* While nothing is late, the age of what a node waits for grows with the sleep.
LEMMA TickInTime == IInv /\ InTime /\ Tick => InTime'
<1> SUFFICES ASSUME IInv, InTime, Tick, synchronous PROVE KeepsPace' /\ NothingSkipped'
  BY DEF InTime, Tick
<1>0. MaxLatency \in Nat \ {0}
  BY SyncHotstuffAssumption
<1>1. TypeOK /\ KeepsPace /\ NothingSkipped /\ ~Late
  BY DEF IInv, InTime, Tick
<1> DEFINE older(m) == [m EXCEPT !.age = Older(@, MaxLatency)]
<1> DEFINE elder(w) == [w EXCEPT !.age = Older(@, WaitTime)]
<1> DEFINE Waiters == [block : Heights, seq : Heights, age : 0..WaitTime]
<1>2. /\ net' = {older(m) : m \in net}
      /\ \A n \in Nodes : waiting'[n] = {elder(w) : w \in waiting[n]}
      /\ Len(made) < MaxBlocks => slept' = Older(slept, SleepTime)
      /\ slept \in 0..SleepTime
      /\ UNCHANGED <<synchronous, made, chain, requestPool, hung>>
  BY <1>1 DEF Tick, TypeOK, commits
<1>3. \A m \in Message : /\ older(m).type = m.type /\ older(m).to = m.to
                         /\ older(m).block = m.block /\ older(m).age = Older(m.age, MaxLatency)
  BY DEF Message
<1>4. \A w \in Waiters : elder(w).block = w.block /\ elder(w).age = Older(w.age, WaitTime)
  OBVIOUS
<1>5. net \subseteq Message /\ \A n \in Nodes : waiting[n] \subseteq Waiters
  BY <1>1 DEF TypeOK
<1>6. \A w \in Waiters : w.age \in 0..WaitTime
  OBVIOUS
<1> HIDE DEF older, elder, Waiters
<1>7. NothingSkipped'
  <2> SUFFICES ASSUME NEW n \in Nodes, NEW b \in requestPool[n]
               PROVE  b <= Len(chain[n]) \/ \E w \in waiting'[n] : w.block = b
    BY <1>2 DEF NothingSkipped
  <2>1. CASE \E w \in waiting[n] : w.block = b
    <3>1. PICK w \in waiting[n] : w.block = b
      BY <2>1
    <3>2. elder(w) \in waiting'[n] /\ elder(w).block = b
      BY <1>2, <1>4, <1>5, <3>1
    <3> QED  BY <3>2
  <2> QED  BY <1>1, <2>1 DEF NothingSkipped
<1>8. ASSUME NEW n \in Nodes \ {Leader}, ~hung[n]
      PROVE  (ToCome(n) \/ Waits(n) \/ HasAll(n))'
  <2>1. CASE ToCome(n)
    <3>1. PICK m \in net : /\ m.type = "propose" /\ m.to = n /\ m.block = Len(made)
                           /\ Len(made) < MaxBlocks => m.age = slept
      BY <2>1 DEF ToCome
    <3>2. m.age \in 0..MaxLatency /\ m.age # MaxLatency
      BY <1>1, <1>5, <1>8, <3>1 DEF Late, Message
    <3>3. Len(made) < MaxBlocks => slept' = Older(m.age, MaxLatency)
      BY <1>0, <1>2, <3>1, <3>2 DEF Older, SleepTime
    <3>4. /\ older(m) \in net' /\ older(m).type = "propose" /\ older(m).to = n
          /\ older(m).block = Len(made) /\ (Len(made) < MaxBlocks => older(m).age = slept')
      BY <1>2, <1>3, <1>5, <3>1, <3>3
    <3>5. waiting'[n] = {}
      BY <1>2, <2>1 DEF ToCome
    <3> QED  BY <1>2, <2>1, <3>4, <3>5 DEF ToCome
  <2>2. CASE Waits(n)
    <3>1. PICK w \in waiting[n] :
            Len(made) < MaxBlocks => w.age <= slept /\ slept <= w.age + MaxLatency
      BY <2>2 DEF Waits
    <3>2. w.age \in 0..WaitTime /\ w.age # WaitTime
      BY <1>1, <1>5, <1>6, <3>1 DEF Late
    <3>3. elder(w) \in waiting'[n] /\ elder(w).age = w.age + 1
      <4>1. Older(w.age, WaitTime) = w.age + 1
        BY <1>0, <3>2 DEF Older, WaitTime
      <4> QED  BY <1>2, <1>4, <1>5, <3>1, <4>1
    <3>4. Len(made) < MaxBlocks => slept' = slept + 1
      BY <1>0, <1>2, <3>1, <3>2 DEF Older, SleepTime, WaitTime
    <3>5. Len(made) < MaxBlocks => w.age + 1 <= slept + 1 /\ slept + 1 <= w.age + 1 + MaxLatency
      BY <1>0, <1>2, <3>1, <3>2 DEF SleepTime, WaitTime
    <3>6. Len(made) < MaxBlocks => /\ elder(w).age <= slept'
                                   /\ slept' <= elder(w).age + MaxLatency
      BY <3>3, <3>4, <3>5
    <3> QED  BY <1>2, <2>2, <3>3, <3>6 DEF Waits
  <2>3. CASE HasAll(n)
    BY <1>2, <2>3 DEF HasAll
  <2> QED  BY <1>1, <1>8, <2>1, <2>2, <2>3 DEF KeepsPace
<1> QED  BY <1>2, <1>7, <1>8 DEF KeepsPace

\* Nodes that keep their bounds never skip a block: the sleep between proposals is
\* longer than a round can take.
THEOREM SynchronousNodesKeepUp == Spec => []SynchronousKeepsUp
<1>1. Init => InTime
  <2> SUFFICES ASSUME Init PROVE KeepsPace /\ NothingSkipped
    BY DEF InTime
  <2>1. Len(made) = 0 /\ \A n \in Nodes : Len(chain[n]) = 0 /\ requestPool[n] = {}
    BY DEF Init
  <2> QED  BY <2>1 DEF KeepsPace, HasAll, NothingSkipped
<1>2. ASSUME IInv, InTime, [Next]_vars PROVE InTime'
  <2>1. CASE Propose
    BY <1>2, <2>1, ProposeInTime
  <2>2. ASSUME NEW n \in Nodes, NEW m \in net, handlePropose(n, m) PROVE InTime'
    <3>1. /\ m.to = n /\ ~hung[n] /\ m.type = "propose" /\ n # Leader
          /\ m.seq = m.block /\ m.block \in DOMAIN made
          /\ UNCHANGED <<synchronous, made, sequenceLocked, slept>>
      BY <1>2, <2>2 DEF handlePropose, Receives, IInv, LeaderRound, OneBlockPerHeight
    <3>2. CASE Known(n, m)
      <4>1. net \ {m} \subseteq net' /\ UNCHANGED <<chain, requestPool, waiting, hung>>
        BY <2>2, <3>2 DEF handlePropose, commits
      <4> QED  BY <1>2, <3>1, <3>2, <4>1, TakeInTime DEF Known
    <3>3. CASE ~Known(n, m)
      <4> DEFINE msgs == net \ {m}
      <4>1. /\ msgs \subseteq net
            /\ \A v \in net \ msgs : v.type = "propose" => v.to = n /\ v.block = m.block
        BY <3>1
      <4>2. Accept(n, m, msgs)
        BY <2>2, <3>3 DEF handlePropose
      <4> HIDE DEF msgs
      <4> QED  BY <1>2, <3>1, <3>3, <4>1, <4>2, AcceptInTime
    <3> QED  BY <3>2, <3>3
  <2>3. ASSUME NEW n \in Nodes, NEW m \in net, handleVote(n, m) PROVE InTime'
    <3>1. /\ m.to = n /\ m.type # "propose" /\ hung \in [Nodes -> BOOLEAN]
          /\ net' = net \ {m} /\ UNCHANGED <<chain, requestPool, waiting>>
          /\ hung' = hung \/ hung' = [hung EXCEPT ![n] = TRUE]
          /\ UNCHANGED <<synchronous, made, sequenceLocked, slept>>
      BY <1>2, <2>3 DEF handleVote, Receives, IInv, TypeOK, commits
    <3>2. \A k \in Nodes : hung[k] => hung'[k]
      BY <3>1
    <3> QED  BY <1>2, <3>1, <3>2, TakeInTime
  <2>4. ASSUME NEW n \in Nodes, JudgeVoted(n) PROVE InTime'
    <3>1. /\ Accept(n, handling[n], net) /\ handling[n] # NoVote
          /\ UNCHANGED <<synchronous, made, sequenceLocked, slept>>
      BY <2>4 DEF JudgeVoted, NoVote
    <3>2. /\ handling[n].seq = handling[n].block /\ handling[n].block \in DOMAIN made
          /\ ~Known(n, handling[n]) /\ ~hung[n]
      BY <1>2, <3>1 DEF IInv, VotesAreNew, Known
    <3>3. n # Leader
      BY <1>2, <3>2 DEF IInv, LeaderRound, Known
    <3> QED  BY <1>2, <3>1, <3>2, <3>3, AcceptInTime
  <2>5. ASSUME NEW n \in Nodes, NEW w \in waiting[n], WaitToCommit(n, w) PROVE InTime'
    BY <1>2, <2>5, WaitToCommitInTime
  <2>6. CASE Tick
    BY <1>2, <2>6, TickInTime
  <2>7. CASE UNCHANGED <<synchronous, made, chain, requestPool, waiting, hung, slept, net>>
    BY <1>2, <2>7 DEF InTime, KeepsPace, ToCome, Waits, HasAll, NothingSkipped
  <2>8. ASSUME \/ \E n \in Nodes : CompareHeight(n) \/ EndRound(n)
               \/ UNCHANGED vars
        PROVE  InTime'
    BY <2>7, <2>8 DEF CompareHeight, EndRound, commits, vars, state
  <2> QED  BY <1>2, <2>1, <2>2, <2>3, <2>4, <2>5, <2>6, <2>8 DEF Next
<1>3. IInv /\ InTime => SynchronousKeepsUp
  <2> SUFFICES ASSUME IInv, InTime, synchronous, NEW n \in Nodes, NEW b \in Skipped(n)
               PROVE  FALSE
    BY DEF SynchronousKeepsUp
  <2>1. /\ b \in requestPool[n] /\ \A w \in waiting[n] : w.block # b
        /\ \A h \in DOMAIN chain[n] : chain[n][h] # b
    BY DEF Skipped
  <2>2. b \in DOMAIN made /\ b \in Heights /\ b <= Len(chain[n])
    BY <2>1 DEF InTime, NothingSkipped, IInv, OneBlockPerHeight, TypeOK
  <2>3. chain[n] \in Seq(Heights)
    BY DEF IInv, TypeOK
  <2>4. b \in DOMAIN chain[n]
    BY <2>2, <2>3, SyncHotstuffAssumption DEF Heights
  <2>5. chain[n][b] = b
    BY <2>4 DEF IInv, ChainsCount
  <2> QED  BY <2>1, <2>4, <2>5
<1> QED  BY <1>1, <1>2, <1>3, HotstuffInvariant, PTL DEF Spec
=============================================================================
