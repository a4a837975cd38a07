-------------------------------- MODULE Pbft --------------------------------
(***************************************************************************)
(* The PBFT consensus of one shard: consensus_shard/pbft_all, without a    *)
(* view change, with one fixed main node (view 0) and honest nodes.        *)
(*                                                                         *)
(* Every message handler of a node runs from start to end under            *)
(* tcpPoolLock, so a handler is one action.  Propose runs in a goroutine   *)
(* of the main node without that lock; it holds sequenceLock from the      *)
(* generation of a block until handleCommit executes it, and no handler    *)
(* reads what it writes before its broadcast, so it is one action too.     *)
(* networks.Broadcast starts one goroutine per receiver and TcpDial drops  *)
(* a message it cannot write: messages arrive in any order, at most once.  *)
(*                                                                         *)
(* A request is named by its digest, which is its position in the sequence *)
(* of all requests (the hash covers the propose time, so it is unique).    *)
(***************************************************************************)
EXTENDS Integers, FiniteSets, Sequences

CONSTANTS
  Nodes,      \* the nodes of the shard
  Leader,     \* the node whose NodeID equals view
  MaxHeight,  \* bound: how many requests Propose makes
  MaxLoss     \* bound: how many messages TcpDial drops

ASSUME PbftAssumption ==
  /\ IsFiniteSet(Nodes)
  /\ Leader \in Nodes
  /\ MaxHeight \in Nat
  /\ MaxLoss \in Nat

Digests == 1..MaxHeight

VARIABLES
  requests,           \* all requests made: the block's number, its parent, and
                      \* the SeqID that every message about it carries
  sequenceLock,       \* main node: a proposal is outstanding
  sequenceID,         \* node -> the sequence number it works on
  chain,              \* node -> CurChain, the digests of its blocks after genesis
  requestPool,        \* node -> digests whose request it holds
  height2Digest,      \* node -> sequence number -> digest
  cntPrepareConfirm,  \* node -> digest -> Prepare messages counted
  cntCommitConfirm,   \* node -> digest -> Commit messages counted
  isCommitBordcast,   \* node -> digests it broadcast a Commit for
  isReply,            \* node -> digests it treats as answered
  askForLock,         \* node -> askForLock is held
  hung,               \* node -> a handler waits for a lock only a handler frees
  fatal,              \* some Unlock found its mutex unlocked
  prePrepares,        \* node -> digests of the PrePrepares on their way to it
  prepares,           \* node -> digest -> Prepares on their way to it
  commits,            \* node -> digest -> Commits on their way to it
  requestOlds,        \* RequestOldMessages on their way to the main node
  sendOlds,           \* SendOldMessages on their way to their requester
  lost                \* messages dropped so far

locks == <<sequenceLock, askForLock, hung, fatal>>
network == <<prePrepares, prepares, commits, requestOlds, sendOlds, lost>>
stores == <<requestPool, height2Digest>>
votes == <<cntPrepareConfirm, cntCommitConfirm, isCommitBordcast, isReply>>
vars == <<requests, sequenceID, chain, stores, votes, locks, network>>

-----------------------------------------------------------------------------
(***************************************************************************)
(* The chain and the counting rules.                                       *)
(***************************************************************************)

malicious_nums == (Cardinality(Nodes) - 1) \div 3

\* Prepares needed: the main node sends none, any other node counts itself.
specifiedcntWithoutSelf(n) == 2 * malicious_nums  \* mutant
specifiedcnt(n) ==
  IF n = Leader THEN 2 * malicious_nums ELSE 2 * malicious_nums - 1

required_cnt == 2 * malicious_nums

\* The hash of the last block; 0 is the genesis block.
CurrentBlock(c) == IF c = <<>> THEN 0 ELSE c[Len(c)]

\* A block and the SeqID of its round, generated on top of the leader's chain.
NewRequest ==
  [number |-> Len(chain[Leader]) + 1,
   parent |-> CurrentBlock(chain[Leader]),
   seqID  |-> sequenceID[Leader]]

\* It also compares the transaction root of the header with the block's transactions,
\* which the proposer has just computed from them.
IsValidBlock(c, d) == requests[d].parent = CurrentBlock(c)

\* AddBlock ignores a block that is not the next by number; it does not look
\* at the parent.
AddBlockAnyNumber(c, d) == Append(c, d)  \* mutant
AddBlock(c, d) ==
  IF requests[d].number = Len(c) + 1 THEN Append(c, d) ELSE c

\* AddBlock for every block of q in turn.  The blocks have consecutive numbers
\* (OldInOrder below), so once one is accepted all that follow it are.
AddBlocksUnchecked(c, q) == c \o q  \* mutant
AddBlocks(c, q) ==
  IF \E i \in DOMAIN q : requests[q[i]].number = Len(c) + 1
    THEN LET i == CHOOSE i \in DOMAIN q : requests[q[i]].number = Len(c) + 1
         IN  c \o SubSeq(q, i, Len(q))
    ELSE c

\* A map with one more binding.
PutOffByOne(m, h, d) ==  \* mutant
  [x \in DOMAIN m \cup {h + 1} |-> IF x = h + 1 THEN d ELSE m[x]]
Put(m, h, d) == [x \in DOMAIN m \cup {h} |-> IF x = h THEN d ELSE m[x]]

\* networks.Broadcast skips the sender.
Broadcast(net, from, d) ==
  [to \in Nodes |-> IF to = from THEN net[to] ELSE [net[to] EXCEPT ![d] = @ + 1]]

-----------------------------------------------------------------------------
Init ==
  /\ requests = <<>>
  /\ sequenceLock = FALSE
  /\ sequenceID = [n \in Nodes |-> 1]
  /\ chain = [n \in Nodes |-> <<>>]
  /\ requestPool = [n \in Nodes |-> {}]
  /\ height2Digest = [n \in Nodes |-> <<>>]
  /\ cntPrepareConfirm = [n \in Nodes |-> [d \in Digests |-> 0]]
  /\ cntCommitConfirm = [n \in Nodes |-> [d \in Digests |-> 0]]
  /\ isCommitBordcast = [n \in Nodes |-> {}]
  /\ isReply = [n \in Nodes |-> {}]
  /\ askForLock = [n \in Nodes |-> FALSE]
  /\ hung = [n \in Nodes |-> FALSE]
  /\ fatal = FALSE
  /\ prePrepares = [n \in Nodes |-> {}]
  /\ prepares = [n \in Nodes |-> [d \in Digests |-> 0]]
  /\ commits = [n \in Nodes |-> [d \in Digests |-> 0]]
  /\ requestOlds = {}
  /\ sendOlds = {}
  /\ lost = 0

\* Propose waits for sequenceLock.
mayProposeAgain == TRUE  \* mutant
mayPropose == ~sequenceLock

\* One turn of the loop of Propose.
Propose ==
  LET d == Len(requests) + 1 IN
  /\ Len(requests) < MaxHeight
  /\ mayPropose
  /\ sequenceLock' = TRUE
  /\ requests' = Append(requests, NewRequest)
  /\ requestPool' = [requestPool EXCEPT ![Leader] = @ \cup {d}]
  /\ height2Digest' = [height2Digest EXCEPT ![Leader] = Put(@, sequenceID[Leader], d)]
  /\ prePrepares' = [n \in Nodes |-> IF n = Leader THEN prePrepares[n]
                                                    ELSE prePrepares[n] \cup {d}]
  /\ UNCHANGED <<sequenceID, chain, votes, askForLock, hung, fatal,
                 prepares, commits, requestOlds, sendOlds, lost>>

\* Honest nodes send the digest of the request along with it, so the test of the two
\* never fails.  A request is kept whatever its sequence number; a Prepare answers it only
\* when the node has reached that number and the block extends its chain.
handlePrePrepare(n, d) ==
  /\ ~hung[n]
  /\ d \in prePrepares[n]
  /\ prePrepares' = [prePrepares EXCEPT ![n] = @ \ {d}]
  /\ requestPool' = [requestPool EXCEPT ![n] = @ \cup {d}]
  /\ height2Digest' = [height2Digest EXCEPT ![n] = Put(@, requests[d].seqID, d)]
  /\ prepares' = IF sequenceID[n] >= requests[d].seqID /\ IsValidBlock(chain[n], d)
                   THEN Broadcast(prepares, n, d)
                   ELSE prepares
  /\ UNCHANGED <<requests, sequenceID, chain, votes, locks,
                 commits, requestOlds, sendOlds, lost>>

refusePrepare(n, d) ==
  /\ d \notin requestPool[n] \/ sequenceID[n] < requests[d].seqID
  /\ UNCHANGED <<cntPrepareConfirm, isCommitBordcast, commits>>

acceptPrepare(n, d) ==
  /\ d \in requestPool[n]
  /\ sequenceID[n] >= requests[d].seqID
  /\ cntPrepareConfirm' = [cntPrepareConfirm EXCEPT ![n][d] = @ + 1]
  /\ IF cntPrepareConfirm'[n][d] >= specifiedcnt(n) /\ d \notin isCommitBordcast[n]
       THEN /\ commits' = Broadcast(commits, n, d)
            /\ isCommitBordcast' = [isCommitBordcast EXCEPT ![n] = @ \cup {d}]
       ELSE UNCHANGED <<commits, isCommitBordcast>>

\* A Prepare that comes before its PrePrepare, or before the node has reached
\* its sequence number, is dropped for good.
handlePrepare(n, d) ==
  /\ ~hung[n]
  /\ prepares[n][d] > 0
  /\ prepares' = [prepares EXCEPT ![n][d] = @ - 1]
  /\ refusePrepare(n, d) \/ acceptPrepare(n, d)
  /\ UNCHANGED <<requests, sequenceID, chain, stores, cntCommitConfirm, isReply,
                 locks, prePrepares, requestOlds, sendOlds, lost>>

-----------------------------------------------------------------------------
(***************************************************************************)
(* handleCommit: a Commit is always counted; the one that completes the    *)
(* quorum executes the request, or asks the main node for it when the node *)
(* does not hold it.                                                       *)
(***************************************************************************)

quorumReachedEveryTime(n, d) ==  \* mutant
  cntCommitConfirm[n][d] + 1 >= required_cnt
quorumReached(n, d) ==
  /\ cntCommitConfirm[n][d] + 1 >= required_cnt
  /\ d \notin isReply[n]

\* The main node frees sequenceLock, whichever branch it took.
unlockSequence(n) ==
  IF n = Leader
    THEN sequenceLock' = FALSE /\ fatal' = (fatal \/ ~sequenceLock)
    ELSE UNCHANGED <<sequenceLock, fatal>>

countCommit(n, d) ==
  /\ ~quorumReached(n, d)
  /\ UNCHANGED <<sequenceID, chain, isReply, locks, requestOlds>>

\* sequenceID advances even when AddBlock ignored the block.
executeCommit(n, d) ==
  /\ quorumReached(n, d)
  /\ d \in requestPool[n]
  /\ chain' = [chain EXCEPT ![n] = AddBlock(@, d)]
  /\ isReply' = [isReply EXCEPT ![n] = @ \cup {d}]
  /\ sequenceID' = [sequenceID EXCEPT ![n] = @ + 1]
  /\ unlockSequence(n)
  /\ UNCHANGED <<askForLock, hung, requestOlds>>

askForOld(n, d) ==
  /\ quorumReached(n, d)
  /\ d \notin requestPool[n]
  /\ ~askForLock[n]
  /\ isReply' = [isReply EXCEPT ![n] = @ \cup {d}]
  /\ askForLock' = [askForLock EXCEPT ![n] = TRUE]
  /\ requestOlds' = requestOlds \cup
       {[from |-> n, start |-> sequenceID[n] + 1, end |-> requests[d].seqID]}
  /\ unlockSequence(n)
  /\ UNCHANGED <<sequenceID, chain, hung>>

\* askForLock is held until handleSendOldSeq runs, which needs the tcpPoolLock
\* this handler keeps: the node never handles another message.
waitForAskForLock(n, d) ==
  /\ quorumReached(n, d)
  /\ d \notin requestPool[n]
  /\ askForLock[n]
  /\ isReply' = [isReply EXCEPT ![n] = @ \cup {d}]
  /\ hung' = [hung EXCEPT ![n] = TRUE]
  /\ UNCHANGED <<sequenceID, chain, sequenceLock, askForLock, fatal, requestOlds>>

handleCommit(n, d) ==
  /\ ~hung[n]
  /\ commits[n][d] > 0
  /\ commits' = [commits EXCEPT ![n][d] = @ - 1]
  /\ cntCommitConfirm' = [cntCommitConfirm EXCEPT ![n][d] = @ + 1]
  /\ \/ countCommit(n, d)
     \/ executeCommit(n, d)
     \/ askForOld(n, d)
     \/ waitForAskForLock(n, d)
  /\ UNCHANGED <<requests, stores, cntPrepareConfirm, isCommitBordcast,
                 prePrepares, prepares, sendOlds, lost>>

-----------------------------------------------------------------------------
(***************************************************************************)
(* Catching up: the main node answers a range of sequence numbers with the *)
(* requests it holds, up to the first it lacks.                            *)
(***************************************************************************)

served(h) ==
  /\ h \in DOMAIN height2Digest[Leader]
  /\ height2Digest[Leader][h] \in requestPool[Leader]

\* The last height of the unbroken run of heights served from start on.
lastServed(start, end) ==
  CHOOSE h \in (start - 1)..end : /\ \A k \in start..h : served(k)
                                  /\ h < end => ~served(h + 1)

oldRequestsOneEarly(start, end) ==  \* mutant
  IF start > end
    THEN <<>>
    ELSE [i \in 1..(lastServed(start, end) - start + 1) |->
            height2Digest[Leader][start + i - 2]]
oldRequests(start, end) ==
  IF start > end
    THEN <<>>
    ELSE [i \in 1..(lastServed(start, end) - start + 1) |->
            height2Digest[Leader][start + i - 1]]

handleRequestOldSeq(m) ==
  /\ ~hung[Leader]
  /\ m \in requestOlds
  /\ requestOlds' = requestOlds \ {m}
  /\ sendOlds' = sendOlds \cup
       {[to |-> m.from, start |-> m.start, end |-> m.end,
         old |-> oldRequests(m.start, m.end)]}
  /\ UNCHANGED <<requests, sequenceID, chain, stores, votes, locks,
                 prePrepares, prepares, commits, lost>>

\* HandleforSequentialRequest: the blocks are added only if all were sent.
HandleforSequentialRequest(c, m) ==
  IF m.end - m.start + 1 = Len(m.old) THEN AddBlocks(c, m.old) ELSE c

\* height2Digest with the digests of an answer, from its first height on.
PutAll(m, start, q) ==
  [x \in DOMAIN m \cup start..(start + Len(q) - 1) |->
     IF x >= start /\ x < start + Len(q) THEN q[x - start + 1] ELSE m[x]]

\* The sequence number a node works on after an answer.
sequenceAfterEnd(m) == m.end  \* mutant
sequenceAfter(m) == m.end + 1

\* An answer frees the lock, even if it holds nothing.
freeAskForLockIfAny(m) ==  \* mutant
  askForLock' = [askForLock EXCEPT ![m.to] = m.old = <<>>]
freeAskForLock(m) == askForLock' = [askForLock EXCEPT ![m.to] = FALSE]

\* The requester marks the requests as answered, moves to the number after the
\* range, and prepares the request of that number if it already holds a valid one.
handleSendOldSeq(m) ==
  LET n       == m.to
      digests == {m.old[i] : i \in DOMAIN m.old}
      next    == sequenceAfter(m)
      pool    == requestPool[n] \cup digests
      index   == PutAll(height2Digest[n], m.start, m.old)
      c       == HandleforSequentialRequest(chain[n], m)
  IN
  /\ ~hung[n]
  /\ m \in sendOlds
  /\ sendOlds' = sendOlds \ {m}
  /\ chain' = [chain EXCEPT ![n] = c]
  /\ requestPool' = [requestPool EXCEPT ![n] = pool]
  /\ height2Digest' = [height2Digest EXCEPT ![n] = index]
  /\ isReply' = [isReply EXCEPT ![n] = @ \cup digests]
  /\ sequenceID' = [sequenceID EXCEPT ![n] = next]
  /\ prepares' = IF next \in DOMAIN index /\ index[next] \in pool
                    /\ IsValidBlock(c, index[next])
                   THEN Broadcast(prepares, n, index[next])
                   ELSE prepares
  /\ freeAskForLock(m)
  /\ fatal' = (fatal \/ ~askForLock[n])
  /\ UNCHANGED <<requests, cntPrepareConfirm, cntCommitConfirm, isCommitBordcast,
                 sequenceLock, hung, prePrepares, commits, requestOlds, lost>>

-----------------------------------------------------------------------------
(***************************************************************************)
(* networks.TcpDial gives a message up when it cannot dial or write.       *)
(***************************************************************************)
TcpDialFails ==
  /\ lost < MaxLoss
  /\ lost' = lost + 1
  /\ \/ \E n \in Nodes : \E d \in prePrepares[n] :
          /\ prePrepares' = [prePrepares EXCEPT ![n] = @ \ {d}]
          /\ UNCHANGED <<prepares, commits, requestOlds, sendOlds>>
     \/ \E n \in Nodes, d \in Digests :
          /\ prepares[n][d] > 0
          /\ prepares' = [prepares EXCEPT ![n][d] = @ - 1]
          /\ UNCHANGED <<prePrepares, commits, requestOlds, sendOlds>>
     \/ \E n \in Nodes, d \in Digests :
          /\ commits[n][d] > 0
          /\ commits' = [commits EXCEPT ![n][d] = @ - 1]
          /\ UNCHANGED <<prePrepares, prepares, requestOlds, sendOlds>>
     \/ \E m \in requestOlds :
          /\ requestOlds' = requestOlds \ {m}
          /\ UNCHANGED <<prePrepares, prepares, commits, sendOlds>>
     \/ \E m \in sendOlds :
          /\ sendOlds' = sendOlds \ {m}
          /\ UNCHANGED <<prePrepares, prepares, commits, requestOlds>>
  /\ UNCHANGED <<requests, sequenceID, chain, stores, votes, locks>>

Next ==
  \/ Propose
  \/ \E n \in Nodes, d \in Digests :
       handlePrePrepare(n, d) \/ handlePrepare(n, d) \/ handleCommit(n, d)
  \/ \E m \in requestOlds : handleRequestOldSeq(m)
  \/ \E m \in sendOlds : handleSendOldSeq(m)
  \/ TcpDialFails

Spec == Init /\ [][Next]_vars

\* Propose loops for ever, and every message that arrives is handled: one
\* goroutine reads each connection and takes the tcpPoolLock in its turn.
Fairness ==
  /\ WF_vars(Propose)
  /\ \A n \in Nodes, d \in Digests :
       /\ WF_vars(handlePrePrepare(n, d))
       /\ WF_vars(handlePrepare(n, d))
       /\ WF_vars(handleCommit(n, d))
  /\ WF_vars(\E m \in requestOlds : handleRequestOldSeq(m))
  /\ WF_vars(\E m \in sendOlds : handleSendOldSeq(m))

FairSpec == Spec /\ Fairness
-----------------------------------------------------------------------------
(***************************************************************************)
(* Properties.                                                             *)
(***************************************************************************)

Maps == UNION {[S -> Digests] : S \in SUBSET Digests}
Requests == [number : Nat, parent : Nat, seqID : Nat]
RequestOldMessages == [from : Nodes, start : Nat, end : Nat]
SendOldMessages == [to : Nodes, start : Nat, end : Nat, old : Seq(Digests)]

\* The types of the state.  A sequence number that height2Digest knows is within
\* the heights proposed.
TypeOK ==
  /\ requests \in Seq(Requests)
  /\ Len(requests) <= MaxHeight
  /\ sequenceID \in [Nodes -> Nat]
  /\ chain \in [Nodes -> Seq(Digests)]
  /\ requestPool \in [Nodes -> SUBSET Digests]
  /\ height2Digest \in [Nodes -> Maps]
  /\ cntPrepareConfirm \in [Nodes -> [Digests -> Nat]]
  /\ cntCommitConfirm \in [Nodes -> [Digests -> Nat]]
  /\ isCommitBordcast \in [Nodes -> SUBSET Digests]
  /\ isReply \in [Nodes -> SUBSET Digests]
  /\ sequenceLock \in BOOLEAN
  /\ askForLock \in [Nodes -> BOOLEAN]
  /\ hung \in [Nodes -> BOOLEAN]
  /\ fatal \in BOOLEAN
  /\ prePrepares \in [Nodes -> SUBSET Digests]
  /\ prepares \in [Nodes -> [Digests -> Nat]]
  /\ commits \in [Nodes -> [Digests -> Nat]]
  /\ requestOlds \subseteq RequestOldMessages
  /\ sendOlds \subseteq SendOldMessages
  /\ lost \in 0..MaxLoss

\* "all node in the shard maintain the same blockchain" (pbft.go:31): of two
\* chains one is a prefix of the other, whatever was lost or came late.
ChainAgreement ==
  \A m, n \in Nodes : \A i \in DOMAIN chain[m] \cap DOMAIN chain[n] :
    chain[m][i] = chain[n][i]

\* Each block of a chain names the block below it as its parent.  AddBlock does
\* not check that: it compares numbers only.
ChainLinked ==
  \A n \in Nodes : \A i \in DOMAIN chain[n] :
    requests[chain[n][i]].parent = IF i = 1 THEN 0 ELSE chain[n][i - 1]

\* The main node holds sequenceLock exactly while a request of its own is not in
\* its chain, so a block is always generated on top of all earlier ones; and no
\* mutex is unlocked that is not locked, which ends a Go process.
LockDiscipline ==
  /\ sequenceLock <=> Len(requests) = Len(chain[Leader]) + 1
  /\ ~sequenceLock <=> Len(requests) = Len(chain[Leader])
  /\ ~fatal

\* A node never works on a sequence number its chain already has, and the main
\* node always works on the one after its chain.
SequenceAhead ==
  /\ \A n \in Nodes : sequenceID[n] > Len(chain[n])
  /\ sequenceID[Leader] = Len(chain[Leader]) + 1

\* The answer to a catch-up request carries, at each place, the block of the
\* height asked for at that place.
OldInOrder ==
  \A m \in sendOlds : \A i \in DOMAIN m.old :
    m.old[i] \in DOMAIN requests /\ requests[m.old[i]].number = m.start + i - 1

\* A node blocks on askForLock (messageHandle.go:215) only while it holds that lock
\* itself, which the main node never does; and it holds it only while its request or
\* the answer is under way: a lock that is held without either costs a lost message.
asking == {m.from : m \in requestOlds} \cup {m.to : m \in sendOlds}
unanswered == {n \in Nodes : askForLock[n]} \ asking

AskForLockFreed ==
  /\ \A n \in Nodes : hung[n] => n # Leader /\ askForLock[n]
  /\ Cardinality(unanswered) <= lost

\* The shard is a replicated ledger: every step is one of module ShardLedger, with
\* the requests in the order they were proposed as the log, and the chains as the
\* nodes' ledgers.
Ledger == INSTANCE ShardLedger WITH
  Blocks <- Digests, log <- [i \in 1..Len(requests) |-> i], ledger <- chain
LedgerSpec == Ledger!Spec

\* Without losses the first round ends: whatever order the messages arrive in,
\* the main node executes the first block it proposes.
FirstRoundCompletes == Len(requests) >= 1 ~> Len(chain[Leader]) >= 1

\* What docs/en/executionFlow.md says of a round: the main node's proposal goes
\* through consensus and its block gets onto the chain.
EveryRoundCompletes ==
  \A k \in 1..MaxHeight : Len(requests) >= k ~> Len(chain[Leader]) >= k

\* "if this node is left behind, so it need to requst blocks"
\* (messageHandle.go:212): after the answer the node has the blocks up to the
\* end of the range.
LaggardCatchesUp ==
  [][\A m \in sendOlds : handleSendOldSeq(m) => Len(chain'[m.to]) >= m.end]_vars
=============================================================================
