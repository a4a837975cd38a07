---------------------------- MODULE SyncHotstuff ----------------------------
(***************************************************************************)
(* Synchronous HotStuff in one shard, with discrete time.                  *)
(*                                                                         *)
(* The main node proposes a block, every node that finds it valid votes    *)
(* for it and commits it when 2 * MaxLatency have passed.  Votes carry the *)
(* block, and a vote for a later height is treated like its proposal.      *)
(*                                                                         *)
(* A timer never fires early.  In a synchronous behaviour a message takes  *)
(* at most MaxLatency and a timer is not late either; in the others both   *)
(* may take any time.                                                      *)
(*                                                                         *)
(* Message handlers of a node exclude each other (tcpPoolLock), and so do  *)
(* the WaitToCommit goroutines that commit (node.lock), but the two locks  *)
(* have nothing in common: handlers see the block in the chain before      *)
(* sequenceID has advanced, and a commit may come between two reads of a   *)
(* handler.  Hence WaitToCommit is two steps and handleVote three.         *)
(* handlePropose reads only the chain, once, and Propose runs while        *)
(* sequenceLock keeps the main node from committing: one step each.        *)
(*                                                                         *)
(* A block is named by its place in "made", which stands for its digest.   *)
(* cntVoteConfirm and isReply are written and never read, and no node      *)
(* loses a request it has stored, so that the request for old blocks in    *)
(* WaitToCommit is never made.                                             *)
(***************************************************************************)
EXTENDS Integers, Sequences

CONSTANTS
  Nodes,
  Leader,      \* the node with NodeID = view
  MaxLatency,  \* params.MaxLatency, in ticks
  MaxBlocks    \* bound: blocks proposed

ASSUME SyncHotstuffAssumption ==
  /\ Leader \in Nodes
  /\ MaxLatency \in Nat \ {0} /\ MaxBlocks \in Nat \ {0}

VARIABLES
  synchronous,    \* do messages and timers keep their bounds?
  made,           \* blocks proposed so far: number and parent (0 is genesis)
  sequenceID,     \* node -> sequenceID
  chain,          \* node -> the blocks it has added
  committing,     \* node -> is a WaitToCommit between Commit and sequenceID += 1?
  requestPool,    \* node -> blocks whose request it has stored
  height2Digest,  \* node -> height -> the block it has for it, or 0
  waiting,        \* node -> its WaitToCommit goroutines that wait for their timer or lock
  handling,       \* node -> the vote that its handleVote has read, and how far it is
  hung,           \* node -> does a handler block on the nil channel pBreak?
  sequenceLocked, \* sequenceLock of the main node
  slept,          \* ticks that Propose has slept, up to SleepTime
  net             \* messages in transit

commits == <<sequenceID, chain, committing>>
state == <<commits, requestPool, height2Digest, waiting, handling, hung>>
vars == <<synchronous, made, state, sequenceLocked, slept, net>>

Heights == 1..MaxBlocks
SleepTimeShort == MaxLatency  \* mutant
SleepTime == 4 * MaxLatency
WaitTime == 2 * MaxLatency

NoVote == [at |-> "free", block |-> 0, seq |-> 0]

CurrentBlock(n) == IF chain[n] = <<>> THEN 0 ELSE chain[n][Len(chain[n])]

Init ==
  /\ synchronous \in BOOLEAN
  /\ made = <<>>
  /\ sequenceID = [n \in Nodes |-> 1]
  /\ chain = [n \in Nodes |-> <<>>]
  /\ committing = [n \in Nodes |-> FALSE]
  /\ requestPool = [n \in Nodes |-> {}]
  /\ height2Digest = [n \in Nodes |-> [h \in Heights |-> 0]]
  /\ waiting = [n \in Nodes |-> {}]
  /\ handling = [n \in Nodes |-> NoVote]
  /\ hung = [n \in Nodes |-> FALSE]
  /\ sequenceLocked = FALSE /\ slept = 0
  /\ net = {}

-----------------------------------------------------------------------------
Broadcast(type, from, block, seq) ==
  {[type |-> type, from |-> from, to |-> n, block |-> block, seq |-> seq, age |-> 0] :
     n \in Nodes \ {from}}

Waiter(block, seq) == [block |-> block, seq |-> seq, age |-> 0]

(***************************************************************************)
(* The main node proposes on its newest block.  It holds sequenceLock      *)
(* until it has committed.                                                 *)
(***************************************************************************)
MayProposeAgain == slept = SleepTime  \* mutant
MayPropose == slept = SleepTime /\ ~sequenceLocked

Propose ==
  LET block == Len(made) + 1
      seq == sequenceID[Leader]
  IN
  /\ Len(made) < MaxBlocks /\ seq \in Heights
  /\ MayPropose
  /\ made' = Append(made, [number |-> Len(chain[Leader]) + 1, parent |-> CurrentBlock(Leader)])
  /\ sequenceLocked' = TRUE /\ slept' = 0
  /\ requestPool' = [requestPool EXCEPT ![Leader] = @ \cup {block}]
  /\ height2Digest' = [height2Digest EXCEPT ![Leader][seq] = block]
  /\ waiting' = [waiting EXCEPT ![Leader] = @ \cup {Waiter(block, seq)}]
  /\ net' = net \cup Broadcast("propose", Leader, block, seq)
  /\ UNCHANGED <<synchronous, commits, handling, hung>>

KnownNever(n, m) == FALSE  \* mutant
Known(n, m) == m.block \in requestPool[n]

\* HandleinPropose: IsValidUTXOBlock compares the parent with the current block.
HandleinProposeAny(n, m) == TRUE  \* mutant
HandleinPropose(n, m) == made[m.block].parent = CurrentBlock(n)

\* A new block is stored whether it is valid or not, and voted for and committed
\* only if it is valid now.
Accept(n, m, msgs) ==
  /\ requestPool' = [requestPool EXCEPT ![n] = @ \cup {m.block}]
  /\ height2Digest' = [height2Digest EXCEPT ![n][m.seq] = m.block]
  /\ IF HandleinPropose(n, m)
       THEN /\ net' = msgs \cup Broadcast("vote", n, m.block, m.seq)
            /\ waiting' = [waiting EXCEPT ![n] = @ \cup {Waiter(m.block, m.seq)}]
       ELSE /\ net' = msgs
            /\ UNCHANGED waiting
  /\ UNCHANGED <<commits, hung>>

Receives(n, m) ==
  /\ m \in net /\ m.to = n
  /\ ~hung[n] /\ handling[n] = NoVote
  /\ UNCHANGED <<synchronous, made, sequenceLocked, slept>>

\* A block known from a vote is voted for now, whether it was valid or not.
handlePropose(n, m) ==
  /\ Receives(n, m) /\ m.type = "propose"
  /\ UNCHANGED handling
  /\ IF Known(n, m)
       THEN /\ net' = (net \ {m}) \cup Broadcast("revote", n, m.block, m.seq)
            /\ UNCHANGED <<commits, requestPool, height2Digest, waiting, hung>>
       ELSE Accept(n, m, net \ {m})

(***************************************************************************)
(* handleVote.  A vote for another block at the current height is taken    *)
(* for an equivocation, and the handler sends on pBreak, which is nil: it  *)
(* blocks for ever and keeps tcpPoolLock.                                  *)
(***************************************************************************)
EquivocatesAnyHeight(n, m) == height2Digest[n][m.seq] # m.block  \* mutant
Equivocates(n, m) == height2Digest[n][m.seq] # m.block /\ m.seq = sequenceID[n]

\* A known block needs nothing more, at whatever height: only handlers of this node
\* add requests, and those of the main node it has added itself.
handleVote(n, m) ==
  /\ Receives(n, m) /\ m.type \in {"vote", "revote"}
  /\ net' = net \ {m}
  /\ IF Equivocates(n, m)
       THEN hung' = [hung EXCEPT ![n] = TRUE] /\ UNCHANGED handling
       ELSE /\ handling' = IF Known(n, m) THEN handling
              ELSE [handling EXCEPT ![n] = [at |-> "height", block |-> m.block, seq |-> m.seq]]
            /\ UNCHANGED hung
  /\ UNCHANGED <<commits, requestPool, height2Digest, waiting>>

\* It reads sequenceID again, and only a block for a later height is judged.
CompareHeight(n) ==
  LET m == handling[n] IN
  /\ m.at = "height"
  /\ handling' = [handling EXCEPT ![n] =
       IF m.seq > sequenceID[n] THEN [m EXCEPT !.at = "judge"] ELSE NoVote]
  /\ UNCHANGED <<synchronous, made, commits, requestPool, height2Digest, waiting, hung,
                 sequenceLocked, slept, net>>

\* HandleinPropose reads the newest block, and the rest is as for a proposal.
JudgeVoted(n) ==
  /\ handling[n].at = "judge"
  /\ handling' = [handling EXCEPT ![n] = NoVote]
  /\ Accept(n, handling[n], net)
  /\ UNCHANGED <<synchronous, made, sequenceLocked, slept>>

(***************************************************************************)
(* WaitToCommit after its timer has fired and it has node.lock: Commit     *)
(* changes the chain, then three database transactions and the messages    *)
(* about the block follow, and only then sequenceID advances.              *)
(*                                                                         *)
(* AddBlock ignores a block with another number than the next, but         *)
(* sequenceID always advances.                                             *)
(***************************************************************************)
AddBlock(ch, b) == IF made[b].number = Len(ch) + 1 THEN Append(ch, b) ELSE ch

WaitToCommit(n, w) ==
  /\ w \in waiting[n] /\ w.age = WaitTime
  /\ ~committing[n]
  /\ waiting' = [waiting EXCEPT ![n] = @ \ {w}]
  /\ chain' = [chain EXCEPT ![n] = AddBlock(@, w.block)]
  /\ committing' = [committing EXCEPT ![n] = TRUE]
  /\ UNCHANGED <<synchronous, made, sequenceID, requestPool, height2Digest, handling, hung,
                 sequenceLocked, slept, net>>

UnlockedNever(n) == sequenceLocked  \* mutant
Unlocked(n) == sequenceLocked /\ n # Leader

EndRound(n) ==
  /\ committing[n]
  /\ committing' = [committing EXCEPT ![n] = FALSE]
  /\ sequenceID' = [sequenceID EXCEPT ![n] = @ + 1]
  /\ sequenceLocked' = Unlocked(n)
  /\ UNCHANGED <<synchronous, made, chain, requestPool, height2Digest, waiting, handling, hung,
                 slept, net>>

(***************************************************************************)
(* Time passes.  A handler takes no time, but a commit may take long.      *)
(***************************************************************************)
Older(age, bound) == IF age < bound THEN age + 1 ELSE age

Late ==
  \/ \E m \in net : m.age = MaxLatency /\ ~hung[m.to]
  \/ \E n \in Nodes : handling[n] # NoVote
  \/ \E n \in Nodes : \E w \in waiting[n] : w.age = WaitTime

Tick ==
  /\ synchronous => ~Late
  /\ net' = IF synchronous THEN {[m EXCEPT !.age = Older(@, MaxLatency)] : m \in net} ELSE net
  /\ waiting' = [n \in Nodes |-> {[w EXCEPT !.age = Older(@, WaitTime)] : w \in waiting[n]}]
  /\ slept' = IF Len(made) < MaxBlocks THEN Older(slept, SleepTime) ELSE slept
  /\ UNCHANGED <<synchronous, made, commits, requestPool, height2Digest, handling, hung,
                 sequenceLocked>>

Next ==
  \/ Propose
  \/ \E n \in Nodes : \E m \in net : handlePropose(n, m) \/ handleVote(n, m)
  \/ \E n \in Nodes : CompareHeight(n) \/ JudgeVoted(n)
  \/ \E n \in Nodes : \E w \in waiting[n] : WaitToCommit(n, w)
  \/ \E n \in Nodes : EndRound(n)
  \/ Tick

Spec == Init /\ [][Next]_vars

\* Go runs every goroutine that is ready, TCP delivers what was sent, and time
\* goes on.
FairSpec ==
  /\ Spec
  /\ WF_vars(Propose) /\ WF_vars(Tick)
  /\ \A n \in Nodes :
       /\ WF_vars(\E m \in net : handlePropose(n, m))
       /\ WF_vars(\E m \in net : handleVote(n, m))
       /\ WF_vars(CompareHeight(n)) /\ WF_vars(JudgeVoted(n))
       /\ WF_vars(\E w \in waiting[n] : WaitToCommit(n, w)) /\ WF_vars(EndRound(n))

-----------------------------------------------------------------------------
(***************************************************************************)
(* Properties.                                                             *)
(***************************************************************************)

Message ==
  [type : {"propose", "vote", "revote"}, from : Nodes, to : Nodes,
   block : Heights, seq : Heights, age : 0..MaxLatency]

\* The variables have the types that the Go declarations give them.
TypeOK ==
  /\ made \in Seq([number : Heights, parent : 0..MaxBlocks]) /\ Len(made) <= MaxBlocks
  /\ sequenceID \in [Nodes -> Nat]
  /\ chain \in [Nodes -> Seq(Heights)]
  /\ requestPool \in [Nodes -> SUBSET Heights]
  /\ height2Digest \in [Nodes -> [Heights -> 0..MaxBlocks]]
  /\ waiting \in [Nodes -> SUBSET [block : Heights, seq : Heights, age : 0..WaitTime]]
  /\ committing \in [Nodes -> BOOLEAN]
  /\ handling \in [Nodes -> {NoVote} \cup [at : {"height", "judge"}, block : Heights, seq : Heights]]
  /\ hung \in [Nodes -> BOOLEAN] /\ sequenceLocked \in BOOLEAN /\ slept \in 0..SleepTime
  /\ net \subseteq Message

\* However late messages and timers are, two nodes never have different blocks at
\* a height: the chain of one is a prefix of the other's.  (The first conjunct is
\* the type invariant.)
Agreement ==
  /\ TypeOK
  /\ \A m, n \in Nodes : \A h \in DOMAIN chain[m] \cap DOMAIN chain[n] :
       chain[m][h] = chain[n][h]

\* sequenceID is the height after the chain at every node, and one behind it only
\* while a WaitToCommit holds node.lock, although it advances also when AddBlock
\* ignores the block: no commit is repeated, and none is in vain.
SequenceIsHeight ==
  \A n \in Nodes : sequenceID[n] = Len(chain[n]) + (IF committing[n] THEN 0 ELSE 1)

\* A block is judged when it comes and added 2 * MaxLatency later: it still extends
\* the chain then, and no other block waits to take its place.  This holds also for
\* a block that a vote brought while the one before was being committed, and whose
\* proposal comes afterwards.
WaitsForNext ==
  \A n \in Nodes : \A w \in waiting[n] :
    /\ made[w.block].number = Len(chain[n]) + 1 /\ made[w.block].parent = CurrentBlock(n)
    /\ \A v \in waiting[n] : v = w

\* Stored, not in the chain, and nothing is left that would commit it.
Skipped(n) ==
  {b \in requestPool[n] : /\ \A h \in DOMAIN chain[n] : chain[n][h] # b
                          /\ \A w \in waiting[n] : w.block # b}

\* If messages and timers keep their bounds, a node that is not blocked is ready
\* for the next block when it comes, and skips none: sleeping 4 * MaxLatency between proposals
\* is enough for commits that end up to 3 * MaxLatency after a proposal.
SynchronousKeepsUp == synchronous => \A n \in Nodes : Skipped(n) = {}

\* A node is blocked on pBreak only by a vote that overtook the proposal of the
\* same height, which is still on its way to it; the main node never is.
HangOnlyOvertaken ==
  \A n \in Nodes : hung[n] =>
    /\ n # Leader
    /\ \E m \in net : m.type = "propose" /\ m.to = n /\ m.seq = sequenceID[n]

\* Every node commits all blocks, except a node that a vote has blocked or that
\* skipped a block which it got too early: the main node never waits for votes.
RoundsEnd ==
  <>[](\A n \in Nodes : Len(chain[n]) = MaxBlocks \/ hung[n] \/ Skipped(n) # {})
=============================================================================
