# A verification project for BlockEmulator

BlockEmulator (`src/`) is a sharded blockchain emulator in Go. Every shard runs
a PBFT consensus (or a synchronous HotStuff) among its nodes; shards exchange
cross-shard transactions; a supervisor injects transactions, may re-partition
accounts, and stops the experiment. This directory holds TLA+ models of it, the
TLC runs that check them on small instances, and TLAPS proofs, for instances of any
size, of the consensus protocols, of the storage, of relay, broker and UTXO mode, of the
partition algorithm and of the handshake that carries out its results. Every safety
property that a passing run checks is also a theorem.

## Inventory

| Component | State it keeps | Operations | What is hard | What makes it correct |
|---|---|---|---|---|
| PBFT consensus, `consensus_shard/pbft_all/pbft.go`, `messageHandle.go` | `sequenceID`, `requestPool`, `height2Digest`, vote counts, `isCommitBordcast`, `isReply`, `sequenceLock`, `askForLock` | `Propose`; handlers of PrePrepare, Prepare, Commit, RequestOld, SendOld, Stop | unordered and lost messages, laggards, two mutexes freed by other goroutines than took them | chains agree and are linked, one proposal at a time, rounds end |
| Chain of a node, `chain/blockchain.go` | `CurrentBlock`, state trie, partition map | `GenerateBlock`, `AddBlock`, `IsValidBlock`, `AddAccounts` | checks by number only; restart | blocks are linked, state equals the replayed blocks |
| Storage, `storage/storage.go` | BoltDB buckets for blocks, headers, newest hash | `AddBlock` in three transactions | crash between them | after a restart the newest hash names the last executed block |
| Network, `networks/p2pNetwork.go` | connection pool | `TcpDial`, `Broadcast` | a failed write is silent, broken connections are kept | nothing is promised beyond at-most-once |
| Relay mode, `pbftInside_module.go`, `pbftOutside_module.go`, `core/txpool.go` | transaction pool, relay pool, `seqIDMap` | debit and relay at commit, credit on arrival | a message per cross-shard transfer, no retry | no transfer is credited without a debit, none twice |
| UTXO mode, `*_utxo.go`, `chain/utxo_set.go` | UTXO set, UTXO pools | `TxTransform`, commit, relay | the relay test reads the wrong pool | value is conserved across shards |
| CLPA, `*CLPA*.go`, `accountTransfer_module.go` | `PartitionOn`, `PartitionReady`, `CollectOver`, modified map | partition message, ready handshake, account transfer, reset | three message kinds of all shards in any order, busy waiting inside `Propose` | every account has one owner, the handshake ends |
| Broker, `*Broker*.go`, `broker/broker.go` | broker pools, half-done transactions | tx1, tx2, confirmations | two halves joined by messages | both halves or neither |
| Supervisor, `supervisor/` | `stopGap`, injected count | batches, block reports, stop | stop is inferred from empty reports | no shard is stopped with work left |
| Synchronous HotStuff, `synchotstuff_all/` | as PBFT, plus a commit timer | propose, vote, wait, commit | timer against messages, a nil channel | agreement, progress |
| CLPA algorithm, `partition/partition_CLPA.go` | graph, partition map, edge counts | label propagation | incremental counts | counts equal a recomputation |
| Measurements, logs, build, query | files | write and read files | nothing that feeds back | not modelled |

How they interact: handlers run one at a time per node, under `tcpPoolLock`
(`handleClientRequest`). `Propose` is a goroutine of its own on the main node
(node 0, `view` never changes) and shares the node's maps without that lock. All
other interaction is by messages over `networks.TcpDial`.

`PROJECT.json` lists the hazards of this code with their lines, and for each one
the properties that would catch it or why none does.

## Modules

| Module | Models | Composes |
|---|---|---|
| `ShardLedger` | the abstract specification of a shard: one log, a ledger per node that is a prefix of it and grows | |
| `Pbft` | the consensus of one shard, one action per handler | implements `ShardLedger` |
| `StateTrie` | operators: how a block changes the balances of a shard | |
| `TxPool` | operators: the transaction pool, and what loops over transactions collect | |
| `Sharding` | the accounts, the shards and the default assignment of the CLPA mode | |
| `Relay` | relay mode over several shards, and the supervisor's batches and stop rule | `StateTrie`, `TxPool` |
| `ClpaTransfer` | CLPA mode: the handshake that moves accounts between shards | `Sharding`, `StateTrie`, `TxPool` |
| `BrokerChain` | broker mode: transfers in two halves that the supervisor joins | `StateTrie`, `TxPool` |
| `UtxoRelay` | UTXO mode: transfers become UTXO transactions, blocks, relays | `TxPool` |
| `Storage` | block and state databases of a node, crash and restart | |
| `SyncHotstuff` | synchronous HotStuff in one shard, with discrete time | |
| `ClpaPartition` | the partition algorithm with its incremental counters, epoch after epoch | `Sharding` |
| `MC*` | the constants, symmetries and constraints of the runs | |
| `PbftProofs`, `StorageProofs`, `SyncHotstuffProofs`, `ClpaProofs`, `RelayProofs`, `BrokerChainProofs`, `UtxoRelayProofs` | inductive invariants and theorems | |
| `LedgerTheorems` | lemmas about sums, finite sets, recursive functions, `StateTrie` and `TxPool` that the last four share | |

How the models fit together: `Pbft` proves that one proposal is in consensus at a
time and that the nodes of a shard agree on the chain. The modules of the modes
rest on that: a shard is its main node (only main nodes talk to other shards and
to the supervisor), with one block in consensus, proposed by one action and
executed by another. Definitions carry the names of the Go functions; a definition
whose comment is `mutant` is a deliberately wrong form of its neighbour, by which
the runs are shown to be sensitive to the code.

### Pbft: state and actions

A variable has the name of the field it stands for (`sequenceID`, `requestPool`,
`height2Digest`, `cntPrepareConfirm`, `isCommitBordcast`, ...). What differs:

* A request is named by its digest, and a digest is the position of the request
  among all requests made (`requests`). The hash covers the propose time, so
  digests are unique. Of a block its number and parent are kept; the SeqID that
  all messages about a request carry is kept with the request.
* `cntPrepareConfirm` and `cntCommitConfirm` are counters: the Go sets are keyed
  by the pointer of the decoded sender, so they count messages.
* Prepares and Commits under way are counted per receiver and digest; their
  sender does not matter to any handler.
* `hung[n]` says that a handler of `n` waits for `askForLock` while it holds
  `tcpPoolLock`; such a node handles nothing any more. `fatal` says that a mutex
  was unlocked that was not locked.
* `CurrentBlock` and the executed blocks of a node are its `chain`.
* `IsValidBlock` is the test of number and parent. The transaction root, which it
  compares too (`blockchain.go:323`), and the digest of a PrePrepare
  (`messageHandle.go:111`) always fit among nodes that follow the protocol.

`Propose` is one action: it waits for `sequenceLock`, and what it writes before
its broadcast is not read by a handler before a reply to that broadcast. The five
handlers are `handlePrePrepare`, `handlePrepare`, `handleCommit`,
`handleRequestOldSeq` and `handleSendOldSeq`; `handleCommit` is the disjunction
of its four ways through the code. `TcpDialFails` drops any message under way.

Nodes are honest: the code has no signatures and no view change, so a Byzantine
or a failed main node is outside what it handles. A replica that crashes and stays
down is a node that takes no more steps, which the specification without fairness
allows. Restarts are the subject of `Storage`.

### Relay

`reader`, `line`, `nowDataNum`, `txlist` are the loop of `TxHandling`; `stopGap` the
stop signal; `pool`, `proposal`, `balance`, `blocks` a shard. `txSending` sends
`InjectSpeed` transactions; `EndOfInput` drops a batch that is not full, as the code
does. `HandleinPropose` packs and executes (`GetUpdateStatusTrie`),
`HandleinCommit` adds the block, sends one relay message per shard and a report,
also for transactions whose debit was skipped. `TcpDialFails` drops any message.
`skipped` is a history variable.

### ClpaTransfer

`stage` is the place of `Propose` in `HandleinPropose`: the code waits twice in it,
for all shards to be ready and for all accounts, while handlers run. The other
variables are those of `CLPADataSupport` and of the chain. `late`, `overtaken`,
`transit`, `unbacked` and `finished` are history variables: a transaction arrived at a
shard that does not own its account, a relay arrived after a later one of the same
shard, lines between debit and credit, lines that were relayed although their debit was
skipped, and lines done with. `panicked` collects main nodes that reach a `log.Panic`.
Relays and pool transfers keep the order of the queue (`Select`); the messages of the
other shards are joined in any order, as the iteration of a Go map does.

### BrokerChain

The supervisor's pools are sets of lines (`BrokerRawMegs`, `brokerConfirm1Pool`,
`brokerConfirm2Pool`), and a transaction is a line with `raw`, `tx1` or `tx2`.
`TxHandling` sends a transfer or splits it; `handleBlockInfos` confirms halves and
issues second ones. A report says which transactions of each kind a block holds; their
order is of no use to the supervisor, so they are sets. `Held(s)` is the pool, the block
in consensus and the blocks of shard s; `Somewhere` adds the messages under way, and
`OneCopy` says that no transaction is in two of these places.

### UtxoRelay

`takeInjected`, `transformWith...` and `putTransformed` are the turns of
`TxTransform`, which interleaves with `Propose` and the handlers. Coin selection
takes outputs in any order, as the iteration of a Go map does. A transfer for which no
output of value was taken, be it that the account is new or that the amount is 0,
becomes a coinbase. Relays are collected
and cleared without being sent, because the loop tests the pool of another mode
(`pbftInside_module_utxo.go:89`); `handleRelay` is therefore not reachable.

### Storage

One node, main or not. `blocks`, `headers`, `newest` and `trieDisk` are on disk, the
rest is lost in a `Crash`, which may fall between any two of `putBlock`,
`AddBlockHeader` and `UpdateNewestBlock`. A block is its number, parent, state root
and the kind of its body; `origin` and `moves` are history. `AddAccounts` commits
the old root, as the code does. A node that lost partition maps in a restart may
execute to any root (`ExecuteBlock`). The module is about account mode: with
`params.UTXO` a restart opens no trie database and leaves `UTXOStateRoot` empty
(`blockchain.go:300`).

### SyncHotstuff

Messages and `WaitToCommit` goroutines carry an age. `synchronous` is chosen at the
beginning: in a synchronous behaviour no message is older than `MaxLatency` and no
timer is late, in the others both may take any time. `hung` is a handler that sends
on the nil channel `pBreak` and keeps `tcpPoolLock`.

Handlers hold `tcpPoolLock`, commits hold `node.lock`, and nothing holds both, so the
steps are as fine as the reads and writes that cross. A commit is `WaitToCommit`, in
which `Commit` changes `CurrentBlock` (`messageHandle.go:216`), and `EndRound`, which
advances `sequenceID` (`:219`) and frees `sequenceLock`; between the two, when the node
writes to its databases, `committing` is true. `handleVote` reads `sequenceID` at `:246`
(`handleVote`) and at `:249` (`CompareHeight`) and the newest block at `:265`
(`JudgeVoted`); `handling` is the vote that a handler has read, and no other handler of
the node runs until it is done. `handlePropose` reads the chain once, and `Propose` runs
while the main node cannot commit: these are one step each. The test that a message's
digest fits its request, like the one in `pbft_all`, never fails here and is left out.

### ClpaPartition

`Init_CLPAState` is the empty graph, whose `PartitionMap` is `graphMap` here; `runs`
counts the epochs. `AddEdge` builds the graph from reports, `CLPA_Partition` starts a run,
`moveVertex` and `leaveVertex` are one turn of its inner loop in any order of
vertices, `clpaReset` ends the epoch. Scores are compared without division, with each
other and with the starting value of -9999, below which a shard is never chosen; equal
ones may win in any order, since floating point may tell them apart.

## Runs

| Run | Instance | Shows |
|---|---|---|
| `pbft_rounds` | 3 nodes, 3 rounds, 1 loss | `TypeOK`, `ChainAgreement`, `ChainLinked`, `LockDiscipline`, `SequenceAhead`, `OldInOrder`, `AskForLockFreed`, `LedgerSpec` hold |
| `pbft_quorum` | 4 nodes (f = 1), 1 round, fairness | `FirstRoundCompletes` holds |
| `pbft_stall` | 4 nodes, 2 rounds, fairness, no loss | `EveryRoundCompletes` is violated |
| `pbft_laggard` | 4 nodes, 1 round, no loss | `LaggardCatchesUp` is violated |
| `relay` | 2 shards, 5 lines, 1 loss, fairness | `ExactlyOnce`, `WellRouted`, `ValueAccounted`, `InjectedFinish` hold |
| `relay_early_stop` | the same without loss | `StopAfterWork` is violated |
| `clpa` | 2 shards, 2 maps, 1 transfer, fairness | `ValueConserved`, `TransferredStateCurrent`, `NoTxLostOrDoubled`, `OnlyLateTxPanics`, `RepartitionEnds` hold |
| `broker` | 2 shards, 4 lines, 1 loss, fairness | `HalvesInOrder`, `ConfirmedExecuted`, `ClientBalances`, `SplitTransfersFinish` hold |
| `utxo` | 2 shards, 6 lines, amounts 0 to 2 | `NoDoubleSpend`, `InputsEarlier`, `ValueOnlyFromCoinbase` hold |
| `storage` | 4 blocks, 3 roots, any crashes | `ChainStored`, `NewestAdvances`, `AtMostOneAhead`, `RestartPossible`, `MainOpensState` hold |
| `hotstuff` | 3 nodes, 2 blocks, fairness | `Agreement`, `SequenceIsHeight`, `WaitsForNext`, `SynchronousKeepsUp`, `HangOnlyOvertaken`, `RoundsEnd` hold |
| `partition` | 4 accounts, 3 shards, 4 edges, 2 epochs | `CountersExact`, `MapsAgree`, `NoShardEmptied` hold |

Each module has a type invariant. In `Pbft` it is a property of its own; in the
others it is the first conjunct of the first invariant of the run (`ExactlyOnce`,
`NoTxLostOrDoubled`, `HalvesInOrder`, `NoDoubleSpend`, `ChainStored`, `Agreement`,
`CountersExact`).

What some of the properties say between the lines:

* `ValueAccounted`: value is conserved up to transfers in transit and `Unbacked`
  ones, which the recipient's shard credits although the debit was skipped
  (`blockchain.go:120`). The property makes that the only leak.
* `ValueConserved` says the same of CLPA mode, with `unbacked`, and over the move of
  accounts: between re-partitions every account has one owner, and the balances that
  count are those at the owners. (A shard keeps the state of an account it gave away;
  nothing reads it until the account comes back with a newer one.)
* `AskForLockFreed`: a node that needs a second catch-up before the first is answered
  waits for `askForLock` in a handler and handles nothing any more, not even the answer
  (`messageHandle.go:215`). This deadlock is in the code and in the model; the property
  says that nobody else is in it, and that without a lost message a lock that is held
  has its request or its answer under way.
* `ClientBalances` is about accounts that are not a broker's: in every shard such an
  account has what that shard's chain gives it, and no half is executed where it misses
  its account. Of the brokers' own accounts nothing is claimed (see below).
  `ConfirmedExecuted` means that a half is in a block; a first half that was skipped for
  want of balance is confirmed too, and its second half is paid out.
* `RestartPossible`: `AddAccounts` writes the old state root to disk, so after a
  re-partition there is a window in which a restart fails. The property says that
  there is no other, for the main node.
* `OnlyLateTxPanics` and `RepartitionEnds` name what the CLPA handshake cannot
  stand: a transaction that was routed by another map than the one it meets, and
  relays that overtake each other.
* `HangOnlyOvertaken` and `RoundsEnd`: the same for synchronous HotStuff. A vote
  that overtakes the proposal blocks a node for ever; a proposal that comes before
  the node has committed the last block is never judged again. In a synchronous
  behaviour the second does not happen (`SynchronousKeepsUp`), the first may. A hung
  node commits what it has and skips nothing; it is not ready for the next block either.
* `SequenceIsHeight` and `WaitsForNext` hold at every step of the two locks: while a
  commit is under way handlers see `sequenceID` one behind, may find a vote for the next
  height valid and start its commit from the vote. It is then the block that waits, and
  its proposal, which comes later, starts no second one.

### Bounds

* Pbft: `MaxHeight` bounds the proposals and `MaxLoss` the lost messages. Three
  rounds are the fewest in which a node that missed a block is asked to handle a
  later one, catches up with a range that is not empty, and gets an answer while a
  further round is under way. With three nodes f is 0 and a single Commit is a
  quorum: that makes laggards common, which is what `pbft_rounds` is after. Quorums
  that need several messages are checked with four nodes; two rounds of four nodes
  are beyond TLC, and this is what the proofs are for.
* Relay: the five lines of `MCRelay` give a transfer that empties an account, one
  that is then skipped inside its shard, one that is skipped or not depending on
  the order of relay and block, an illegal line, and a line that is left over. A
  shard starts a block only when its last report has arrived (`Reported`; blocks
  are seconds apart). `stopGap` is counted up to its threshold.
* ClpaTransfer: `MaxSeq` bounds the blocks. The supervisor sends a map only when all
  shards have finished the last re-partition and a block after it (`PeriodOver`;
  `clpaFreq` is 80 seconds). Without that bound two re-partitions in a row, with
  no block between them, stall the handshake. There are no losses: a lost relay
  stalls it too. The one transfer of the run is covered by the balance, so `unbacked`
  stays empty in it; with two transfers of 3 from a balance of 4, and a map that moves
  the sender, `ValueConserved` and the inductive invariant were checked too (1.5 million
  states), and `ClpaValueConserved` is proved for all inputs.
* BrokerChain: one split transfer in each direction, one that cannot be paid, one
  to and one from the broker.
* UtxoRelay: the lines of `MCUtxoRelay` let accounts collect several outputs, match
  an amount exactly, fall short of it, and transfer 0 with and without outputs.
* Storage: `MaxBlocks` counts all blocks ever made, also those a crash forgets;
  four are enough for a re-partition, a block after it and a restart between.
* SyncHotstuff: `MaxBlocks`; ages stop at the bound beyond which they make no
  difference, the ages of messages are counted in synchronous behaviours only, where
  they are bounded, and the sleep of `Propose` is not counted after the last block. Two
  blocks are enough for a vote to overtake the end of a commit and a proposal the commit
  itself (317 thousand states).
* ClpaPartition: `MaxEdges`, `MaxEpochs` and `MaxIterations`; three shards so that
  a vertex that moves has neighbours in a third one.

### Reductions, deadlock, fairness

`ReplicaSymmetry` permutes the nodes other than the main node. `IdleFirst` takes
steps that only raise a counter nobody reads any more as soon as they are possible;
such steps commute with all others. No property mentions these counters.
`CommitsLast` restricts `pbft_stall` to one schedule; it only removes behaviours, and
whether a fairness condition holds is judged on the whole next-state relation, so
the counterexample is one of `FairSpec`.

Deadlock is not checked: every model stops when its input or its bound is
exhausted, and in `Pbft` a round may stop for good because the code never
retransmits.

Fairness is weak and per handler: `Propose` and the supervisor's `TxHandling` are
loops, and each connection has a goroutine that reads it and takes `tcpPoolLock` in
turn. Nothing is assumed of `TcpDialFails` or `Crash`; the liveness properties of
runs with losses except behaviours in which something was lost. `Relay`,
`ClpaTransfer` and `BrokerChain` also assume that the consensus of a shard finishes
its rounds. That is an assumption about the shards, not a fact: `pbft_stall` shows
how a round may never end. The properties of these modules are therefore about
what happens between shards when the shards themselves work. In `SyncHotstuff`
also time goes on (`Tick`).

### What the violated properties show

* `pbft_stall`. The main node frees `sequenceLock` once it has 2f Commits. The
  PrePrepare of the next round may reach replicas that have not executed the last
  one; they keep the request but refuse to prepare it (`messageHandle.go:113`),
  and nothing makes them reconsider. If all replicas are in that state the round
  never ends, although no message was lost.
* `pbft_laggard`. When Commits overtake the PrePrepare, the node asks for the
  blocks from `sequenceID + 1` on (`messageHandle.go:223`), but `sequenceID` is the
  one it misses. The answer is empty or does not fit, `handleSendOldSeq` sets
  `sequenceID` past it, and `AddBlock` refuses all later blocks by their numbers.
  The node's chain stays where it is; this is why `ChainAgreement` speaks of
  prefixes and `SequenceAhead` of an inequality.
* `relay_early_stop`. The stop rule counts empty blocks in a row whatever shard they
  come from. An idle shard reaches the threshold alone while another still has
  transactions in its pool; `TODO.md:4` names the symptom.

### Where the documents say something else

Three more disagreements are not runs of their own:

* `handleCommit` asks for 2f Commits of other nodes. Its log line
  (`messageHandle.go:211`) says "2f + 1", `code_manual/node.md:180` more than 2f. The
  theorem `Certification` is about the 2f of the code; a node may execute a block for
  which it has not sent a Commit itself. Agreement does not need the one more, since a
  single main node makes all proposals.
* `docs/en/BrokerChain.md:40-41` gives a broker an account in each shard and makes both
  halves of a split transfer intra-shard. The halves that `committee_broker.go:214` and
  `:236` make have no `HasBroker`, so the broker's end of a half is executed only in the
  shard of the broker's address, and the sum of all balances drifts by the ends left
  out. `ClientBalances` holds under either reading.
* `code_manual/utxo.md:52-58` has cross-shard transfers relayed and paid out by a
  coinbase; the relays are never sent (`pbftInside_module_utxo.go:89`).

## Proofs

Eight modules hold proofs; each is for every value of the constants that the named
assumption of its module allows.

**`LedgerTheorems`** is what the proofs about values rest on. The library's induction
theorems take an operator as a parameter, which the provers cannot instantiate. But
induction over a *set* of numbers (`NumberInduction`) or a set of subsets of a finite
set (`SubsetInduction`) is a first-order fact; it is proved from the well-foundedness of
< on the numbers. From it follow the existence of recursive functions on `0..n`
(`RecursionExists`), that `SumFunctionOnSet` is the fold it is defined by (`SumIsFold`),
how sums change, split, are re-indexed and grouped (`SumChangeIn`, `SumUnion`,
`SumReindex`, `SumFibres`, ...), and what a block does to the value of a shard,
or of any set of its accounts, transaction by transaction (`BlockGain`, `BlockValue`), and what packing a pool and selecting from a
queue return (`PackSplits`, `SelectProperties`). The models use recursive functions and these
folds, never `RECURSIVE` operators.

**`PbftProofs`** (`PbftAssumption`: any finite shard, any number of rounds and
losses): every safety property of the runs as `Spec => []P` (`TypeCorrect`,
`Agreement`, `Linked`, `Locking`, `Sequencing`, `OldOrder`, `AskForLocking`), that a
block in a chain has the Commits of 2f nodes behind it (`Certification`), and that the
consensus implements `ShardLedger` (`Refinement`).

None of these properties is inductive. The argument is about the main node: it
proposes only when its own chain holds all its earlier requests, so request d has
number d, parent d - 1 and SeqID d (`RequestInv`), and each chain is 1, 2, ..., k
(`ChainInv`). `LeaderInv` says which requests the main node holds and has answered,
so that the only digest it can still get a quorum for is the one its lock is held
for. `IndexInv` and `NetworkInv` say that indexes and messages are about requests
that were made. `CatchUpInv` says that a node has at most one catch-up under way,
protected by `askForLock`, for a certified height beyond its chain: this is what
makes a late answer harmless. `CountInv` bounds the Commits counted and under way
by the nodes that broadcast one, which gives the certificate (`CommitCertificate`).
`AskForLockFreed` is proved beside these: a step that adds a node to `unanswered` takes
its request or its answer away without an unlock, and only `TcpDialFails` does. `Inv` is the
conjunction; there is one lemma per action and one per branch of `handleCommit`,
and TLC has checked `Inv` as an invariant of the `pbft_rounds` instance.

**`StorageProofs`** (`StorageAssumption`: any roots, any number of blocks): all five
properties of the run (`StoredChain`, `DiskAtMostOneBehind`, `RestartSucceeds`,
`MainNodeRuns`, `NewestOnlyAdvances`). What a crash leaves on disk depends on what
the node was about to write, so the inductive invariant adds how a block relates to
its parent (`BlocksLinked`), how far the node is in `Storage.AddBlock`
(`WritesInOrder`), and that the state of the current block and of the proposal is
kept on disk, or at the main node at least in memory (`StatesKept`).

**`SyncHotstuffProofs`** (`SyncHotstuffAssumption`: any shard, any latency bound, any
number of blocks, any delays): `NodesAgree`, `SequenceFollowsChain`,
`CommitsStayValid`, `HangsAreOvertaken` and `SynchronousNodesKeepUp`. The code never
compares votes, so agreement rests on the main node alone: it proposes height h only
when it has committed h - 1 and nothing of its own waits (`LeaderRound`), hence block b
has number b and parent b - 1 (`OneBlockPerHeight`) and chains are 1, 2, ..., k
(`ChainsCount`). A node waits only for the block after its chain, once (`NextWaits`),
which is why `sequenceID` never runs ahead. That rests on two things. A block is
accepted once, from a vote or from its proposal, because what a handler has read of a
vote is of a block that is not stored, and stays so until the handler is done
(`VotesAreNew`). And it is accepted only if its parent is the newest block when it is
judged, wherever the commit of that parent is; `sequenceID`, which may be one behind
then, decides only whether it is judged at all. `ProposalsArrive` says
that the proposal of a height that a node does not have is under way to it or known
to it: this is what a hung node is missing. In a synchronous behaviour a replica that
is not hung has its proposal still to come, is committing the newest block, or has
every block (`KeepsPace`), and each phase has its place in the time that `Propose`
sleeps, so that only the last is possible when it wakes up.

**`ClpaProofs`** has two parts over the same accounts and shards
(`ShardingAssumption`). The first is about the partition algorithm
(`ClpaPartitionAssumption`: any graphs and number of epochs): `MapsAlwaysAgree`,
`ShardsKeepVertices` and `CountersAlwaysExact`. The maps agree because no result is left over when a run starts
(`NoLeftOver`). The guard against emptying a shard reads a counter, so the proof shows
first that the counter is the number of vertices, whatever is added and moved
(`CountInv`). The edge counters have two halves. `ComputeEdges2Shard` counts ends: the
pairs of accounts in both orders count every edge twice (`Doubled`), those that lead
into a shard count each of its cross edges once (`CrossEndsIs`), and over all shards
the latter are all crossing edges twice (`AllCrossEnds`). `changeShardRecompute`
looks only at the neighbours of the vertex that moves: the pairs that touch a shard,
and the pairs between shards, change by stars around that vertex (`MoveTouching`,
`MoveCrossing`), whose sums are what the code adds and subtracts (`MoveCounts`).

The second part is about the handshake (`ClpaAssumption`: any input, any sequence of
maps, any number of shards, block size and initial balance; the period of `PeriodOver`
is part of the specification): `ClpaTypes`, `ClpaStateCurrent`, `ClpaLatePanics`,
`ClpaNoTxLost` and `ClpaValueConserved`, all from `ClpaInvariant`. `Handshake` says how
far the shards can be apart. A shard has carried out all maps or all but the last, and
its assignment is what these maps make of the default one (`Round`); what is in
consensus was computed from the state it will be applied to (`Requested`); every shard
sends every other one message with exactly the accounts that the last map moves between
the two, and no shard switches before all others have sent (`AccountsUnderway`). That is
why a state under way stays current: its source executes no block between sending and
switching, and afterwards does not own the account. It is also why the index from
`AccountTransferRound`, which `proposePartition` uses, and the last entry, which
`sendAccounts_and_Txs` uses, name the same map. Transactions wait where they will be
executed unless one came late (`AtHome`). `Tracked` strengthens `NoTxLostOrDoubled` with
what the histories say of each other. `ValueConserved` speaks only of the time between
re-partitions, so its induction needs an owner at any time: the new shard from its own
switch on, the old one before (`Owner`). The switch of one shard then changes the
owner of the accounts that arrive, all of which arrive with the balance their old owner
has (`Balanced`), and a block changes the total line by line (`Net`) by what it puts in
transit, credits, or relays unbacked.

**`RelayProofs`** (`RelayAssumption`: any input, assignment of accounts, block size,
batch size and number of losses): `RelayExactlyOnce`, `RelayWellRouted` and
`RelayValueAccounted`. The inductive invariant says where every transaction is:
collected lines are before the reader, transactions are and go only where they are
executed, none has a second copy, and a relayed one exists only after its debit was
executed (`Placed`); a block in consensus carries the balances after it (`Proposed`),
a shard changes only accounts it owns and overdraws none (`OwnBalances`), what was
skipped was executed (`SkippedExecuted`), and the value of all shards is the initial one
plus what each executed transaction adds to it (`Balanced`). `ValueAccounted` follows by
summing line by line instead of transaction by transaction.

**`BrokerChainProofs`** (`BrokerAssumption`: any input, assignment, block size and
number of losses): `BrokerHalvesInOrder`, `BrokerConfirmedExecuted` and
`BrokerClientBalances`. `Placed` is as in relay mode, with what the supervisor knows
of the transfers it has split (`Split`) in the place of the relays. That no order of
reports makes it issue or confirm a half twice rests on `Reported`: two reports under
way never name the same half, and none names a half that is confirmed
(`Confirmations`). For `ClientBalances` a half is where the client's account is
(`ClientEnds`), so a block changes a client's balance by what `Gained` says of its
transactions (`CommitClient`), and these are new to the chain (`CommitGained`).

**`UtxoRelayProofs`** (`UtxoAssumption`: any input and assignment, any choice of
outputs): `UtxoNoDoubleSpend`, `UtxoInputsEarlier` and `UtxoValueOnlyFromCoinbase`. The
status trie runs ahead of the chain, since `TxTransform` spends outputs of transactions
that are still in its queues. The invariant is therefore about the history of a shard,
its blocks followed by the proposal and the queues: it is numbered in order
(`Numbered`), account states hold exactly outputs of it that are not spent (`Holds`),
its inputs are earlier outputs of the sender, each spent once (`Spends`), and the value
of all accounts is that of its coinbases (`FromCoinbase`).

TLC has checked the inductive invariants of the last five modules on the instances of
the runs as well.

Only model-checked: liveness (`FirstRoundCompletes`, `InjectedFinish`,
`RepartitionEnds`, `SplitTransfersFinish`, `RoundsEnd`), which is out of the prover's
reach, and the violated properties.

## Plan

What is left, in this order:

1. `Shutdown`: `WaitToStop`, `Propose`, `TxTransform`, `tcpPoolLock` and the
   unbuffered `pStop`: does a node that is told to stop ever stop?
2. CLPA with brokers, as the composition of `ClpaTransfer` and `BrokerChain`.

## Not modelled

* Byzantine nodes and view changes: the code has none.
* The shutdown of a node below the grain of `WaitToStop`, and accesses of the node's
  maps by two goroutines at once: a data race on a Go map ends the process, which
  the specifications without fairness allow for at any point.
* CLPA with brokers: its code repeats that of the two modes it combines.
* The UTXO set on disk (`UTXOSet`): no mode calls it.
* In synchronous HotStuff the requests for old blocks: no node ever lacks a request
  when it commits.
* Hashing, Merkle trees and tries (a block is its number, parent and body), encodings
  and logs, measurements and CSV output, command lines, configuration and queries.
