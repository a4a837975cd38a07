------------------------------ MODULE Storage ------------------------------
(***************************************************************************)
(* The persistent state of one node: its block database (bolt) and its     *)
(* state trie database (LevelDB), written by GenerateBlock, AddBlock and   *)
(* AddAccounts, with a crash between any two writes and a restart through  *)
(* NewBlockChain.  Account mode only: with params.UTXO a restart opens no  *)
(* trie database and leaves UTXOStateRoot empty (blockchain.go:300), and   *)
(* what such a node can still do is not modelled.                          *)
(*                                                                         *)
(* A block is named by its place in "made", which stands for its hash: it  *)
(* is the sequence of all blocks that were ever made, stored or not.  Only *)
(* the root of a state trie is kept: a node of the trie is written to disk *)
(* with or before every root that reaches it, so that a root on disk can   *)
(* be opened.                                                              *)
(***************************************************************************)
EXTENDS Integers, Sequences

CONSTANTS
  Roots,      \* state roots
  EmptyRoot,  \* the root of the empty trie, which opens without a database
  MaxBlocks   \* bound: blocks ever made

ASSUME StorageAssumption ==
  /\ EmptyRoot \in Roots
  /\ MaxBlocks \in Nat

VARIABLES
  main,          \* is this the node that proposes the blocks (Miner = NodeID)?
  made,          \* blocks ever made (history)
  \* on disk
  blocks,        \* blockBucket: hashes of the stored blocks
  headers,       \* blockHeaderBucket
  newest,        \* newestBlockHashBucket, 0 if empty
  trieDisk,      \* roots in the LevelDB database
  \* in memory
  up,            \* "down", "running", or "panicked" when it started
  current,       \* CurrentBlock
  dirty,         \* roots that only the in-memory trie database has
  proposal,      \* the block that the main node has generated, 0 if none
  partitionMaps, \* partition maps applied by this process
  pc             \* the next write of Storage.AddBlock, or "idle"

disk == <<blocks, headers, newest, trieDisk>>
memory == <<up, current, dirty, proposal, partitionMaps, pc>>
vars == <<main, made, disk, memory>>

Genesis == 1
GenisisBlock ==
  [number |-> 0, parent |-> 0, root |-> EmptyRoot, body |-> "empty",
   origin |-> "genesis", moves |-> 0]

(***************************************************************************)
(* A block's body: without transactions; with transactions that change no  *)
(* account here; with transactions that do; or accounts that moved here.   *)
(* "origin" is the body that produced the root, and "moves" counts the     *)
(* account blocks up to this one (both are history).                       *)
(***************************************************************************)
Block ==
  [number : Nat, parent : Nat, root : Roots,
   body : {"empty", "unmodified", "modified", "accounts"},
   origin : {"genesis", "modified", "accounts"}, moves : Nat]

Init ==
  /\ main \in BOOLEAN
  /\ made = <<GenisisBlock>>
  /\ blocks = {} /\ headers = {} /\ newest = 0 /\ trieDisk = {}
  /\ up = "down" /\ current = 0 /\ dirty = {} /\ proposal = 0
  /\ partitionMaps = 0 /\ pc = "idle"

-----------------------------------------------------------------------------
\* trie.New succeeds: the root is in memory or on disk.
OpensIn(root, cache, db) == root = EmptyRoot \/ root \in cache \/ root \in db

(***************************************************************************)
(* NewBlockChain: the genesis block if there is no newest block, otherwise *)
(* the newest block, whose state must be in the database.                  *)
(***************************************************************************)
NewBlockChain ==
  /\ up = "down"
  /\ dirty' = {} /\ proposal' = 0 /\ partitionMaps' = 0
  /\ \/ /\ newest = 0
        /\ up' = "running" /\ current' = Genesis /\ pc' = "block"
     \/ /\ newest # 0
        /\ newest \in blocks /\ OpensIn(made[newest].root, {}, trieDisk)
        /\ up' = "running" /\ current' = newest /\ pc' = "idle"
     \/ /\ newest # 0
        /\ newest \notin blocks \/ ~OpensIn(made[newest].root, {}, trieDisk)
        /\ up' = "panicked" /\ UNCHANGED <<current, pc>>
  /\ UNCHANGED <<main, made, disk>>

Crash ==
  /\ up = "running"
  /\ up' = "down" /\ pc' = "idle" /\ current' = 0
  /\ dirty' = {} /\ proposal' = 0 /\ partitionMaps' = 0
  /\ UNCHANGED <<main, made, disk>>

(***************************************************************************)
(* Storage.AddBlock: three transactions of the database.                   *)
(***************************************************************************)
putNewestFirst ==  \* mutant
  /\ up = "running" /\ pc = "block"
  /\ newest' = current
  /\ pc' = "header"
  /\ UNCHANGED <<main, made, blocks, headers, trieDisk, up, current, dirty, proposal, partitionMaps>>
putBlock ==
  /\ up = "running" /\ pc = "block"
  /\ blocks' = blocks \cup {current}
  /\ pc' = "header"
  /\ UNCHANGED <<main, made, headers, newest, trieDisk, up, current, dirty, proposal, partitionMaps>>

AddBlockHeader ==
  /\ up = "running" /\ pc = "header"
  /\ headers' = headers \cup {current}
  /\ pc' = "newest"
  /\ UNCHANGED <<main, made, blocks, newest, trieDisk, up, current, dirty, proposal, partitionMaps>>

UpdateNewestBlockLost ==  \* mutant
  /\ up = "running" /\ pc = "newest"
  /\ pc' = "idle"
  /\ UNCHANGED <<main, made, disk, up, current, dirty, proposal, partitionMaps>>
UpdateNewestBlock ==
  /\ up = "running" /\ pc = "newest"
  /\ newest' = current
  /\ pc' = "idle"
  /\ UNCHANGED <<main, made, blocks, headers, trieDisk, up, current, dirty, proposal, partitionMaps>>

(***************************************************************************)
(* Making and adding blocks.                                               *)
(***************************************************************************)
Successor(body, root) ==
  LET parent == made[current] IN
  [number |-> parent.number + 1, parent |-> current, root |-> root, body |-> body,
   origin |-> IF body = "modified" \/ root # parent.root THEN body ELSE parent.origin,
   moves |-> IF body = "accounts" THEN parent.moves + 1 ELSE parent.moves]

\* GetUpdateStatusTrie opens the trie only if there are transactions, and commits
\* it only if they change an account.
Executes(body) == body # "empty"
Unchanged(body, root) == body \in {"empty", "unmodified"} => root = made[current].root
CommitTrieInMemory(body, root) ==  \* mutant
  trieDisk' = trieDisk /\ dirty' = dirty \cup {root}
CommitTrie(body, root) ==
  IF body = "modified"
    THEN trieDisk' = trieDisk \cup {root} /\ dirty' = dirty \ {root}
    ELSE UNCHANGED <<trieDisk, dirty>>

CanOpenCurrent == OpensIn(made[current].root, dirty, trieDisk)

\* The main node executes the block when it proposes it, before consensus.
GenerateBlock(body, root) ==
  /\ up = "running" /\ pc = "idle" /\ main /\ proposal = 0
  /\ Len(made) < MaxBlocks
  /\ Unchanged(body, root)
  /\ Executes(body) => CanOpenCurrent
  /\ CommitTrie(body, root)
  /\ made' = Append(made, Successor(body, root))
  /\ proposal' = Len(made) + 1
  /\ UNCHANGED <<main, blocks, headers, newest, up, current, partitionMaps, pc>>

\* The block is committed: the main node does not execute it again.
AddBlockMain ==
  /\ up = "running" /\ pc = "idle" /\ proposal # 0
  /\ current' = proposal /\ proposal' = 0 /\ pc' = "block"
  /\ UNCHANGED <<main, made, disk, up, dirty, partitionMaps>>

(***************************************************************************)
(* At another node a block of the main node arrives.  The node executes it *)
(* without comparing the root with the header's.  The roots agree, unless  *)
(* the node has lost partition maps in a restart: then it may put the      *)
(* accounts in other shards and get any root, or change nothing.           *)
(***************************************************************************)
MapsLost == partitionMaps # made[current].moves
ExecuteBlock(b) ==
  \/ CommitTrie(b.body, b.root)
  \/ /\ MapsLost /\ Executes(b.body)
     /\ \/ \E root \in Roots : CommitTrie("modified", root)
        \/ CommitTrie("unmodified", made[current].root)

\* The main node makes a block on the newest block of this node.
Proposed(body, root) ==
  /\ up = "running" /\ pc = "idle" /\ ~main
  /\ Len(made) < MaxBlocks
  /\ Unchanged(body, root)
  /\ made' = Append(made, Successor(body, root))
  /\ UNCHANGED <<main, disk, memory>>

\* A block with another number, such as one delivered twice, is ignored.
NextNumberAny(h) == TRUE  \* mutant
NextNumber(h) == made[h].number = made[current].number + 1

AddBlock(h) ==
  /\ up = "running" /\ pc = "idle" /\ ~main
  /\ made[h].body # "accounts"
  /\ made[h].number = made[current].number + 1 => made[h].parent = current
  /\ NextNumber(h)
  /\ Executes(made[h].body) => CanOpenCurrent
  /\ ExecuteBlock(made[h])
  /\ current' = h /\ pc' = "block"
  /\ UNCHANGED <<main, made, blocks, headers, newest, up, proposal, partitionMaps>>

\* log.Panic in GetUpdateStatusTrie: the state of the current block cannot be opened.
ExecutePanics ==
  /\ up = "running" /\ pc = "idle" /\ proposal = 0
  /\ ~CanOpenCurrent
  /\ up' = "down" /\ current' = 0 /\ dirty' = {} /\ partitionMaps' = 0
  /\ UNCHANGED <<main, made, disk, proposal, pc>>

(***************************************************************************)
(* accountTransfer_do and AddAccounts.  The trie gets the new accounts in  *)
(* memory, but the root that is committed to disk is the one before them   *)
(* (blockchain.go:452).  Without accounts the trie is not opened.          *)
(***************************************************************************)
CommitOldRootOnly(old, root) ==  \* mutant
  trieDisk' = trieDisk \cup ({old} \cap dirty) /\ dirty' = dirty \ {old}
CommitOldRoot(old, root) ==
  \/ /\ root = old /\ UNCHANGED <<trieDisk, dirty>>  \* no accounts
  \/ /\ CanOpenCurrent
     /\ trieDisk' = trieDisk \cup ({old} \cap dirty)
     /\ dirty' = (dirty \ {old}) \cup ({root} \ {old})

AddAccounts(root) ==
  /\ up = "running" /\ pc = "idle" /\ proposal = 0
  /\ Len(made) < MaxBlocks
  /\ CommitOldRoot(made[current].root, root)
  /\ made' = Append(made, Successor("accounts", root))
  /\ partitionMaps' = partitionMaps + 1
  /\ current' = Len(made) + 1 /\ pc' = "block"
  /\ UNCHANGED <<main, blocks, headers, newest, up, proposal>>

Next ==
  \/ NewBlockChain \/ Crash
  \/ putBlock \/ AddBlockHeader \/ UpdateNewestBlock
  \/ \E body \in {"empty", "unmodified", "modified"}, root \in Roots :
       GenerateBlock(body, root) \/ Proposed(body, root)
  \/ AddBlockMain
  \/ \E h \in DOMAIN made : AddBlock(h)
  \/ ExecutePanics
  \/ \E root \in Roots : AddAccounts(root)

Spec == Init /\ [][Next]_vars

-----------------------------------------------------------------------------
(***************************************************************************)
(* Properties.                                                             *)
(***************************************************************************)

\* The variables have the types that the Go declarations give them.
TypeOK ==
  /\ main \in BOOLEAN
  /\ made \in Seq(Block)
  /\ blocks \subseteq DOMAIN made /\ headers \subseteq DOMAIN made
  /\ newest \in 0..Len(made)
  /\ trieDisk \subseteq Roots /\ dirty \subseteq Roots
  /\ up \in {"down", "running", "panicked"}
  /\ current \in 0..Len(made) /\ proposal \in 0..Len(made)
  /\ partitionMaps \in Nat
  /\ pc \in {"idle", "block", "header", "newest"}

\* Wherever a crash falls between the three transactions of Storage.AddBlock, the
\* newest block is stored with its header, and so is every ancestor of a stored
\* block, back to the genesis block.
ChainStored ==
  /\ TypeOK
  /\ newest # 0 => newest \in blocks \cap headers
  /\ \A h \in blocks : h = Genesis \/ made[h].parent \in blocks \cap headers

\* The newest block on disk only ever advances to a child of itself, also across
\* crashes, restarts and blocks that are delivered twice: the stored chain is
\* never rolled back and never skips a block.
NewestAdvances ==
  [][newest' # newest => newest' \in DOMAIN made' /\ made'[newest'].parent = newest]_vars

\* A running node is at most the one block that it is storing ahead of its disk,
\* so a restart continues with the sequence number that the node had reached.
AtMostOneAhead ==
  up = "running" =>
    \/ pc = "idle" /\ current = newest
    \/ pc # "idle" /\ made[current].parent = newest

\* A restart finds the state of the newest block, with two exceptions, both after
\* a re-partition: the newest root is one that AddAccounts made and that no later
\* block has committed, or the node is not the main node and may have executed
\* blocks without the partition maps that it lost in an earlier restart.
RestartPossible ==
  newest # 0 =>
    \/ OpensIn(made[newest].root, {}, trieDisk)
    \/ made[newest].origin = "accounts"
    \/ ~main /\ made[newest].moves > 0

\* The main node never panics while it runs: it can open the state of its current
\* block at any time, although AddAccounts leaves it in memory only.
MainOpensState == up = "running" /\ main => CanOpenCurrent
=============================================================================
