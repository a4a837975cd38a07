--------------------------- MODULE StorageProofs ---------------------------
(***************************************************************************)
(* Proofs about Storage, for all sets of roots and any number of blocks.   *)
(*                                                                         *)
(* The properties speak of the disk, but what a crash leaves there depends *)
(* on what the running node was about to write.  The inductive invariant   *)
(* therefore adds how every block relates to its parent (BlocksLinked),    *)
(* how far a running node is in Storage.AddBlock (WritesInOrder), and that *)
(* the state of the block it is at, or proposes, is kept (StatesKept).     *)
(***************************************************************************)
EXTENDS Storage, TLAPS

\* A block other than the genesis block has a parent in "made", from which it takes
\* what it does not change.
Linked(i) ==
  LET b == made[i]
      p == made[b.parent]
  IN  /\ b.parent \in DOMAIN made
      /\ b.body # "accounts" => b.moves = p.moves
      /\ b.body \in {"empty", "unmodified"} => b.root = p.root /\ b.origin = p.origin

BlocksLinked ==
  /\ 1 \in DOMAIN made /\ made[1] = GenisisBlock
  /\ \A i \in DOMAIN made : i # Genesis => Linked(i)

\* How far a running node is in storing its current block.
WritesInOrder ==
  up = "running" =>
    /\ current \in DOMAIN made
    /\ pc = "idle" => current = newest
    /\ pc # "idle" => /\ made[current].parent = newest
                      /\ current = Genesis <=> newest = 0
                      /\ proposal = 0
    /\ pc \in {"header", "newest"} => current \in blocks
    /\ pc = "newest" => current \in headers
    /\ proposal # 0 => main /\ proposal # Genesis /\ made[proposal].parent = current
    /\ ~main => partitionMaps <= made[current].moves

\* The state of a block is on disk, or it is one of the exceptions of
\* RestartPossible and, at the main node, at least in memory.
Kept(h) ==
  \/ OpensIn(made[h].root, {}, trieDisk)
  \/ made[h].origin = "accounts" /\ (main => made[h].root \in dirty)
  \/ ~main /\ made[h].moves > 0

StatesKept ==
  up = "running" => Kept(current) /\ (proposal # 0 => Kept(proposal))

IInv == ChainStored /\ BlocksLinked /\ WritesInOrder /\ RestartPossible /\ StatesKept

-----------------------------------------------------------------------------
\* What Append does to a sequence, which is all that is needed of sequences.
LEMMA AppendFacts ==
  ASSUME NEW S, NEW s \in Seq(S), NEW x \in S
  PROVE  /\ Append(s, x) \in Seq(S)
         /\ Len(Append(s, x)) = Len(s) + 1
         /\ DOMAIN s = 1..Len(s) /\ Len(s) \in Nat
         /\ DOMAIN Append(s, x) = 1..(Len(s) + 1)
         /\ \A i \in DOMAIN s : Append(s, x)[i] = s[i]
         /\ Append(s, x)[Len(s) + 1] = x
  OBVIOUS

\* The fields of a block.
LEMMA BlockFields ==
  ASSUME TypeOK, NEW i \in DOMAIN made
  PROVE  made[i] \in Block /\ made[i].root \in Roots /\ made[i].moves \in Nat
<1>1. made[i] \in Block
  BY DEF TypeOK
<1> QED  BY <1>1 DEF Block

\* Blocks that are made later leave the earlier ones as they are, and are linked.
LEMMA MadeGrows ==
  ASSUME TypeOK, BlocksLinked, current \in DOMAIN made,
         NEW body \in {"empty", "unmodified", "modified", "accounts"}, NEW root \in Roots,
         Unchanged(body, root),
         made' = Append(made, Successor(body, root))
  PROVE  /\ made' \in Seq(Block)
         /\ Len(made') = Len(made) + 1 /\ Len(made) \in Nat
         /\ DOMAIN made = 1..Len(made) /\ DOMAIN made' = 1..(Len(made) + 1)
         /\ \A i \in DOMAIN made : made'[i] = made[i]
         /\ made'[Len(made) + 1] = Successor(body, root)
         /\ Len(made) + 1 # Genesis
         /\ BlocksLinked'
<1> DEFINE b == Successor(body, root)
<1>1. made \in Seq(Block) /\ made[current] \in Block
  BY DEF TypeOK
<1>2. b \in Block
  <2>1. current \in Nat
    BY DEF TypeOK
  <2>2. body \in {"empty", "unmodified"} => root = made[current].root
    BY DEF Unchanged
  <2> QED  BY <1>1, <2>1, <2>2 DEF Successor, Block
<1>3. /\ made' \in Seq(Block)
      /\ Len(made') = Len(made) + 1 /\ Len(made) \in Nat
      /\ DOMAIN made = 1..Len(made) /\ DOMAIN made' = 1..(Len(made) + 1)
      /\ \A i \in DOMAIN made : made'[i] = made[i]
      /\ made'[Len(made) + 1] = b
  BY <1>1, <1>2, AppendFacts
<1>4. Len(made) + 1 # Genesis
  BY <1>3 DEF BlocksLinked, Genesis
<1>5. ASSUME NEW i \in DOMAIN made', i # Genesis
      PROVE  Linked(i)'
  <2>1. CASE i \in DOMAIN made
    BY <2>1, <1>3, <1>5 DEF BlocksLinked, Linked
  <2>2. CASE i = Len(made) + 1
    <3>1. /\ b.parent = current /\ b.body = body
          /\ body # "accounts" => b.moves = made[current].moves
          /\ body \in {"empty", "unmodified"} =>
               b.root = made[current].root /\ b.origin = made[current].origin
      BY DEF Successor, Unchanged
    <3>2. made'[i] = b /\ made'[current] = made[current] /\ current \in DOMAIN made'
      BY <2>2, <1>3
    <3> QED  BY <3>1, <3>2 DEF Linked
  <2> QED  BY <2>1, <2>2, <1>3
<1>6. BlocksLinked'
  BY <1>3, <1>5 DEF BlocksLinked
<1> QED  BY <1>3, <1>4, <1>6

\* A node starts on an empty disk, with the genesis block to store.
THEOREM InitEstablishes == Init => IInv
<1> SUFFICES ASSUME Init PROVE IInv
  OBVIOUS
<1>1. GenisisBlock \in Block
  BY StorageAssumption DEF GenisisBlock, Block
<1>2. made \in Seq(Block) /\ Len(made) = 1 /\ DOMAIN made = {1} /\ made[1] = GenisisBlock
  BY <1>1 DEF Init
<1>3. TypeOK
  BY <1>2 DEF Init, TypeOK
<1> QED  BY <1>2, <1>3
  DEF Init, IInv, ChainStored, BlocksLinked, WritesInOrder, RestartPossible, StatesKept, Genesis

-----------------------------------------------------------------------------
(***************************************************************************)
(* Steps that leave the blocks and the trie database alone.                *)
(***************************************************************************)

\* A start, on an empty disk or on the newest stored block.
LEMMA NewBlockChainPreserves == IInv /\ NewBlockChain => IInv'
<1> SUFFICES ASSUME IInv, NewBlockChain PROVE IInv'
  OBVIOUS
<1> USE DEF IInv, NewBlockChain, disk
<1>1. TypeOK'
  BY DEF ChainStored, TypeOK, BlocksLinked, Genesis
<1>2. ChainStored'
  BY <1>1 DEF ChainStored
<1>3. BlocksLinked' /\ RestartPossible'
  BY DEF BlocksLinked, Linked, RestartPossible, OpensIn
<1>4. WritesInOrder'
  <2>1. CASE newest = 0
    <3>1. made[1].parent = 0 /\ made[1].moves = 0
      BY DEF BlocksLinked, GenisisBlock
    <3> QED  BY <2>1, <3>1 DEF WritesInOrder, BlocksLinked, Genesis
  <2>2. CASE newest # 0
    <3>1. newest \in DOMAIN made /\ made \in Seq(Block)
      BY <2>2 DEF ChainStored, TypeOK
    <3>2. made[newest].moves \in Nat
      BY <3>1, BlockFields DEF ChainStored
    <3> QED  BY <2>2, <3>1, <3>2 DEF WritesInOrder
  <2> QED  BY <2>1, <2>2
<1>5. StatesKept'
  BY DEF StatesKept, Kept, OpensIn, BlocksLinked, Genesis, GenisisBlock
<1> QED  BY <1>2, <1>3, <1>4, <1>5

\* The process ends, by a crash or by a panic.
LEMMA DownPreserves ==
  ASSUME IInv, UNCHANGED <<main, made, blocks, headers, newest, trieDisk>>,
         up' = "down", pc' = "idle", current' = 0, dirty' = {}, proposal' = 0,
         partitionMaps' = 0
  PROVE  IInv'
<1> USE DEF IInv
<1>1. ChainStored'
  BY DEF ChainStored, TypeOK
<1>2. BlocksLinked' /\ RestartPossible'
  BY DEF BlocksLinked, Linked, RestartPossible, OpensIn
<1> QED  BY <1>1, <1>2 DEF WritesInOrder, StatesKept

\* The three transactions of AddBlock in storage.go, each of which a crash may follow.
LEMMA StoragePreserves == IInv /\ (putBlock \/ AddBlockHeader \/ UpdateNewestBlock) => IInv'
<1> SUFFICES ASSUME IInv, putBlock \/ AddBlockHeader \/ UpdateNewestBlock PROVE IInv'
  OBVIOUS
<1> USE DEF IInv, putBlock, AddBlockHeader, UpdateNewestBlock
<1>1. TypeOK'
  BY DEF ChainStored, TypeOK, WritesInOrder
<1>2. ChainStored'
  BY <1>1 DEF ChainStored, WritesInOrder
<1>3. BlocksLinked'
  BY DEF BlocksLinked, Linked
<1>4. WritesInOrder'
  BY DEF WritesInOrder, ChainStored, TypeOK
<1>5. RestartPossible'
  BY DEF RestartPossible, OpensIn, StatesKept, Kept
<1>6. StatesKept'
  BY DEF StatesKept, Kept, OpensIn
<1> QED  BY <1>2, <1>3, <1>4, <1>5, <1>6

\* The main node stores the block that it has proposed, whose trie it has committed.
LEMMA AddBlockMainPreserves == IInv /\ AddBlockMain => IInv'
<1> SUFFICES ASSUME IInv, AddBlockMain PROVE IInv'
  OBVIOUS
<1> USE DEF IInv, AddBlockMain, disk
<1>1. TypeOK'
  BY DEF ChainStored, TypeOK
<1>2. ChainStored'
  BY <1>1 DEF ChainStored
<1>3. BlocksLinked' /\ RestartPossible'
  BY DEF BlocksLinked, Linked, RestartPossible, OpensIn
<1>4. WritesInOrder'
  BY DEF WritesInOrder, ChainStored, TypeOK, BlocksLinked, Genesis
<1>5. StatesKept'
  BY DEF StatesKept, Kept, OpensIn
<1> QED  BY <1>2, <1>3, <1>4, <1>5

-----------------------------------------------------------------------------
(***************************************************************************)
(* Steps that make a block or change the trie database.                    *)
(***************************************************************************)

\* Making a block disturbs nothing that speaks of the blocks on disk.
LEMMA MadeKeepsDisk ==
  ASSUME IInv, up = "running",
         NEW body \in {"empty", "unmodified", "modified", "accounts"}, NEW root \in Roots,
         Unchanged(body, root),
         made' = Append(made, Successor(body, root)),
         UNCHANGED <<main, blocks, headers, newest>>,
         trieDisk \subseteq trieDisk'
  PROVE  /\ BlocksLinked' /\ RestartPossible'
         /\ blocks' \subseteq DOMAIN made' /\ headers' \subseteq DOMAIN made'
         /\ newest' # 0 => newest' \in blocks' \cap headers'
         /\ \A h \in blocks' : h = Genesis \/ made'[h].parent \in blocks' \cap headers'
<1>1. TypeOK /\ BlocksLinked /\ current \in DOMAIN made /\ blocks \subseteq DOMAIN made
      /\ headers \subseteq DOMAIN made
  BY DEF IInv, ChainStored, TypeOK, WritesInOrder
<1>2. /\ DOMAIN made \subseteq DOMAIN made' /\ BlocksLinked'
      /\ \A i \in DOMAIN made : made'[i] = made[i]
  BY <1>1, MadeGrows
<1>3. \A h \in blocks : h \in DOMAIN made /\ made'[h] = made[h]
  BY <1>1, <1>2
<1>4. newest # 0 => newest \in blocks \cap headers
  BY DEF IInv, ChainStored
<1>5. \A h \in blocks : h = Genesis \/ made[h].parent \in blocks \cap headers
  BY DEF IInv, ChainStored
<1>6. RestartPossible'
  BY <1>3, <1>4 DEF IInv, RestartPossible, OpensIn
<1> QED  BY <1>1, <1>2, <1>3, <1>4, <1>5, <1>6

\* The main node makes a block and commits its trie.
LEMMA GenerateBlockPreserves ==
  ASSUME IInv, NEW body \in {"empty", "unmodified", "modified"}, NEW root \in Roots,
         GenerateBlock(body, root)
  PROVE  IInv'
<1> DEFINE new == Len(made) + 1
<1>1. TypeOK /\ BlocksLinked /\ current \in DOMAIN made /\ current = newest /\ main
  BY DEF IInv, ChainStored, TypeOK, WritesInOrder, GenerateBlock
<1>2. /\ made' \in Seq(Block)
      /\ Len(made') = Len(made) + 1 /\ Len(made) \in Nat
      /\ DOMAIN made = 1..Len(made) /\ DOMAIN made' = 1..(Len(made) + 1)
      /\ \A i \in DOMAIN made : made'[i] = made[i]
      /\ made'[new] = Successor(body, root)
      /\ new # Genesis
  BY <1>1, MadeGrows DEF GenerateBlock
<1>3. /\ trieDisk \subseteq trieDisk' /\ trieDisk' \subseteq Roots /\ dirty' \subseteq Roots
  BY <1>1 DEF GenerateBlock, CommitTrie, TypeOK
<1>4. /\ BlocksLinked' /\ RestartPossible'
      /\ blocks' \subseteq DOMAIN made' /\ headers' \subseteq DOMAIN made'
      /\ newest' # 0 => newest' \in blocks' \cap headers'
      /\ \A h \in blocks' : h = Genesis \/ made'[h].parent \in blocks' \cap headers'
  BY <1>3, MadeKeepsDisk DEF GenerateBlock
<1>5. TypeOK'
  BY <1>1, <1>2, <1>3, <1>4 DEF TypeOK, GenerateBlock
<1>6. ChainStored'
  BY <1>4, <1>5 DEF ChainStored
<1>7. made'[new].parent = current
  BY <1>2 DEF Successor
<1>8. WritesInOrder'
  BY <1>1, <1>2, <1>7 DEF WritesInOrder, GenerateBlock, IInv
<1>9. Kept(current)'
  <2>1. Kept(current)
    BY DEF IInv, StatesKept, GenerateBlock
  <2>2. made'[current] = made[current]
    BY <1>1, <1>2
  <2> QED  BY <2>1, <2>2, <1>1 DEF Kept, OpensIn, GenerateBlock, CommitTrie
<1>10. Kept(proposal)'
  <2>1. made'[proposal'] = Successor(body, root) /\ main'
    BY <1>1, <1>2 DEF GenerateBlock
  <2>2. CASE body = "modified"
    BY <2>1, <2>2 DEF Kept, OpensIn, GenerateBlock, CommitTrie, Successor
  <2>3. CASE body # "modified"
    <3>1. /\ made'[proposal'].root = made[current].root
          /\ made'[proposal'].origin = made[current].origin
      BY <2>1, <2>3 DEF Successor, Unchanged, GenerateBlock
    <3>2. made'[current'] = made[current]
      BY <1>1, <1>2 DEF GenerateBlock
    <3> QED  BY <2>1, <3>1, <3>2, <1>9 DEF Kept, OpensIn
  <2> QED  BY <2>2, <2>3
<1>11. StatesKept'
  BY <1>9, <1>10 DEF StatesKept, GenerateBlock
<1> QED  BY <1>4, <1>6, <1>8, <1>11 DEF IInv

\* A block of the main node reaches a node that is not the main node.
LEMMA ProposedPreserves ==
  ASSUME IInv, NEW body \in {"empty", "unmodified", "modified"}, NEW root \in Roots,
         Proposed(body, root)
  PROVE  IInv'
<1>1. TypeOK /\ BlocksLinked /\ current \in DOMAIN made
  BY DEF IInv, ChainStored, TypeOK, WritesInOrder, Proposed
<1>2. /\ made' \in Seq(Block)
      /\ Len(made') = Len(made) + 1 /\ Len(made) \in Nat
      /\ DOMAIN made \subseteq DOMAIN made'
      /\ \A i \in DOMAIN made : made'[i] = made[i]
  BY <1>1, MadeGrows DEF Proposed
<1>3. /\ BlocksLinked' /\ RestartPossible'
      /\ blocks' \subseteq DOMAIN made' /\ headers' \subseteq DOMAIN made'
      /\ newest' # 0 => newest' \in blocks' \cap headers'
      /\ \A h \in blocks' : h = Genesis \/ made'[h].parent \in blocks' \cap headers'
  BY MadeKeepsDisk DEF Proposed, disk
<1>4. TypeOK'
  BY <1>1, <1>2, <1>3 DEF TypeOK, Proposed, disk, memory
<1>5. ChainStored'
  BY <1>3, <1>4 DEF ChainStored
<1>6. made'[current] = made[current] /\ proposal = 0
  BY <1>1, <1>2 DEF Proposed, IInv, WritesInOrder
<1>7. WritesInOrder'
  BY <1>1, <1>2, <1>6 DEF WritesInOrder, Proposed, disk, memory, IInv
<1>8. StatesKept'
  BY <1>1, <1>6 DEF StatesKept, Kept, OpensIn, Proposed, disk, memory, IInv
<1> QED  BY <1>3, <1>5, <1>7, <1>8 DEF IInv

\* A node that is not the main node executes a block and stores it.
LEMMA AddBlockPreserves ==
  ASSUME IInv, NEW h \in DOMAIN made, AddBlock(h)
  PROVE  IInv'
<1> USE DEF IInv
<1>1. /\ TypeOK /\ BlocksLinked /\ current \in DOMAIN made /\ current = newest /\ ~main
      /\ proposal = 0 /\ made' = made
  BY DEF ChainStored, TypeOK, WritesInOrder, AddBlock
<1>2. /\ made[h].parent = current /\ made[h].body # "accounts"
      /\ made[h].moves \in Nat /\ made[current].moves \in Nat
  BY <1>1, BlockFields DEF AddBlock, NextNumber
<1>3. newest # 0
  BY <1>1 DEF TypeOK
<1>4. h # Genesis
  BY <1>1, <1>2, <1>3 DEF BlocksLinked, Genesis, GenisisBlock
<1>5. /\ made[h].moves = made[current].moves
      /\ made[h].body \in {"empty", "unmodified"} =>
           made[h].root = made[current].root /\ made[h].origin = made[current].origin
  BY <1>1, <1>2, <1>4 DEF BlocksLinked, Linked
<1>6. trieDisk \subseteq trieDisk' /\ trieDisk' \subseteq Roots /\ dirty' \subseteq Roots
  BY <1>1, BlockFields DEF AddBlock, ExecuteBlock, CommitTrie, TypeOK
<1>7. TypeOK'
  BY <1>1, <1>6 DEF TypeOK, AddBlock
<1>8. ChainStored'
  BY <1>7 DEF ChainStored, AddBlock
<1>9. BlocksLinked' /\ RestartPossible'
  BY <1>1, <1>6 DEF BlocksLinked, Linked, RestartPossible, OpensIn, AddBlock
<1>10. WritesInOrder'
  BY <1>1, <1>2, <1>3, <1>4, <1>5 DEF WritesInOrder, AddBlock
<1>11. Kept(current)'
  <2>1. CASE made[h].moves > 0
    BY <2>1, <1>1 DEF Kept, AddBlock
  <2>2. CASE made[h].moves = 0
    <3>1. ~MapsLost
      BY <1>1, <1>5, <2>2 DEF MapsLost, WritesInOrder, AddBlock, TypeOK
    <3>2. CommitTrie(made[h].body, made[h].root)
      BY <3>1 DEF AddBlock, ExecuteBlock
    <3>3. CASE made[h].body = "modified"
      BY <3>2, <3>3, <1>1 DEF Kept, OpensIn, AddBlock, CommitTrie
    <3>4. CASE made[h].body # "modified"
      <4>1. made[h].body \in {"empty", "unmodified"}
        BY <3>4, <1>2, <1>1, BlockFields DEF Block
      <4>2. Kept(current)
        BY DEF StatesKept, AddBlock
      <4> QED  BY <4>1, <4>2, <3>2, <3>4, <1>1, <1>5 DEF Kept, OpensIn, AddBlock, CommitTrie
    <3> QED  BY <3>3, <3>4
  <2> QED  BY <2>1, <2>2, <1>2
<1>12. StatesKept'
  BY <1>1, <1>11 DEF StatesKept, AddBlock
<1> QED  BY <1>8, <1>9, <1>10, <1>12

\* The accounts of a transfer block are added on the current state.
LEMMA AddAccountsPreserves ==
  ASSUME IInv, NEW root \in Roots, AddAccounts(root)
  PROVE  IInv'
<1> DEFINE old == made[current].root
<1>1. TypeOK /\ BlocksLinked /\ current \in DOMAIN made /\ current = newest /\ proposal = 0
  BY DEF IInv, ChainStored, TypeOK, WritesInOrder, AddAccounts
<1>2. /\ made' \in Seq(Block)
      /\ Len(made') = Len(made) + 1 /\ Len(made) \in Nat
      /\ DOMAIN made = 1..Len(made) /\ DOMAIN made' = 1..(Len(made) + 1)
      /\ \A i \in DOMAIN made : made'[i] = made[i]
      /\ made'[Len(made) + 1] = Successor("accounts", root)
      /\ Len(made) + 1 # Genesis
  <2>1. Unchanged("accounts", root)
    BY DEF Unchanged
  <2> QED  BY <1>1, <2>1, MadeGrows DEF AddAccounts
<1>3. made'[current'] = Successor("accounts", root) /\ current' = Len(made) + 1
  BY <1>2 DEF AddAccounts
<1>4. old \in Roots /\ made[current].moves \in Nat
  BY <1>1, BlockFields
<1>5. trieDisk \subseteq trieDisk' /\ trieDisk' \subseteq Roots /\ dirty' \subseteq Roots
  BY <1>1, <1>4 DEF AddAccounts, CommitOldRoot, TypeOK
<1>6. /\ BlocksLinked' /\ RestartPossible'
      /\ blocks' \subseteq DOMAIN made' /\ headers' \subseteq DOMAIN made'
      /\ newest' # 0 => newest' \in blocks' \cap headers'
      /\ \A h \in blocks' : h = Genesis \/ made'[h].parent \in blocks' \cap headers'
  BY <1>5, MadeKeepsDisk DEF AddAccounts, Unchanged
<1>7. TypeOK'
  BY <1>1, <1>2, <1>5, <1>6 DEF TypeOK, AddAccounts
<1>8. ChainStored'
  BY <1>6, <1>7 DEF ChainStored
<1>9. made'[current'].parent = current /\ made'[current'].moves = made[current].moves + 1
  BY <1>3 DEF Successor
<1>10. WritesInOrder'
  <2>1. ~main => partitionMaps <= made[current].moves
    BY DEF IInv, WritesInOrder, AddAccounts
  <2>2. newest # 0
    BY <1>1, <1>2
  <2>3. current' \in DOMAIN made' /\ current' # Genesis
    BY <1>2, <1>3
  <2> QED  BY <1>1, <1>4, <1>9, <2>1, <2>2, <2>3 DEF WritesInOrder, AddAccounts, TypeOK
<1>11. Kept(current)'
  <2>1. CASE ~main
    BY <2>1, <1>4, <1>9 DEF Kept, AddAccounts
  <2>2. CASE main /\ root # old
    BY <2>2, <1>3 DEF Kept, Successor, AddAccounts, CommitOldRoot
  <2>3. CASE main /\ root = old
    <3>1. OpensIn(old, {}, trieDisk) \/ (made[current].origin = "accounts" /\ old \in dirty)
      BY <2>3 DEF IInv, StatesKept, Kept, AddAccounts
    <3>2. made'[current'].root = old /\ made'[current'].origin = made[current].origin
      BY <2>3, <1>3 DEF Successor
    <3> QED  BY <2>3, <3>1, <3>2 DEF Kept, OpensIn, AddAccounts, CommitOldRoot
  <2> QED  BY <2>1, <2>2, <2>3
<1>12. StatesKept'
  BY <1>1, <1>11 DEF StatesKept, AddAccounts
<1> QED  BY <1>6, <1>8, <1>10, <1>12 DEF IInv

-----------------------------------------------------------------------------
\* Every step keeps the inductive invariant.
THEOREM NextPreserves == IInv /\ [Next]_vars => IInv'
<1> SUFFICES ASSUME IInv, [Next]_vars PROVE IInv'
  OBVIOUS
<1>1. CASE NewBlockChain
  BY <1>1, NewBlockChainPreserves
<1>2. CASE Crash
  BY <1>2, DownPreserves DEF Crash, disk
<1>3. CASE putBlock \/ AddBlockHeader \/ UpdateNewestBlock
  BY <1>3, StoragePreserves
<1>4. ASSUME NEW body \in {"empty", "unmodified", "modified"}, NEW root \in Roots,
             GenerateBlock(body, root)
      PROVE  IInv'
  BY <1>4, GenerateBlockPreserves
<1>5. ASSUME NEW body \in {"empty", "unmodified", "modified"}, NEW root \in Roots,
             Proposed(body, root)
      PROVE  IInv'
  BY <1>5, ProposedPreserves
<1>6. CASE AddBlockMain
  BY <1>6, AddBlockMainPreserves
<1>7. ASSUME NEW h \in DOMAIN made, AddBlock(h)
      PROVE  IInv'
  BY <1>7, AddBlockPreserves
<1>8. CASE ExecutePanics
  BY <1>8, DownPreserves DEF ExecutePanics, disk
<1>9. ASSUME NEW root \in Roots, AddAccounts(root)
      PROVE  IInv'
  BY <1>9, AddAccountsPreserves
<1>10. CASE UNCHANGED vars
  <2> USE <1>10 DEF vars, disk, memory, IInv
  <2>1. ChainStored'
    BY DEF ChainStored, TypeOK
  <2>2. BlocksLinked' /\ RestartPossible'
    BY DEF BlocksLinked, Linked, RestartPossible, OpensIn
  <2>3. WritesInOrder' /\ StatesKept'
    BY DEF WritesInOrder, StatesKept, Kept, OpensIn
  <2> QED  BY <2>1, <2>2, <2>3
<1> QED  BY <1>1, <1>2, <1>3, <1>4, <1>5, <1>6, <1>7, <1>8, <1>9, <1>10 DEF Next

\* The inductive invariant holds in every behaviour of a node.
THEOREM StorageInvariant == Spec => []IInv
  BY InitEstablishes, NextPreserves, PTL DEF Spec

\* The variables keep their types, and wherever crashes fall, the newest block and
\* the ancestors of every stored block are stored with their headers.
THEOREM StoredChain == Spec => []ChainStored
<1>1. IInv => ChainStored
  BY DEF IInv
<1> QED  BY <1>1, StorageInvariant, PTL

\* A running node is at most the block that it is storing ahead of its disk.
THEOREM DiskAtMostOneBehind == Spec => []AtMostOneAhead
<1>1. IInv => AtMostOneAhead
  BY DEF IInv, WritesInOrder, AtMostOneAhead
<1> QED  BY <1>1, StorageInvariant, PTL

\* A restart finds the state of the newest block, with the two exceptions that
\* re-partitioning brings.
THEOREM RestartSucceeds == Spec => []RestartPossible
<1>1. IInv => RestartPossible
  BY DEF IInv
<1> QED  BY <1>1, StorageInvariant, PTL

\* The main node can always open the state of its current block while it runs.
THEOREM MainNodeRuns == Spec => []MainOpensState
<1>1. IInv => MainOpensState
  BY DEF IInv, StatesKept, Kept, MainOpensState, CanOpenCurrent, OpensIn
<1> QED  BY <1>1, StorageInvariant, PTL

\* The newest block on disk only advances to a child of itself.
THEOREM NewestOnlyAdvances == Spec => NewestAdvances
<1>1. IInv /\ [Next]_vars =>
        [newest' # newest => newest' \in DOMAIN made' /\ made'[newest'].parent = newest]_vars
  <2> SUFFICES ASSUME IInv, [Next]_vars, newest' # newest
               PROVE  newest' \in DOMAIN made' /\ made'[newest'].parent = newest
    OBVIOUS
  <2>1. UpdateNewestBlock
    BY DEF Next, NewBlockChain, Crash, putBlock, AddBlockHeader, GenerateBlock, Proposed,
           AddBlockMain, AddBlock, ExecutePanics, AddAccounts, vars, disk, memory
  <2> QED  BY <2>1 DEF IInv, WritesInOrder, UpdateNewestBlock
<1> QED  BY <1>1, StorageInvariant, PTL DEF Spec, NewestAdvances
=============================================================================
