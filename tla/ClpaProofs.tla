----------------------------- MODULE ClpaProofs -----------------------------
(***************************************************************************)
(* Proofs about the two halves of CLPA: the partition algorithm            *)
(* (ClpaPartition), for any accounts, shards, graphs and number of epochs, *)
(* and the re-partitioning handshake (ClpaTransfer), for any input, maps,  *)
(* shards and block size.                                                  *)
(*                                                                         *)
(* Of the algorithm: the map of the graph and the supervisor's map agree   *)
(* only together with the fact that no result is left over between two     *)
(* runs (NoLeftOver).  That no shard is emptied rests on                   *)
(* VertexsNumInShard, which is adjusted move by move, being the true       *)
(* number of vertices (CountInv).  The other counters are exact (ExactInv) *)
(* because a move changes the edges that touch a shard, and the edges      *)
(* between shards, by stars around the moved vertex, and because counting  *)
(* the ends of edges counts every edge twice.                              *)
(*                                                                         *)
(* Of the handshake: Handshake says which shard has carried out which maps *)
(* and which messages with accounts are under way or collected; it alone   *)
(* keeps the states under way current, because a shard that has sent an    *)
(* account executes no block until it has switched.  With it, transactions *)
(* wait where they will be executed unless one came late (AtHome), each is *)
(* in one place (Tracked), and the balances at the owners, which change    *)
(* from the old shard to the new when the new one switches, add up         *)
(* (Balanced).                                                             *)
(***************************************************************************)
EXTENDS ClpaPartition, ClpaTransfer, LedgerTheorems

\* A run starts without a result, and results are about accounts.
NoLeftOver ==
  /\ DOMAIN modifiedMap \subseteq Accounts /\ DOMAIN res \subseteq Accounts
  /\ iter = Building => res = Empty

\* The inductive invariant behind MapsAgree.
MapInv == graphMap = [a \in Accounts |-> graphMap[a]] /\ NoLeftOver /\ MapsAgree

\* The supervisor starts with the default assignment and no results.
LEMMA InitMap == Init_CLPAState => MapInv
<1> SUFFICES ASSUME Init_CLPAState PROVE MapInv
  OBVIOUS
<1>1. Addr2Shard = [a \in Accounts |-> Addr2Shard[a]]
  BY ShardingAssumption
<1>2. DOMAIN Empty = {}
  BY DEF Empty
<1>3. DOMAIN Merged = {}
  BY <1>2 DEF Init_CLPAState, Merged
<1> QED  BY <1>1, <1>2, <1>3 DEF Init_CLPAState, MapInv, NoLeftOver, MapsAgree, ShardOf

\* If nothing that the maps are made of changes, neither do they.
LEMMA MapKept ==
  ASSUME MapInv, UNCHANGED <<modifiedMap, graphMap, res>>, iter' = Building => iter = Building
  PROVE  MapInv'
BY DEF MapInv, NoLeftOver, MapsAgree, ShardOf, Merged

\* Every step of the supervisor keeps the two maps equal.
LEMMA NextMapInv == MapInv /\ [PartitionNext]_partitionVars => MapInv'
<1> SUFFICES ASSUME MapInv, [PartitionNext]_partitionVars PROVE MapInv'
  OBVIOUS
<1>0. DOMAIN Empty = {}
  BY DEF Empty
<1>1. ASSUME NEW u \in Accounts, NEW v \in Accounts, AddEdge(u, v) PROVE MapInv'
  BY <1>1, MapKept DEF AddEdge
<1>2. CASE CLPA_Partition
  <2>1. res = Empty /\ res' = Empty /\ UNCHANGED <<modifiedMap, graphMap>>
    BY <1>2 DEF CLPA_Partition, MapInv, NoLeftOver
  <2>2. iter = Building
    BY <1>2 DEF CLPA_Partition
  <2> QED  BY <2>1, <2>2, MapKept
<1>3. ASSUME NEW v \in Accounts, leaveVertex(v) PROVE MapInv'
  BY <1>3, MapKept DEF leaveVertex, visit
<1>4. ASSUME NEW v \in Accounts, NEW s \in Shards, moveVertex(v, s) PROVE MapInv'
  <2>1. /\ graphMap' = [graphMap EXCEPT ![v] = s]
        /\ res' = [a \in DOMAIN res \cup {v} |-> IF a = v THEN s ELSE res[a]]
        /\ modifiedMap' = modifiedMap /\ iter' = iter /\ iter # Building
    BY <1>4 DEF moveVertex, visit, Building
  <2>2. DOMAIN res' = DOMAIN res \cup {v}
    BY <2>1
  <2>3. NoLeftOver'
    BY <2>1, <2>2 DEF NoLeftOver, MapInv, Building
  <2>4. DOMAIN Merged' = DOMAIN Merged \cup {v}
    BY <2>1, <2>2 DEF Merged
  <2>5. ASSUME NEW a \in Accounts PROVE graphMap'[a] = ShardOf(Merged, a)'
    <3>1. CASE a = v
      <4>1. v \in DOMAIN res' /\ res'[v] = s
        BY <2>1, <2>2
      <4>2. Merged'[v] = s
        BY <4>1 DEF Merged
      <4>3. graphMap'[v] = s
        BY <2>1 DEF MapInv
      <4> QED  BY <3>1, <4>2, <4>3, <2>4 DEF ShardOf
    <3>2. CASE a # v
      <4>1. a \in DOMAIN Merged => Merged'[a] = Merged[a]
        BY <3>2, <2>1, <2>2 DEF Merged
      <4>2. graphMap'[a] = graphMap[a] /\ graphMap[a] = ShardOf(Merged, a)
        BY <3>2, <2>1 DEF MapInv, MapsAgree
      <4> QED  BY <3>2, <4>1, <4>2, <2>4 DEF ShardOf
    <3> QED  BY <3>1, <3>2
  <2>6. graphMap' = [a \in Accounts |-> graphMap'[a]]
    BY <2>1 DEF MapInv
  <2> QED  BY <2>3, <2>5, <2>6 DEF MapInv, MapsAgree
<1>5. CASE nextIteration
  BY <1>5, MapKept, ClpaPartitionAssumption DEF nextIteration, Building
<1>6. CASE clpaReset
  <2>1. /\ modifiedMap' = Merged /\ graphMap' = [a \in Accounts |-> ShardOf(Merged, a)]
        /\ res' = Empty
    BY <1>6 DEF clpaReset, ResetMap
  <2>2. DOMAIN Merged = DOMAIN modifiedMap \cup DOMAIN res
    BY DEF Merged
  <2>3. NoLeftOver'
    BY <2>1, <2>2, <1>0 DEF NoLeftOver, MapInv
  <2>4. DOMAIN Merged' = DOMAIN Merged /\ \A a \in DOMAIN Merged : Merged'[a] = Merged[a]
    BY <2>1, <1>0 DEF Merged
  <2>5. \A a \in Accounts : ShardOf(Merged, a)' = ShardOf(Merged, a)
    BY <2>4 DEF ShardOf
  <2> QED  BY <2>1, <2>3, <2>5 DEF MapInv, MapsAgree
<1>7. CASE UNCHANGED partitionVars
  BY <1>7, MapKept DEF partitionVars
<1> QED  BY <1>1, <1>2, <1>3, <1>4, <1>5, <1>6, <1>7 DEF PartitionNext

\* MapsAgree for all graphs and any number of epochs: the map that clpaReset
\* gives to the new graph is the one by which the supervisor routes transfers.
THEOREM MapsAlwaysAgree == PartitionSpec => []MapsAgree
<1>1. MapInv => MapsAgree
  BY DEF MapInv
<1> QED  BY <1>1, InitMap, NextMapInv, PTL DEF PartitionSpec

-----------------------------------------------------------------------------
\* The vertices of a shard.
VerticesIn(s) == {v \in VertexSet : graphMap[v] = s}

\* VertexsNumInShard counts them, and only vertices are visited.
CountInv ==
  /\ VertexSet \subseteq Accounts /\ todo \subseteq VertexSet
  /\ graphMap \in [Accounts -> Shards]
  /\ VertexsNumInShard = [s \in Shards |-> Cardinality(VerticesIn(s))]
  /\ \A a \in Accounts : ShardOf(Merged, a) \in Shards

\* Sets of vertices are finite.
LEMMA VerticesFinite ==
  ASSUME CountInv, NEW s
  PROVE  IsFiniteSet(VerticesIn(s)) /\ Cardinality(VerticesIn(s)) \in Nat
<1>1. VerticesIn(s) \in SUBSET Accounts
  BY DEF CountInv, VerticesIn
<1> QED  BY <1>1, FS_Subset, FS_CardinalityType, ShardingAssumption

\* If the vertices stay where they are, so does their number.
LEMMA CountKept ==
  ASSUME CountInv, UNCHANGED <<VertexSet, graphMap, VertexsNumInShard>>, MapsAgree',
         todo' \subseteq VertexSet
  PROVE  CountInv'
<1>1. \A s : VerticesIn(s)' = VerticesIn(s)
  BY DEF VerticesIn
<1>2. \A a \in Accounts : ShardOf(Merged, a)' \in Shards
  BY DEF MapsAgree, CountInv
<1> QED  BY <1>1, <1>2 DEF CountInv

\* The first graph is empty.
LEMMA InitCount == Init_CLPAState => CountInv
<1> SUFFICES ASSUME Init_CLPAState PROVE CountInv
  OBVIOUS
<1>1. \A s : VerticesIn(s) = {}
  BY DEF Init_CLPAState, VerticesIn
<1>2. \A a \in Accounts : ShardOf(Merged, a) = graphMap[a]
  BY InitMap DEF MapInv, MapsAgree
<1> QED  BY <1>1, <1>2, FS_EmptySet, ShardingAssumption DEF Init_CLPAState, CountInv

\* New vertices and moves are counted in the right shards.
LEMMA NextCount == MapInv /\ CountInv /\ [PartitionNext]_partitionVars => CountInv'
<1> SUFFICES ASSUME MapInv, CountInv, [PartitionNext]_partitionVars PROVE CountInv'
  OBVIOUS
<1>0. MapsAgree'
  BY NextMapInv DEF MapInv
<1>1. ASSUME NEW u \in Accounts, NEW v \in Accounts, AddEdge(u, v) PROVE CountInv'
  <2> DEFINE new == {u, v} \ VertexSet
             here(s) == {x \in new : graphMap[x] = s}
  <2>1. /\ VertexSet' = VertexSet \cup {u, v} /\ UNCHANGED <<graphMap, todo>>
        /\ VertexsNumInShard' = [s \in Shards |-> VertexsNumInShard[s] + Cardinality(here(s))]
    BY <1>1 DEF AddEdge
  <2>2. ASSUME NEW s \in Shards
        PROVE  Cardinality(VerticesIn(s)') = VertexsNumInShard[s] + Cardinality(here(s))
    <3>1. VerticesIn(s)' = VerticesIn(s) \cup here(s) /\ VerticesIn(s) \cap here(s) = {}
      BY <2>1 DEF VerticesIn
    <3>2. IsFiniteSet(here(s)) /\ Cardinality(here(s)) \in Nat
      <4>1. here(s) \in SUBSET Accounts
        OBVIOUS
      <4> QED  BY <4>1, FS_Subset, FS_CardinalityType, ShardingAssumption
    <3>3. Cardinality(VerticesIn(s) \cup here(s)) =
            Cardinality(VerticesIn(s)) + Cardinality(here(s)) - Cardinality({})
      <4> HIDE DEF here
      <4> QED  BY <3>1, <3>2, VerticesFinite, FS_Union
    <3>4. VertexsNumInShard[s] = Cardinality(VerticesIn(s))
      BY DEF CountInv
    <3> HIDE DEF here
    <3> QED  BY <3>1, <3>2, <3>3, <3>4, VerticesFinite, FS_EmptySet
  <2>3. VertexsNumInShard' = [s \in Shards |-> Cardinality(VerticesIn(s)')]
    <3> HIDE DEF here
    <3> QED  BY <2>1, <2>2
  <2>4. \A a \in Accounts : ShardOf(Merged, a)' \in Shards
    BY <1>0, <2>1 DEF MapsAgree, CountInv
  <2> QED  BY <2>1, <2>3, <2>4 DEF CountInv
<1>2. CASE CLPA_Partition
  BY <1>2, <1>0, CountKept DEF CLPA_Partition
<1>3. ASSUME NEW v \in Accounts, leaveVertex(v) PROVE CountInv'
  BY <1>3, <1>0, CountKept DEF leaveVertex, visit, CountInv
<1>4. ASSUME NEW v \in Accounts, NEW new \in Shards, moveVertex(v, new) PROVE CountInv'
  <2>0. PICK old \in Shards : old = graphMap[v]
    BY DEF CountInv
  <2>1. /\ v \in VertexSet /\ VertexSet' = VertexSet /\ todo' \subseteq todo
        /\ graphMap' = [graphMap EXCEPT ![v] = new]
        /\ VertexsNumInShard' = [VertexsNumInShard EXCEPT ![old] = @ - 1, ![new] = @ + 1]
        /\ new # old
    BY <1>4, <2>0 DEF moveVertex, visit, CountInv
  <2>2. graphMap' \in [Accounts -> Shards]
    BY <2>1 DEF CountInv
  <2>3. VerticesIn(old)' = VerticesIn(old) \ {v} /\ v \in VerticesIn(old)
    BY <2>0, <2>1 DEF VerticesIn, CountInv
  <2>4. VerticesIn(new)' = VerticesIn(new) \cup {v} /\ v \notin VerticesIn(new)
    BY <2>0, <2>1 DEF VerticesIn, CountInv
  <2>5. ASSUME NEW s \in Shards, s # old, s # new PROVE VerticesIn(s)' = VerticesIn(s)
    BY <2>0, <2>1, <2>5 DEF VerticesIn, CountInv
  <2>6. /\ Cardinality(VerticesIn(old)') = Cardinality(VerticesIn(old)) - 1
        /\ Cardinality(VerticesIn(new)') = Cardinality(VerticesIn(new)) + 1
    <3>1. IsFiniteSet(VerticesIn(old)) /\ IsFiniteSet(VerticesIn(new))
      BY VerticesFinite
    <3>2. Cardinality(VerticesIn(old) \ {v}) = Cardinality(VerticesIn(old)) - 1
      BY <3>1, <2>3, FS_RemoveElement
    <3>3. Cardinality(VerticesIn(new) \cup {v}) = Cardinality(VerticesIn(new)) + 1
      BY <3>1, <2>4, FS_AddElement
    <3> QED  BY <3>2, <3>3, <2>3, <2>4
  <2>7. VertexsNumInShard' = [s \in Shards |-> Cardinality(VerticesIn(s)')]
    <3>1. \A s \in Shards : VertexsNumInShard[s] = Cardinality(VerticesIn(s))
      BY DEF CountInv
    <3>2. VertexsNumInShard = [s \in Shards |-> VertexsNumInShard[s]]
      BY DEF CountInv
    <3>3. \A s \in Shards : VertexsNumInShard'[s] = Cardinality(VerticesIn(s)')
      <4> TAKE s \in Shards
      <4>1. CASE s = old
        BY <4>1, <2>1, <2>2, <2>6, <3>1, <3>2
      <4>2. CASE s = new
        BY <4>2, <2>1, <2>2, <2>6, <3>1, <3>2
      <4>3. CASE s # old /\ s # new
        BY <4>3, <2>1, <2>2, <2>5, <3>1, <3>2
      <4> QED  BY <4>1, <4>2, <4>3
    <3> QED  BY <3>2, <3>3, <2>1
  <2>8. \A a \in Accounts : ShardOf(Merged, a)' \in Shards
    BY <1>0, <2>2 DEF MapsAgree
  <2> QED  BY <2>1, <2>2, <2>7, <2>8 DEF CountInv
<1>5. CASE nextIteration
  BY <1>5, <1>0, CountKept DEF nextIteration
<1>6. CASE clpaReset
  <2>1. /\ VertexSet' = {} /\ todo' = {} /\ VertexsNumInShard' = [s \in Shards |-> 0]
        /\ graphMap' = [a \in Accounts |-> ShardOf(Merged, a)]
    BY <1>6 DEF clpaReset, ResetMap
  <2>2. graphMap' \in [Accounts -> Shards]
    BY <2>1 DEF CountInv
  <2>3. \A s : VerticesIn(s)' = {}
    BY <2>1 DEF VerticesIn
  <2>4. \A a \in Accounts : ShardOf(Merged, a)' \in Shards
    BY <1>0, <2>2 DEF MapsAgree
  <2> QED  BY <2>1, <2>2, <2>3, <2>4, FS_EmptySet DEF CountInv
<1>7. CASE UNCHANGED partitionVars
  BY <1>7, <1>0, CountKept DEF partitionVars, CountInv
<1> QED  BY <1>1, <1>2, <1>3, <1>4, <1>5, <1>6, <1>7 DEF PartitionNext

\* A step of the algorithm leaves a vertex in every shard that has one.
LEMMA ShardKept ==
  ASSUME CountInv, [PartitionNext]_partitionVars, NEW s \in Shards, NEW w \in VertexSet, graphMap[w] = s,
         iter # MaxIterations
  PROVE  \E v \in VertexSet' : graphMap'[v] = s
<1>1. ASSUME NEW v \in Accounts, NEW new \in Shards, moveVertex(v, new)
      PROVE  \E x \in VertexSet' : graphMap'[x] = s
  <2>1. /\ VertexSet' = VertexSet /\ graphMap' = [graphMap EXCEPT ![v] = new]
        /\ VertexsNumInShard[graphMap[v]] > 1 /\ v \in VertexSet
    BY <1>1 DEF moveVertex, visit, MayLeave, CountInv
  <2>2. \E x \in VertexSet : x # v /\ graphMap[x] = s
    <3>1. CASE w # v
      BY <3>1
    <3>2. CASE w = v
      <4>1. Cardinality(VerticesIn(s)) > 1
        BY <3>2, <2>1 DEF CountInv
      <4>2. v \in VerticesIn(s)
        BY <3>2 DEF VerticesIn
      <4>3. VerticesIn(s) # {v}
        BY <4>1, FS_Singleton
      <4> QED  BY <4>2, <4>3 DEF VerticesIn
    <3> QED  BY <3>1, <3>2
  <2> QED  BY <2>1, <2>2 DEF CountInv
<1>2. ASSUME VertexSet \subseteq VertexSet', graphMap' = graphMap
      PROVE  \E v \in VertexSet' : graphMap'[v] = s
  BY <1>2
<1>3. CASE \E u, v \in Accounts : AddEdge(u, v)
  BY <1>2, <1>3 DEF AddEdge
<1>4. CASE CLPA_Partition \/ nextIteration \/ UNCHANGED partitionVars
  BY <1>2, <1>4 DEF CLPA_Partition, nextIteration, partitionVars
<1>5. CASE \E v \in Accounts : leaveVertex(v)
  BY <1>2, <1>5 DEF leaveVertex, visit
<1>6. ~clpaReset
  BY DEF clpaReset
<1> QED  BY <1>1, <1>3, <1>4, <1>5, <1>6 DEF PartitionNext

\* NoShardEmptied for all graphs and any number of shards: the guard on
\* VertexsNumInShard before a move is enough, because that counter is exact
\* however vertices arrive and move.
THEOREM ShardsKeepVertices == PartitionSpec => NoShardEmptied
<1>1. CountInv /\ [PartitionNext]_partitionVars =>
        [\A s \in Shards :
           (\E v \in VertexSet : graphMap[v] = s) /\ iter # MaxIterations
             => \E v \in VertexSet' : graphMap'[v] = s]_partitionVars
  BY ShardKept
<1> QED  BY <1>1, InitMap, NextMapInv, InitCount, NextCount, PTL DEF PartitionSpec, NoShardEmptied

-----------------------------------------------------------------------------
(***************************************************************************)
(* Sums over edges.                                                        *)
(***************************************************************************)

\* The graph and the map have their types.
GraphOK == EdgeSet \in [Pairs -> Nat] /\ graphMap \in [Accounts -> Shards]

\* The pairs are the sets of two accounts.
LEMMA PairsAre ==
  /\ IsFiniteSet(Pairs)
  /\ \A u, v \in Accounts : u # v => {u, v} \in Pairs
  /\ \A e \in Pairs : \E u, v \in Accounts : u # v /\ e = {u, v}
<1>1. IsFiniteSet(Accounts)
  BY ShardingAssumption
<1>2. IsFiniteSet(Pairs)
  <2>1. Pairs \in SUBSET (SUBSET Accounts)
    BY DEF Pairs
  <2>2. IsFiniteSet(SUBSET Accounts)
    BY <1>1, FS_SUBSET
  <2> QED  BY <2>1, <2>2, FS_Subset
<1>3. ASSUME NEW u \in Accounts, NEW v \in Accounts, u # v PROVE {u, v} \in Pairs
  <2>1. IsFiniteSet({u}) /\ Cardinality({u}) = 1
    BY FS_Singleton
  <2>2. Cardinality({u} \cup {v}) = Cardinality({u}) + 1
    BY <1>3, <2>1, FS_AddElement
  <2>3. {u} \cup {v} = {u, v}
    OBVIOUS
  <2>4. Cardinality({u, v}) = 2
    BY <2>1, <2>2, <2>3
  <2> QED  BY <2>4 DEF Pairs
<1>4. ASSUME NEW e \in Pairs PROVE \E u, v \in Accounts : u # v /\ e = {u, v}
  <2>1. e \in SUBSET Accounts /\ Cardinality(e) = 2
    BY DEF Pairs
  <2>2. IsFiniteSet(e)
    BY <1>1, <2>1, FS_Subset
  <2>3. e # {}
    BY <2>1, FS_EmptySet
  <2>4. PICK u : u \in e
    BY <2>3
  <2>5. PICK d : d = e \ {u}
    OBVIOUS
  <2>6. IsFiniteSet(d) /\ Cardinality(d) = 1
    <3>1. IsFiniteSet(e \ {u}) /\ Cardinality(e \ {u}) = Cardinality(e) - 1
      BY <2>2, <2>4, FS_RemoveElement
    <3> QED  BY <2>1, <2>5, <3>1
  <2>7. PICK v : d = {v}
    BY <2>6, FS_Singleton
  <2>8. u # v /\ e = {u, v} /\ u \in Accounts /\ v \in Accounts
    BY <2>1, <2>4, <2>5, <2>7
  <2> QED  BY <2>8
<1> QED  BY <1>2, <1>3, <1>4

\* The edges of v are numbers.
LEMMA EdgesOfType ==
  ASSUME GraphOK, NEW v \in Accounts
  PROVE  \A u \in Accounts : EdgesOf(v)[u] \in Nat /\ EdgesOf(v)[u] = Edges(u, v)
<1>1. \A u \in Accounts : EdgesOf(v)[u] = Edges(u, v)
  BY DEF EdgesOf
<1>2. \A u \in Accounts : Edges(u, v) \in Nat
  BY PairsAre DEF Edges, GraphOK
<1> QED  BY <1>1, <1>2

\* The pairs of v with accounts in U.
Star(v, U) == {{u, v} : u \in U}

\* The edges of a star are those of v.
LEMMA StarSum ==
  ASSUME GraphOK, NEW v \in Accounts, NEW U \in SUBSET Accounts, v \notin U
  PROVE  /\ IsFiniteSet(Star(v, U)) /\ Star(v, U) \subseteq Pairs
         /\ SumFunctionOnSet(EdgeSet, Star(v, U)) = SumFunctionOnSet(EdgesOf(v), U)
<1>1. PICK h, g, f : h = [u \in U |-> {u, v}] /\ g = EdgesOf(v) /\ f = EdgeSet
  OBVIOUS
<1>2. IsFiniteSet(U)
  BY ShardingAssumption, FS_Subset
<1>3. \A u \in U : h[u] = {u, v} /\ u # v /\ h[u] \in Pairs
  BY <1>1, PairsAre
<1>4. \A i, j \in U : h[i] = h[j] => i = j
  BY <1>3
<1>5. \A u \in U : f[h[u]] \in Int /\ g[u] = f[h[u]]
  <2>1. SUFFICES ASSUME NEW u \in U PROVE f[h[u]] \in Int /\ g[u] = f[h[u]]
    OBVIOUS
  <2>2. g[u] = Edges(u, v)
    BY <1>1, EdgesOfType
  <2>3. Edges(u, v) = EdgeSet[{u, v}]
    BY <1>3 DEF Edges
  <2>4. EdgeSet[{u, v}] \in Int
    <3>1. PICK e \in Pairs : e = {u, v}
      BY <1>3
    <3>2. EdgeSet[e] \in Nat
      BY DEF GraphOK
    <3> QED  BY <3>1, <3>2
  <2> QED  BY <1>1, <1>3, <2>2, <2>3, <2>4
<1>6. /\ IsFiniteSet({h[u] : u \in U})
      /\ SumFunctionOnSet(f, {h[u] : u \in U}) = SumFunctionOnSet(g, U)
  BY <1>2, <1>4, <1>5, SumReindex
<1>7. {h[u] : u \in U} = Star(v, U) /\ Star(v, U) \subseteq Pairs
  BY <1>3 DEF Star
<1> QED  BY <1>1, <1>6, <1>7

\* The neighbours of v in shard s, and those outside.
In(v, s) == {u \in Accounts : u # v /\ graphMap[u] = s}
Out(v, s) == {u \in Accounts : u # v /\ graphMap[u] # s}

\* EdgesTo and Degree count the edges to neighbours.
LEMMA EdgesToIs ==
  ASSUME GraphOK, NEW v \in Accounts, NEW s
  PROVE  /\ EdgesTo(v, s) \in Nat /\ Degree(v) \in Nat
         /\ SumFunctionOnSet(EdgeSet, Star(v, In(v, s))) = EdgesTo(v, s)
         /\ SumFunctionOnSet(EdgeSet, Star(v, Out(v, s))) = Degree(v) - EdgesTo(v, s)
<1>1. PICK f, S, I, O, W, Z : /\ f = EdgesOf(v) /\ S = {u \in Accounts : graphMap[u] = s}
                              /\ I = In(v, s) /\ O = Out(v, s) /\ W = Accounts \ S /\ Z = Accounts
  OBVIOUS
<1>2. /\ I \in SUBSET S /\ O \in SUBSET W /\ v \notin I /\ v \notin O
      /\ S \in SUBSET Accounts /\ W \in SUBSET Accounts /\ S \cap W = {} /\ S \cup W = Z
      /\ I \in SUBSET Accounts /\ O \in SUBSET Accounts
  BY <1>1 DEF In, Out
<1>3. IsFiniteSet(S) /\ IsFiniteSet(W) /\ IsFiniteSet(Z)
  BY <1>1, <1>2, ShardingAssumption, FS_Subset
<1>4. \A u \in Accounts : f[u] \in Nat /\ f[u] \in Int
  BY <1>1, EdgesOfType
<1>5. f[v] = 0
  BY <1>1, EdgesOfType DEF Edges
<1>6. \A u \in S \ I : f[u] = 0
  BY <1>1, <1>5 DEF In
<1>7. \A u \in W \ O : f[u] = 0
  BY <1>1, <1>5 DEF Out
<1>8. SumFunctionOnSet(f, S) = SumFunctionOnSet(f, I)
  <2>1. \A u \in I : f[u] \in Int
    BY <1>2, <1>4
  <2> QED  BY <1>2, <1>3, <1>6, <2>1, SumWhere
<1>9. SumFunctionOnSet(f, W) = SumFunctionOnSet(f, O)
  <2>1. \A u \in O : f[u] \in Int
    BY <1>2, <1>4
  <2> QED  BY <1>2, <1>3, <1>7, <2>1, SumWhere
<1>10. SumFunctionOnSet(f, S \cup W) = SumFunctionOnSet(f, S) + SumFunctionOnSet(f, W)
  <2>1. \A u \in S \cup W : f[u] \in Int
    BY <1>2, <1>4
  <2> QED  BY <1>2, <1>3, <2>1, SumUnion
<1>11. EdgesTo(v, s) = SumFunctionOnSet(f, S) /\ Degree(v) = SumFunctionOnSet(f, Z)
  BY <1>1 DEF EdgesTo, Degree
<1>12. SumFunctionOnSet(f, S) \in Nat /\ SumFunctionOnSet(f, W) \in Nat /\ SumFunctionOnSet(f, Z) \in Nat
  <2>1. /\ \A u \in S : f[u] \in Nat
        /\ \A u \in W : f[u] \in Nat
        /\ \A u \in Z : f[u] \in Nat
    BY <1>1, <1>2, <1>4
  <2> QED  BY <1>3, <2>1, SumNatural
<1>13. /\ SumFunctionOnSet(EdgeSet, Star(v, I)) = SumFunctionOnSet(f, I)
       /\ SumFunctionOnSet(EdgeSet, Star(v, O)) = SumFunctionOnSet(f, O)
  BY <1>1, <1>2, StarSum
<1>14. SumFunctionOnSet(f, Z) = SumFunctionOnSet(f, S) + SumFunctionOnSet(f, W)
  BY <1>2, <1>10
<1> QED  BY <1>1, <1>8, <1>9, <1>11, <1>12, <1>13, <1>14

-----------------------------------------------------------------------------
(***************************************************************************)
(* A vertex moves.                                                         *)
(***************************************************************************)

\* Vertex v goes from shard old to shard new.
Moves(v, old, new) ==
  /\ GraphOK /\ v \in Accounts /\ old \in Shards /\ new \in Shards /\ new # old
  /\ graphMap[v] = old
  /\ graphMap' = [graphMap EXCEPT ![v] = new] /\ EdgeSet' = EdgeSet

\* Sums over sets of pairs are numbers, and add up.
LEMMA PairSums ==
  ASSUME GraphOK, NEW A \in SUBSET Pairs, NEW B \in SUBSET Pairs, A \cap B = {}
  PROVE  /\ SumFunctionOnSet(EdgeSet, A) \in Nat
         /\ SumFunctionOnSet(EdgeSet, A \cup B)
              = SumFunctionOnSet(EdgeSet, A) + SumFunctionOnSet(EdgeSet, B)
<1>1. PICK f : f = EdgeSet
  OBVIOUS
<1>2. IsFiniteSet(A) /\ IsFiniteSet(B)
  BY PairsAre, FS_Subset
<1>3. (\A e \in A : f[e] \in Nat) /\ \A e \in A \cup B : f[e] \in Int
  BY <1>1 DEF GraphOK
<1>4. SumFunctionOnSet(f, A) \in Nat
  BY <1>2, <1>3, SumNatural
<1>5. SumFunctionOnSet(f, A \cup B) = SumFunctionOnSet(f, A) + SumFunctionOnSet(f, B)
  BY <1>2, <1>3, SumUnion
<1> QED  BY <1>1, <1>4, <1>5

\* Which pairs touch a shard after the move.
LEMMA MoveTouching ==
  ASSUME NEW v, NEW old, NEW new, Moves(v, old, new)
  PROVE  /\ Touching(new)' = Touching(new) \cup Star(v, Out(v, new))
         /\ Touching(new) \cap Star(v, Out(v, new)) = {}
         /\ Touching(old) = Touching(old)' \cup Star(v, Out(v, old))
         /\ Touching(old)' \cap Star(v, Out(v, old)) = {}
         /\ \A s : s # old /\ s # new => Touching(s)' = Touching(s)
<1>0. /\ v \in Accounts /\ new # old /\ graphMap[v] = old /\ graphMap'[v] = new
      /\ \A u \in Accounts : u # v => graphMap'[u] = graphMap[u]
  BY DEF Moves, GraphOK
<1>1. \A e : e \in Pairs <=> \E a, c \in Accounts : a # c /\ e = {a, c}
  BY PairsAre
<1>2. \A s : \A a, c \in Accounts : a # c =>
        /\ {a, c} \in Touching(s) <=> graphMap[a] = s \/ graphMap[c] = s
        /\ {a, c} \in Touching(s)' <=> graphMap'[a] = s \/ graphMap'[c] = s
  BY PairsAre DEF Touching, Pairs
<1>3. \A s : \A a, c \in Accounts : a # c =>
        ({a, c} \in Star(v, Out(v, s)) <=>
          (a = v /\ graphMap[c] # s) \/ (c = v /\ graphMap[a] # s))
  <2>1. SUFFICES ASSUME NEW s, NEW a \in Accounts, NEW c \in Accounts, a # c
                 PROVE  {a, c} \in Star(v, Out(v, s)) <=>
          (a = v /\ graphMap[c] # s) \/ (c = v /\ graphMap[a] # s)
    OBVIOUS
  <2>2. {a, c} \in Star(v, Out(v, s)) <=> \E u \in Out(v, s) : {a, c} = {u, v}
    BY DEF Star
  <2>3. \A u : {a, c} = {u, v} => (a = v /\ c = u) \/ (c = v /\ a = u)
    BY <2>1
  <2>4. \A u \in Accounts : u \in Out(v, s) <=> u # v /\ graphMap[u] # s
    BY DEF Out
  <2>5. \A u \in Out(v, s) : u \in Accounts
    BY DEF Out
  <2>6. ASSUME a = v, graphMap[c] # s PROVE {a, c} \in Star(v, Out(v, s))
    <3>1. c \in Out(v, s) /\ {a, c} = {c, v}
      BY <2>1, <2>4, <2>6
    <3> QED  BY <2>2, <3>1
  <2>7. ASSUME c = v, graphMap[a] # s PROVE {a, c} \in Star(v, Out(v, s))
    <3>1. a \in Out(v, s) /\ {a, c} = {a, v}
      BY <2>1, <2>4, <2>7
    <3> QED  BY <2>2, <3>1
  <2>8. ASSUME {a, c} \in Star(v, Out(v, s))
        PROVE  (a = v /\ graphMap[c] # s) \/ (c = v /\ graphMap[a] # s)
    <3>1. PICK u \in Out(v, s) : {a, c} = {u, v}
      BY <2>2, <2>8
    <3>2. graphMap[u] # s
      BY <2>4, <2>5
    <3> QED  BY <2>3, <3>1, <3>2
  <2> QED  BY <2>6, <2>7, <2>8
<1>4. /\ \A s : Touching(s) \subseteq Pairs /\ Touching(s)' \subseteq Pairs
      /\ \A s : Star(v, Out(v, s)) \subseteq Pairs
  <2>1. \A s : Touching(s) \subseteq Pairs /\ Touching(s)' \subseteq Pairs
    BY DEF Touching, Pairs
  <2>2. \A s : Star(v, Out(v, s)) \subseteq Pairs
    BY <1>0, PairsAre DEF Star, Out
  <2> QED  BY <2>1, <2>2
<1>5. \A e : e \in Touching(new)' <=> e \in Touching(new) \/ e \in Star(v, Out(v, new))
  <2>1. SUFFICES ASSUME NEW a \in Accounts, NEW c \in Accounts, a # c
                 PROVE  {a, c} \in Touching(new)' <=> \/ {a, c} \in Touching(new)
                                                      \/ {a, c} \in Star(v, Out(v, new))
    BY <1>1, <1>4
  <2>2. /\ {a, c} \in Touching(new) <=> graphMap[a] = new \/ graphMap[c] = new
        /\ {a, c} \in Touching(new)' <=> graphMap'[a] = new \/ graphMap'[c] = new
    BY <1>2, <2>1
  <2>3. {a, c} \in Star(v, Out(v, new)) <=>
          (a = v /\ graphMap[c] # new) \/ (c = v /\ graphMap[a] # new)
    BY <1>3, <2>1
  <2> QED  BY <1>0, <2>1, <2>2, <2>3
<1>6. \A e : ~(e \in Touching(new) /\ e \in Star(v, Out(v, new)))
  <2>1. SUFFICES ASSUME NEW a \in Accounts, NEW c \in Accounts, a # c
                 PROVE  ~({a, c} \in Touching(new) /\ {a, c} \in Star(v, Out(v, new)))
    BY <1>1, <1>4
  <2>2. /\ {a, c} \in Touching(new) <=> graphMap[a] = new \/ graphMap[c] = new
        /\ {a, c} \in Touching(new)' <=> graphMap'[a] = new \/ graphMap'[c] = new
    BY <1>2, <2>1
  <2>3. {a, c} \in Star(v, Out(v, new)) <=>
          (a = v /\ graphMap[c] # new) \/ (c = v /\ graphMap[a] # new)
    BY <1>3, <2>1
  <2> QED  BY <1>0, <2>1, <2>2, <2>3
<1>7. \A e : e \in Touching(old) <=> e \in Touching(old)' \/ e \in Star(v, Out(v, old))
  <2>1. SUFFICES ASSUME NEW a \in Accounts, NEW c \in Accounts, a # c
                 PROVE  {a, c} \in Touching(old) <=> \/ {a, c} \in Touching(old)'
                                                     \/ {a, c} \in Star(v, Out(v, old))
    BY <1>1, <1>4
  <2>2. /\ {a, c} \in Touching(old) <=> graphMap[a] = old \/ graphMap[c] = old
        /\ {a, c} \in Touching(old)' <=> graphMap'[a] = old \/ graphMap'[c] = old
    BY <1>2, <2>1
  <2>3. {a, c} \in Star(v, Out(v, old)) <=>
          (a = v /\ graphMap[c] # old) \/ (c = v /\ graphMap[a] # old)
    BY <1>3, <2>1
  <2> QED  BY <1>0, <2>1, <2>2, <2>3
<1>8. \A e : ~(e \in Touching(old)' /\ e \in Star(v, Out(v, old)))
  <2>1. SUFFICES ASSUME NEW a \in Accounts, NEW c \in Accounts, a # c
                 PROVE  ~({a, c} \in Touching(old)' /\ {a, c} \in Star(v, Out(v, old)))
    BY <1>1, <1>4
  <2>2. /\ {a, c} \in Touching(old) <=> graphMap[a] = old \/ graphMap[c] = old
        /\ {a, c} \in Touching(old)' <=> graphMap'[a] = old \/ graphMap'[c] = old
    BY <1>2, <2>1
  <2>3. {a, c} \in Star(v, Out(v, old)) <=>
          (a = v /\ graphMap[c] # old) \/ (c = v /\ graphMap[a] # old)
    BY <1>3, <2>1
  <2> QED  BY <1>0, <2>1, <2>2, <2>3
<1>9. ASSUME NEW s, s # old, s # new PROVE \A e : e \in Touching(s)' <=> e \in Touching(s)
  <2>1. SUFFICES ASSUME NEW a \in Accounts, NEW c \in Accounts, a # c
                 PROVE  {a, c} \in Touching(s)' <=> {a, c} \in Touching(s)
    BY <1>1, <1>4
  <2> QED  BY <1>0, <1>2, <1>9, <2>1
<1>10. /\ \A e : e \in Touching(new)' <=> e \in Touching(new) \cup Star(v, Out(v, new))
       /\ \A e : e \notin Touching(new) \cap Star(v, Out(v, new))
  BY <1>5, <1>6
<1>11. /\ \A e : e \in Touching(old) <=> e \in Touching(old)' \cup Star(v, Out(v, old))
       /\ \A e : e \notin Touching(old)' \cap Star(v, Out(v, old))
  BY <1>7, <1>8
<1> QED  BY <1>9, <1>10, <1>11

\* The pairs of v with neighbours in shard s.
LEMMA StarIn ==
  ASSUME NEW v \in Accounts, NEW s, NEW a \in Accounts, NEW c \in Accounts, a # c
  PROVE  {a, c} \in Star(v, In(v, s)) <=>
           (a = v /\ graphMap[c] = s) \/ (c = v /\ graphMap[a] = s)
<1>1. {a, c} \in Star(v, In(v, s)) <=> \E u \in In(v, s) : {a, c} = {u, v}
  BY DEF Star
<1>2. \A u : {a, c} = {u, v} => (a = v /\ c = u) \/ (c = v /\ a = u)
  OBVIOUS
<1>3. \A u \in Accounts : u \in In(v, s) <=> u # v /\ graphMap[u] = s
  BY DEF In
<1>4. \A u \in In(v, s) : u \in Accounts
  BY DEF In
<1>5. ASSUME a = v, graphMap[c] = s PROVE {a, c} \in Star(v, In(v, s))
  <2>1. c \in In(v, s) /\ {a, c} = {c, v}
    BY <1>3, <1>5
  <2> QED  BY <1>1, <2>1
<1>6. ASSUME c = v, graphMap[a] = s PROVE {a, c} \in Star(v, In(v, s))
  <2>1. a \in In(v, s) /\ {a, c} = {a, v}
    BY <1>3, <1>6
  <2> QED  BY <1>1, <2>1
<1>7. ASSUME {a, c} \in Star(v, In(v, s))
      PROVE  (a = v /\ graphMap[c] = s) \/ (c = v /\ graphMap[a] = s)
  <2>1. PICK u \in In(v, s) : {a, c} = {u, v}
    BY <1>1, <1>7
  <2>2. graphMap[u] = s
    BY <1>3, <1>4
  <2> QED  BY <1>2, <2>1, <2>2
<1> QED  BY <1>5, <1>6, <1>7

\* Which pairs are between shards after the move: no longer those with neighbours in
\* the new shard, and now those with neighbours in the old one.
LEMMA MoveCrossing ==
  ASSUME NEW v, NEW old, NEW new, Moves(v, old, new)
  PROVE  /\ Crossing' \cup Star(v, In(v, new)) = Crossing \cup Star(v, In(v, old))
         /\ Crossing' \cap Star(v, In(v, new)) = {}
         /\ Crossing \cap Star(v, In(v, old)) = {}
<1>0. /\ v \in Accounts /\ new # old /\ graphMap[v] = old /\ graphMap'[v] = new
      /\ \A u \in Accounts : u # v => graphMap'[u] = graphMap[u]
  BY DEF Moves, GraphOK
<1>1. \A e : e \in Pairs <=> \E a, c \in Accounts : a # c /\ e = {a, c}
  BY PairsAre
<1>2. \A a, c \in Accounts : a # c =>
        /\ {a, c} \in Crossing <=> graphMap[a] # graphMap[c]
        /\ {a, c} \in Crossing' <=> graphMap'[a] # graphMap'[c]
  BY PairsAre DEF Crossing, Pairs
<1>3. /\ Crossing \subseteq Pairs /\ Crossing' \subseteq Pairs
      /\ Star(v, In(v, old)) \subseteq Pairs /\ Star(v, In(v, new)) \subseteq Pairs
  <2>1. Crossing \subseteq Pairs /\ Crossing' \subseteq Pairs
    BY DEF Crossing, Pairs
  <2>2. \A s : Star(v, In(v, s)) \subseteq Pairs
    BY <1>0, PairsAre DEF Star, In
  <2> QED  BY <2>1, <2>2
<1>4. ASSUME NEW a \in Accounts, NEW c \in Accounts, a # c
      PROVE  /\ ({a, c} \in Crossing' \/ {a, c} \in Star(v, In(v, new)))
                  <=> ({a, c} \in Crossing \/ {a, c} \in Star(v, In(v, old)))
             /\ ~({a, c} \in Crossing' /\ {a, c} \in Star(v, In(v, new)))
             /\ ~({a, c} \in Crossing /\ {a, c} \in Star(v, In(v, old)))
  <2>1. /\ {a, c} \in Crossing <=> graphMap[a] # graphMap[c]
        /\ {a, c} \in Crossing' <=> graphMap'[a] # graphMap'[c]
    BY <1>2, <1>4
  <2>2. {a, c} \in Star(v, In(v, new)) <=>
          (a = v /\ graphMap[c] = new) \/ (c = v /\ graphMap[a] = new)
    BY <1>0, <1>4, StarIn
  <2>3. {a, c} \in Star(v, In(v, old)) <=>
          (a = v /\ graphMap[c] = old) \/ (c = v /\ graphMap[a] = old)
    BY <1>0, <1>4, StarIn
  <2>4. CASE a = v
    BY <1>0, <1>4, <2>1, <2>2, <2>3, <2>4
  <2>5. CASE c = v
    BY <1>0, <1>4, <2>1, <2>2, <2>3, <2>5
  <2>6. CASE a # v /\ c # v
    BY <1>0, <1>4, <2>1, <2>2, <2>3, <2>6
  <2> QED  BY <2>4, <2>5, <2>6
<1>5. \A e : /\ (e \in Crossing' \/ e \in Star(v, In(v, new)))
                  <=> (e \in Crossing \/ e \in Star(v, In(v, old)))
             /\ ~(e \in Crossing' /\ e \in Star(v, In(v, new)))
             /\ ~(e \in Crossing /\ e \in Star(v, In(v, old)))
  <2>1. SUFFICES ASSUME NEW e
                 PROVE  /\ (e \in Crossing' \/ e \in Star(v, In(v, new)))
                             <=> (e \in Crossing \/ e \in Star(v, In(v, old)))
                        /\ ~(e \in Crossing' /\ e \in Star(v, In(v, new)))
                        /\ ~(e \in Crossing /\ e \in Star(v, In(v, old)))
    OBVIOUS
  <2>2. CASE e \in Pairs
    <3>1. PICK a \in Accounts, c \in Accounts : a # c /\ e = {a, c}
      BY <1>1, <2>2
    <3> QED  BY <1>4, <3>1
  <2>3. CASE e \notin Pairs
    BY <1>3, <2>3
  <2> QED  BY <2>2, <2>3
<1> QED  BY <1>5

\* What counting afresh gives after the move: what changeShardRecompute computes.
LEMMA MoveCounts ==
  ASSUME NEW v, NEW old, NEW new, Moves(v, old, new)
  PROVE  /\ SumFunctionOnSet(EdgeSet, Touching(new)')
              = SumFunctionOnSet(EdgeSet, Touching(new)) + (Degree(v) - EdgesTo(v, new))
         /\ SumFunctionOnSet(EdgeSet, Touching(old)')
              = SumFunctionOnSet(EdgeSet, Touching(old)) - (Degree(v) - EdgesTo(v, old))
         /\ SumFunctionOnSet(EdgeSet, Crossing')
              = SumFunctionOnSet(EdgeSet, Crossing) + EdgesTo(v, old) - EdgesTo(v, new)
         /\ EdgesTo(v, old) \in Nat /\ EdgesTo(v, new) \in Nat /\ Degree(v) \in Nat
<1>0. GraphOK /\ v \in Accounts
  BY DEF Moves
<1>1. PICK A, B, AA, BB, C, CC :
        /\ A = Touching(new) /\ AA = Touching(new)' /\ B = Touching(old) /\ BB = Touching(old)'
        /\ C = Crossing /\ CC = Crossing'
  OBVIOUS
<1>2. PICK P, Q, I, J : /\ P = Star(v, Out(v, new)) /\ Q = Star(v, Out(v, old))
                        /\ I = Star(v, In(v, new)) /\ J = Star(v, In(v, old))
  OBVIOUS
<1>3. /\ A \in SUBSET Pairs /\ AA \in SUBSET Pairs /\ B \in SUBSET Pairs /\ BB \in SUBSET Pairs
      /\ C \in SUBSET Pairs /\ CC \in SUBSET Pairs
  BY <1>1 DEF Touching, Crossing, Pairs
<1>4. P \in SUBSET Pairs /\ Q \in SUBSET Pairs /\ I \in SUBSET Pairs /\ J \in SUBSET Pairs
  <2>1. \A s : Out(v, s) \in SUBSET Accounts /\ In(v, s) \in SUBSET Accounts /\ v \notin Out(v, s) /\ v \notin In(v, s)
    BY DEF Out, In
  <2> QED  BY <1>0, <1>2, <2>1, StarSum
<1>5. PICK f : f = EdgeSet
  OBVIOUS
<1>6. /\ SumFunctionOnSet(f, P) = Degree(v) - EdgesTo(v, new)
      /\ SumFunctionOnSet(f, Q) = Degree(v) - EdgesTo(v, old)
      /\ SumFunctionOnSet(f, I) = EdgesTo(v, new) /\ SumFunctionOnSet(f, J) = EdgesTo(v, old)
      /\ EdgesTo(v, old) \in Nat /\ EdgesTo(v, new) \in Nat /\ Degree(v) \in Nat
  BY <1>0, <1>2, <1>5, EdgesToIs
<1>7. /\ AA = A \cup P /\ A \cap P = {} /\ B = BB \cup Q /\ BB \cap Q = {}
      /\ CC \cup I = C \cup J /\ CC \cap I = {} /\ C \cap J = {}
  BY <1>1, <1>2, MoveTouching, MoveCrossing
<1>8. /\ SumFunctionOnSet(f, A \cup P) = SumFunctionOnSet(f, A) + SumFunctionOnSet(f, P)
      /\ SumFunctionOnSet(f, A) \in Nat
  BY <1>0, <1>3, <1>4, <1>5, <1>7, PairSums
<1>9. /\ SumFunctionOnSet(f, BB \cup Q) = SumFunctionOnSet(f, BB) + SumFunctionOnSet(f, Q)
      /\ SumFunctionOnSet(f, BB) \in Nat
  BY <1>0, <1>3, <1>4, <1>5, <1>7, PairSums
<1>10. /\ SumFunctionOnSet(f, CC \cup I) = SumFunctionOnSet(f, CC) + SumFunctionOnSet(f, I)
       /\ SumFunctionOnSet(f, CC) \in Nat
  BY <1>0, <1>3, <1>4, <1>5, <1>7, PairSums
<1>11. /\ SumFunctionOnSet(f, C \cup J) = SumFunctionOnSet(f, C) + SumFunctionOnSet(f, J)
       /\ SumFunctionOnSet(f, C) \in Nat
  BY <1>0, <1>3, <1>4, <1>5, <1>7, PairSums
<1>12. SumFunctionOnSet(f, AA) = SumFunctionOnSet(f, A) + (Degree(v) - EdgesTo(v, new))
  BY <1>6, <1>7, <1>8
<1>13. SumFunctionOnSet(f, BB) = SumFunctionOnSet(f, B) - (Degree(v) - EdgesTo(v, old))
  BY <1>6, <1>7, <1>9
<1>14. SumFunctionOnSet(f, CC) = SumFunctionOnSet(f, C) + EdgesTo(v, old) - EdgesTo(v, new)
  <2>1. SumFunctionOnSet(f, CC) + EdgesTo(v, new) = SumFunctionOnSet(f, C) + EdgesTo(v, old)
    BY <1>6, <1>7, <1>10, <1>11
  <2> QED  BY <1>6, <1>10, <1>11, <2>1
<1> QED  BY <1>1, <1>5, <1>6, <1>12, <1>13, <1>14

-----------------------------------------------------------------------------
(***************************************************************************)
(* Counting afresh.                                                        *)
(***************************************************************************)

\* The edges as they are seen from their ends: each pair in both orders.
Ordered(D) == {p \in Accounts \X Accounts : {p[1], p[2]} \in D}

\* Ends counts edges.
LEMMA EndsType ==
  ASSUME GraphOK
  PROVE  /\ DOMAIN Ends = Accounts \X Accounts /\ IsFiniteSet(Accounts \X Accounts)
         /\ \A a, c \in Accounts : Ends[<<a, c>>] = Edges(a, c) /\ Ends[<<a, c>>] \in Nat
<1>1. DOMAIN Ends = Accounts \X Accounts /\ \A a, c \in Accounts : Ends[<<a, c>>] = Edges(a, c)
  BY DEF Ends
<1>2. \A a, c \in Accounts : Edges(a, c) \in Nat
  BY PairsAre DEF Edges, GraphOK
<1>3. IsFiniteSet(Accounts \X Accounts)
  BY ShardingAssumption, FS_Product
<1> QED  BY <1>1, <1>2, <1>3

\* Every edge is counted at both its ends.
LEMMA Doubled ==
  ASSUME GraphOK, NEW D \in SUBSET Pairs
  PROVE  SumFunctionOnSet(Ends, Ordered(D)) = 2 * SumFunctionOnSet(EdgeSet, D)
<1>1. PICK one : one = [e \in D |-> CHOOSE x \in e : TRUE]
  OBVIOUS
<1>2. PICK two : two = [e \in D |-> CHOOSE x \in e : x # one[e]]
  OBVIOUS
<1>3. ASSUME NEW e \in D
      PROVE  one[e] \in Accounts /\ two[e] \in Accounts /\ one[e] # two[e] /\ e = {one[e], two[e]}
  <2>1. PICK u \in Accounts, w \in Accounts : u # w /\ e = {u, w}
    BY PairsAre
  <2>2. one[e] \in e
    <3>1. one[e] = CHOOSE x \in e : TRUE
      BY <1>1
    <3> QED  BY <2>1, <3>1
  <2>3. two[e] \in e /\ two[e] # one[e]
    <3>1. two[e] = CHOOSE x \in e : x # one[e]
      BY <1>2
    <3>2. \E x \in e : x # one[e]
      BY <2>1
    <3> QED  BY <3>1, <3>2
  <2> QED  BY <2>1, <2>2, <2>3
<1>0. ASSUME NEW i \in D, NEW j \in D,
             (one[i] = one[j] /\ two[i] = two[j]) \/ (one[i] = two[j] /\ two[i] = one[j])
      PROVE  i = j
  <2>1. PICK a, c : a = one[i] /\ c = two[i]
    OBVIOUS
  <2>2. PICK b, d : b = one[j] /\ d = two[j]
    OBVIOUS
  <2>3. i = {a, c} /\ j = {b, d}
    BY <1>3, <2>1, <2>2
  <2>4. (a = b /\ c = d) \/ (a = d /\ c = b)
    BY <1>0, <2>1, <2>2
  <2>5. {a, c} = {b, d}
    BY <2>4
  <2> QED  BY <2>3, <2>5
<1>4. PICK h, k : h = [e \in D |-> <<one[e], two[e]>>] /\ k = [e \in D |-> <<two[e], one[e]>>]
  OBVIOUS
<1>5. \A e \in D : /\ h[e] = <<one[e], two[e]>> /\ h[e][1] = one[e] /\ h[e][2] = two[e]
                   /\ k[e] = <<two[e], one[e]>> /\ k[e][1] = two[e] /\ k[e][2] = one[e]
  BY <1>4
<1>6. PICK f, g : f = Ends /\ g = EdgeSet
  OBVIOUS
<1>7. ASSUME NEW e \in D PROVE g[e] \in Nat /\ f[h[e]] = g[e] /\ f[k[e]] = g[e]
  <2>1. PICK a \in Accounts, c \in Accounts : a = one[e] /\ c = two[e] /\ a # c /\ e = {a, c}
    BY <1>3
  <2>2. f[<<a, c>>] = Edges(a, c) /\ f[<<c, a>>] = Edges(c, a)
    BY <1>6, EndsType
  <2>3. Edges(a, c) = EdgeSet[{a, c}] /\ Edges(c, a) = EdgeSet[{c, a}] /\ {c, a} = {a, c}
    BY <2>1 DEF Edges
  <2>4. g[e] \in Nat
    BY <1>6 DEF GraphOK
  <2> QED  BY <1>5, <1>6, <2>1, <2>2, <2>3, <2>4
<1>8. IsFiniteSet(D)
  BY PairsAre, FS_Subset
<1>9. PICK H, K : H = {h[e] : e \in D} /\ K = {k[e] : e \in D}
  OBVIOUS
<1>10. IsFiniteSet(H) /\ SumFunctionOnSet(f, H) = SumFunctionOnSet(g, D)
  <2>1. \A i, j \in D : h[i] = h[j] => i = j
    <3>1. SUFFICES ASSUME NEW i \in D, NEW j \in D, h[i] = h[j] PROVE i = j
      OBVIOUS
    <3>2. one[i] = one[j] /\ two[i] = two[j]
      BY <1>5, <3>1
    <3> QED  BY <1>0, <3>2
  <2>2. \A e \in D : f[h[e]] \in Int /\ g[e] = f[h[e]]
    BY <1>7
  <2> QED  BY <1>8, <1>9, <2>1, <2>2, SumReindex
<1>11. IsFiniteSet(K) /\ SumFunctionOnSet(f, K) = SumFunctionOnSet(g, D)
  <2>1. \A i, j \in D : k[i] = k[j] => i = j
    <3>1. SUFFICES ASSUME NEW i \in D, NEW j \in D, k[i] = k[j] PROVE i = j
      OBVIOUS
    <3>2. one[i] = one[j] /\ two[i] = two[j]
      BY <1>5, <3>1
    <3> QED  BY <1>0, <3>2
  <2>2. \A e \in D : f[k[e]] \in Int /\ g[e] = f[k[e]]
    BY <1>7
  <2> QED  BY <1>8, <1>9, <2>1, <2>2, SumReindex
<1>12. H \cap K = {}
  <2>1. ASSUME NEW i \in D, NEW j \in D, h[i] = k[j] PROVE FALSE
    <3>1. one[i] = two[j] /\ two[i] = one[j]
      BY <1>5, <2>1
    <3>2. i = j
      BY <1>0, <3>1
    <3>3. one[i] = two[i]
      BY <3>1, <3>2
    <3> QED  BY <1>3, <3>3
  <2> QED  BY <1>9, <2>1
<1>13. H \cup K = Ordered(D)
  <2>1. ASSUME NEW e \in D PROVE h[e] \in Ordered(D) /\ k[e] \in Ordered(D)
    <3>1. PICK a \in Accounts, c \in Accounts : a = one[e] /\ c = two[e] /\ e = {a, c}
      BY <1>3
    <3>2. <<a, c>> \in Accounts \X Accounts /\ <<c, a>> \in Accounts \X Accounts /\ {c, a} = {a, c}
      OBVIOUS
    <3>3. <<a, c>> \in Ordered(D) /\ <<c, a>> \in Ordered(D)
      BY <3>1, <3>2 DEF Ordered
    <3> QED  BY <1>5, <3>1, <3>3
  <2>2. ASSUME NEW p \in Ordered(D) PROVE p \in H \/ p \in K
    <3>1. PICK a \in Accounts, c \in Accounts : p = <<a, c>> /\ {a, c} \in D
      BY DEF Ordered
    <3>2. PICK e \in D : e = {a, c}
      BY <3>1
    <3>3. (one[e] = a /\ two[e] = c) \/ (one[e] = c /\ two[e] = a)
      BY <1>3, <3>2
    <3>4. p = h[e] \/ p = k[e]
      BY <1>5, <3>1, <3>3
    <3> QED  BY <1>9, <3>4
  <2> QED  BY <1>9, <2>1, <2>2
<1>14. SumFunctionOnSet(f, H \cup K) = SumFunctionOnSet(f, H) + SumFunctionOnSet(f, K)
  <2>1. \A p \in H \cup K : f[p] \in Int
    BY <1>7, <1>9
  <2> QED  BY <1>10, <1>11, <1>12, <2>1, SumUnion
<1>15. SumFunctionOnSet(g, D) \in Nat
  BY <1>7, <1>8, SumNatural
<1>16. SumFunctionOnSet(f, H \cup K) = 2 * SumFunctionOnSet(g, D)
  BY <1>10, <1>11, <1>14, <1>15
<1> QED  BY <1>6, <1>13, <1>16

\* The pairs with one end in shard s, and with both.
Half(s) == {e \in Pairs : (\E u \in e : graphMap[u] = s) /\ \E w \in e : graphMap[w] # s}
Inside(s) == {e \in Pairs : \A u \in e : graphMap[u] = s}

\* The cross edges of a shard.
LEMMA CrossEndsIs ==
  ASSUME GraphOK, NEW s \in Shards
  PROVE  CrossEnds[s] = SumFunctionOnSet(EdgeSet, Half(s))
<1>1. PICK S, f, g, h : /\ S = CrossPairs(s) /\ f = EdgeSet /\ g = Ends
                        /\ h = [p \in S |-> {p[1], p[2]}]
  OBVIOUS
<1>2. \A p : p \in S <=> \E a, c \in Accounts : p = <<a, c>> /\ graphMap[a] # s /\ graphMap[c] = s
  BY <1>1, EndsType DEF CrossPairs
<1>3. IsFiniteSet(S)
  <2>1. S \in SUBSET (Accounts \X Accounts)
    BY <1>2
  <2> QED  BY <2>1, EndsType, FS_Subset
<1>4. \A a, c \in Accounts : <<a, c>> \in S => h[<<a, c>>] = {a, c}
  BY <1>1
<1>5. \A i, j \in S : h[i] = h[j] => i = j
  <2>1. SUFFICES ASSUME NEW i \in S, NEW j \in S, h[i] = h[j] PROVE i = j
    OBVIOUS
  <2>2. PICK a \in Accounts, c \in Accounts : i = <<a, c>> /\ graphMap[a] # s /\ graphMap[c] = s
    BY <1>2
  <2>3. PICK b \in Accounts, d \in Accounts : j = <<b, d>> /\ graphMap[b] # s /\ graphMap[d] = s
    BY <1>2
  <2>4. {a, c} = {b, d}
    BY <1>4, <2>1, <2>2, <2>3
  <2>5. a = b /\ c = d
    BY <2>2, <2>3, <2>4
  <2> QED  BY <2>2, <2>3, <2>5
<1>6. \A p \in S : f[h[p]] \in Int /\ g[p] = f[h[p]]
  <2>1. SUFFICES ASSUME NEW p \in S PROVE f[h[p]] \in Int /\ g[p] = f[h[p]]
    OBVIOUS
  <2>2. PICK a \in Accounts, c \in Accounts : p = <<a, c>> /\ graphMap[a] # s /\ graphMap[c] = s
    BY <1>2
  <2>3. a # c /\ h[p] = {a, c}
    BY <1>4, <2>2
  <2>4. g[p] = EdgeSet[{a, c}] /\ g[p] \in Int
    BY <1>1, <2>2, <2>3, EndsType DEF Edges
  <2> QED  BY <1>1, <2>3, <2>4
<1>7. SumFunctionOnSet(f, {h[p] : p \in S}) = SumFunctionOnSet(g, S)
  BY <1>3, <1>5, <1>6, SumReindex
<1>8. {h[p] : p \in S} = Half(s)
  <2>1. ASSUME NEW p \in S PROVE h[p] \in Half(s)
    <3>1. PICK a \in Accounts, c \in Accounts : p = <<a, c>> /\ graphMap[a] # s /\ graphMap[c] = s
      BY <1>2
    <3>2. PICK e : e = {a, c}
      OBVIOUS
    <3>3. e \in Pairs /\ a \in e /\ c \in e
      BY <3>1, <3>2, PairsAre
    <3>4. e \in Half(s)
      BY <3>1, <3>3 DEF Half
    <3> QED  BY <1>4, <3>1, <3>2, <3>4
  <2>2. ASSUME NEW e \in Half(s) PROVE \E p \in S : e = h[p]
    <3>1. PICK a \in Accounts, c \in Accounts : e = {a, c} /\ graphMap[a] # s /\ graphMap[c] = s
      <4>1. PICK u \in Accounts, w \in Accounts : u # w /\ e = {u, w}
        BY PairsAre DEF Half
      <4>2. (graphMap[u] = s /\ graphMap[w] # s) \/ (graphMap[w] = s /\ graphMap[u] # s)
        BY <4>1 DEF Half
      <4>3. {u, w} = {w, u}
        OBVIOUS
      <4> QED  BY <4>1, <4>2, <4>3
    <3>2. PICK p : p = <<a, c>>
      OBVIOUS
    <3>3. p \in S /\ h[p] = {a, c}
      BY <1>2, <1>4, <3>1, <3>2
    <3> QED  BY <3>1, <3>3
  <2> QED  BY <2>1, <2>2
<1>9. CrossEnds[s] = SumFunctionOnSet(g, S)
  BY <1>1 DEF CrossEnds
<1> QED  BY <1>1, <1>7, <1>8, <1>9

\* The inner edges of a shard: no account is its own neighbour.
LEMMA InterEndsIs ==
  ASSUME GraphOK, NEW s \in Shards
  PROVE  InterEnds[s] = 2 * SumFunctionOnSet(EdgeSet, Inside(s))
<1>1. PICK S, D, f : S = InterPairs(s) /\ D = Ordered(Inside(s)) /\ f = Ends
  OBVIOUS
<1>2. \A p : p \in S <=> \E a, c \in Accounts : p = <<a, c>> /\ graphMap[a] = s /\ graphMap[c] = s
  BY <1>1, EndsType DEF InterPairs
<1>3. IsFiniteSet(S)
  <2>1. S \in SUBSET (Accounts \X Accounts)
    BY <1>2
  <2> QED  BY <2>1, EndsType, FS_Subset
<1>4. ASSUME NEW a \in Accounts, NEW c \in Accounts
      PROVE  <<a, c>> \in D <=> a # c /\ graphMap[a] = s /\ graphMap[c] = s
  <2>1. PICK e : e = {a, c}
    OBVIOUS
  <2>2. <<a, c>> \in D <=> e \in Inside(s)
    BY <1>1, <2>1 DEF Ordered
  <2>3. e \in Pairs <=> a # c
    <3>1. a # c => e \in Pairs
      BY <2>1, PairsAre
    <3>2. e \in Pairs => a # c
      <4>1. SUFFICES ASSUME e \in Pairs PROVE a # c
        OBVIOUS
      <4>2. PICK u \in Accounts, w \in Accounts : u # w /\ e = {u, w}
        BY <4>1, PairsAre
      <4> QED  BY <2>1, <4>2
    <3> QED  BY <3>1, <3>2
  <2>4. e \in Inside(s) <=> e \in Pairs /\ graphMap[a] = s /\ graphMap[c] = s
    BY <2>1 DEF Inside
  <2> QED  BY <2>2, <2>3, <2>4
<1>5. \A p \in D : \E a, c \in Accounts : p = <<a, c>>
  BY <1>1 DEF Ordered
<1>6. D \in SUBSET S
  <2>1. ASSUME NEW p \in D PROVE p \in S
    <3>1. PICK a \in Accounts, c \in Accounts : p = <<a, c>>
      BY <1>5
    <3> QED  BY <1>2, <1>4, <3>1
  <2> QED  BY <2>1
<1>7. \A p \in D : f[p] \in Int
  <2>1. ASSUME NEW p \in D PROVE f[p] \in Int
    <3>1. PICK a \in Accounts, c \in Accounts : p = <<a, c>>
      BY <1>5
    <3> QED  BY <1>1, <3>1, EndsType
  <2> QED  BY <2>1
<1>8. \A p \in S \ D : f[p] = 0
  <2>1. ASSUME NEW p \in S, p \notin D PROVE f[p] = 0
    <3>1. PICK a \in Accounts, c \in Accounts : p = <<a, c>> /\ graphMap[a] = s /\ graphMap[c] = s
      BY <1>2
    <3>2. a = c
      BY <1>4, <2>1, <3>1
    <3>3. Edges(a, c) = 0
      BY <3>2 DEF Edges
    <3> QED  BY <1>1, <3>1, <3>3, EndsType
  <2> QED  BY <2>1
<1>9. SumFunctionOnSet(f, S) = SumFunctionOnSet(f, D)
  BY <1>3, <1>6, <1>7, <1>8, SumWhere
<1>10. SumFunctionOnSet(Ends, Ordered(Inside(s))) = 2 * SumFunctionOnSet(EdgeSet, Inside(s))
  <2>1. Inside(s) \in SUBSET Pairs
    BY DEF Inside
  <2> QED  BY <2>1, Doubled
<1>11. InterEnds[s] = SumFunctionOnSet(f, S)
  BY <1>1 DEF InterEnds
<1> QED  BY <1>1, <1>9, <1>10, <1>11

\* A pair that touches a shard has one end in it or both.
LEMMA TouchingIs ==
  ASSUME GraphOK, NEW s \in Shards
  PROVE  /\ SumFunctionOnSet(EdgeSet, Touching(s)) =
              SumFunctionOnSet(EdgeSet, Half(s)) + SumFunctionOnSet(EdgeSet, Inside(s))
         /\ SumFunctionOnSet(EdgeSet, Half(s)) \in Nat /\ SumFunctionOnSet(EdgeSet, Inside(s)) \in Nat
<1>1. Half(s) \in SUBSET Pairs /\ Inside(s) \in SUBSET Pairs /\ Half(s) \cap Inside(s) = {}
  BY DEF Half, Inside
<1>2. Half(s) \cup Inside(s) = Touching(s)
  <2>1. \A e \in Pairs : \E u \in e : TRUE
    BY PairsAre
  <2> QED  BY <2>1 DEF Half, Inside, Touching
<1>3. Inside(s) \cap Half(s) = {}
  BY <1>1
<1>4. SumFunctionOnSet(EdgeSet, Half(s) \cup Inside(s)) =
        SumFunctionOnSet(EdgeSet, Half(s)) + SumFunctionOnSet(EdgeSet, Inside(s))
  BY <1>1, PairSums
<1>5. SumFunctionOnSet(EdgeSet, Half(s)) \in Nat /\ SumFunctionOnSet(EdgeSet, Inside(s)) \in Nat
  BY <1>1, <1>3, PairSums
<1> QED  BY <1>2, <1>4, <1>5

\* Over all shards every edge between shards is counted twice.
LEMMA AllCrossEnds ==
  ASSUME GraphOK
  PROVE  /\ SumFunctionOnSet(CrossEnds, Shards) = 2 * SumFunctionOnSet(EdgeSet, Crossing)
         /\ SumFunctionOnSet(EdgeSet, Crossing) \in Nat
<1>1. PICK S, g, f, h, R : /\ S = Ordered(Crossing) /\ g = [p \in S |-> graphMap[p[2]]]
                           /\ f = Ends /\ h = CrossEnds /\ R = Shards
  OBVIOUS
<1>2. Crossing \in SUBSET Pairs
  BY DEF Crossing
<1>3. ASSUME NEW a \in Accounts, NEW c \in Accounts
      PROVE  <<a, c>> \in S <=> graphMap[a] # graphMap[c]
  <2>1. PICK e : e = {a, c}
    OBVIOUS
  <2>2. <<a, c>> \in S <=> e \in Crossing
    BY <1>1, <2>1 DEF Ordered
  <2>3. e \in Crossing => graphMap[a] # graphMap[c]
    BY <2>1 DEF Crossing
  <2>4. graphMap[a] # graphMap[c] => e \in Pairs
    BY <2>1, PairsAre
  <2>5. graphMap[a] # graphMap[c] => e \in Crossing
    BY <2>1, <2>4 DEF Crossing
  <2> QED  BY <2>2, <2>3, <2>5
<1>4. \A p \in S : \E a, c \in Accounts : p = <<a, c>>
  BY <1>1 DEF Ordered
<1>5. IsFiniteSet(S) /\ IsFiniteSet(R)
  <2>1. S \in SUBSET (Accounts \X Accounts)
    BY <1>4
  <2> QED  BY <1>1, <2>1, EndsType, FS_Subset, ShardingAssumption
<1>6. \A a, c \in Accounts : <<a, c>> \in S => g[<<a, c>>] = graphMap[c]
  BY <1>1
<1>7. \A p \in S : g[p] \in R
  BY <1>1, <1>4, <1>6 DEF GraphOK
<1>8. \A p \in S : f[p] \in Int
  BY <1>1, <1>4, EndsType
<1>9. \A s \in R : h[s] = SumFunctionOnSet(f, Fibre(S, g, s))
  <2>1. SUFFICES ASSUME NEW s \in Shards PROVE h[s] = SumFunctionOnSet(f, Fibre(S, g, s))
    BY <1>1
  <2>2. ASSUME NEW p \in Fibre(S, g, s) PROVE p \in CrossPairs(s)
    <3>1. p \in S /\ g[p] = s
      BY DEF Fibre
    <3>2. PICK a \in Accounts, c \in Accounts : p = <<a, c>>
      BY <1>4, <3>1
    <3>3. graphMap[a] # s /\ graphMap[c] = s
      BY <1>3, <1>6, <3>1, <3>2
    <3> QED  BY <3>2, <3>3, EndsType DEF CrossPairs
  <2>3. ASSUME NEW p \in CrossPairs(s) PROVE p \in Fibre(S, g, s)
    <3>1. PICK a \in Accounts, c \in Accounts : p = <<a, c>> /\ graphMap[a] # s /\ graphMap[c] = s
      BY EndsType DEF CrossPairs
    <3>2. p \in S /\ g[p] = s
      BY <1>3, <1>6, <3>1
    <3> QED  BY <3>2 DEF Fibre
  <2>4. Fibre(S, g, s) = CrossPairs(s)
    BY <2>2, <2>3
  <2> QED  BY <1>1, <2>4 DEF CrossEnds
<1>10. SumFunctionOnSet(h, R) = SumFunctionOnSet(f, S)
  BY <1>5, <1>7, <1>8, <1>9, SumFibres
<1>11. SumFunctionOnSet(Ends, Ordered(Crossing)) = 2 * SumFunctionOnSet(EdgeSet, Crossing)
  BY <1>2, Doubled
<1>12. SumFunctionOnSet(EdgeSet, Crossing) \in Nat
  <2>1. {} \in SUBSET Pairs /\ Crossing \cap {} = {}
    OBVIOUS
  <2> QED  BY <1>2, <2>1, PairSums
<1> QED  BY <1>1, <1>10, <1>11, <1>12

-----------------------------------------------------------------------------
\* What counting afresh gives for the edges.
Counted ==
  /\ Edges2Shard \in [Shards -> Nat]
  /\ \A s \in Shards : Edges2Shard[s] = SumFunctionOnSet(EdgeSet, Touching(s))
  /\ CrossShardEdgeNum = SumFunctionOnSet(EdgeSet, Crossing)
  /\ MinEdges2Shard = Min(Range(Edges2Shard))

\* ComputeEdges2Shard, which counts the ends of edges, counts the edges.
LEMMA ComputeCounts ==
  ASSUME GraphOK, ComputeEdges2Shard, UNCHANGED <<EdgeSet, graphMap>>
  PROVE  Counted'
<1>1. /\ Edges2Shard' = [s \in Shards |-> CrossEnds[s] + InterEnds[s] \div 2]
      /\ CrossShardEdgeNum' = SumFunctionOnSet(CrossEnds, Shards) \div 2
      /\ MinEdges2Shard' = Min(Range(Edges2Shard'))
  BY DEF ComputeEdges2Shard
<1>2. \A n \in Nat : (2 * n) \div 2 = n
  OBVIOUS
<1>3. ASSUME NEW s \in Shards
      PROVE  /\ CrossEnds[s] + InterEnds[s] \div 2 = SumFunctionOnSet(EdgeSet, Touching(s))
             /\ SumFunctionOnSet(EdgeSet, Touching(s)) \in Nat
  <2>1. PICK t, x, y : /\ t = SumFunctionOnSet(EdgeSet, Touching(s))
                       /\ x = SumFunctionOnSet(EdgeSet, Half(s))
                       /\ y = SumFunctionOnSet(EdgeSet, Inside(s))
    OBVIOUS
  <2>2. t = x + y /\ x \in Nat /\ y \in Nat
    BY <2>1, TouchingIs
  <2>3. CrossEnds[s] = x /\ InterEnds[s] = 2 * y
    BY <2>1, CrossEndsIs, InterEndsIs
  <2>4. (2 * y) \div 2 = y
    BY <1>2, <2>2
  <2> QED  BY <2>1, <2>2, <2>3, <2>4
<1>4. \A s \in Shards : Edges2Shard'[s] = SumFunctionOnSet(EdgeSet, Touching(s)) /\ Edges2Shard'[s] \in Nat
  BY <1>1, <1>3
<1>5. Edges2Shard' \in [Shards -> Nat]
  BY <1>1, <1>4
<1>6. CrossShardEdgeNum' = SumFunctionOnSet(EdgeSet, Crossing)
  <2>1. PICK n \in Nat : n = SumFunctionOnSet(EdgeSet, Crossing)
    BY AllCrossEnds
  <2>2. SumFunctionOnSet(CrossEnds, Shards) = 2 * n
    BY <2>1, AllCrossEnds
  <2> QED  BY <1>1, <1>2, <2>1, <2>2
<1>7. Crossing' = Crossing /\ \A s \in Shards : Touching(s)' = Touching(s)
  BY DEF Crossing, Touching
<1>8. \A s \in Shards : Edges2Shard'[s] = SumFunctionOnSet(EdgeSet', Touching(s)')
  BY <1>4, <1>7
<1>9. CrossShardEdgeNum' = SumFunctionOnSet(EdgeSet', Crossing')
  BY <1>6, <1>7
<1> QED  BY <1>1, <1>5, <1>8, <1>9 DEF Counted

\* changeShardRecompute arrives at the same numbers from those before the move.
LEMMA RecomputeCounts ==
  ASSUME NEW v, NEW old \in Shards, NEW new \in Shards, Moves(v, old, new), Counted,
         changeShardRecompute(v, old, new), EdgeSet' = EdgeSet
  PROVE  Counted'
<1>1. PICK to, at, deg : to = EdgesTo(v, new) /\ at = EdgesTo(v, old) /\ deg = Degree(v)
  OBVIOUS
<1>2. to \in Nat /\ at \in Nat /\ deg \in Nat /\ old # new
  BY <1>1, MoveCounts DEF Moves
<1>3. /\ Edges2Shard' = [Edges2Shard EXCEPT ![new] = @ + (deg - at - to) + at,
                                            ![old] = @ - (deg - at - to) - to]
      /\ CrossShardEdgeNum' = CrossShardEdgeNum + at - to
      /\ MinEdges2Shard' = Min(Range(Edges2Shard'))
  BY <1>1 DEF changeShardRecompute
<1>4. /\ DOMAIN Edges2Shard' = Shards
      /\ Edges2Shard'[new] = Edges2Shard[new] + (deg - to)
      /\ Edges2Shard'[old] = Edges2Shard[old] - (deg - at)
      /\ \A s \in Shards : s # old /\ s # new => Edges2Shard'[s] = Edges2Shard[s]
      /\ Edges2Shard' = [s \in Shards |-> Edges2Shard'[s]]
  <2>1. PICK e : e = Edges2Shard /\ e \in [Shards -> Nat]
    BY DEF Counted
  <2>2. PICK x, y : x = e[new] + (deg - at - to) + at /\ y = e[old] - (deg - at - to) - to
    OBVIOUS
  <2>3. Edges2Shard' = [[e EXCEPT ![new] = x] EXCEPT ![old] = y]
    BY <1>2, <1>3, <2>1, <2>2
  <2>4. x = e[new] + (deg - to) /\ y = e[old] - (deg - at)
    BY <1>2, <2>1, <2>2
  <2> QED  BY <1>2, <2>1, <2>3, <2>4
<1>5. /\ SumFunctionOnSet(EdgeSet, Touching(new)')
           = SumFunctionOnSet(EdgeSet, Touching(new)) + (deg - to)
      /\ SumFunctionOnSet(EdgeSet, Touching(old)')
           = SumFunctionOnSet(EdgeSet, Touching(old)) - (deg - at)
      /\ SumFunctionOnSet(EdgeSet, Crossing') = SumFunctionOnSet(EdgeSet, Crossing) + at - to
  BY <1>1, MoveCounts
<1>6. \A s : s # old /\ s # new => Touching(s)' = Touching(s)
  BY MoveTouching
<1>7. ASSUME NEW s \in Shards
      PROVE  /\ Edges2Shard'[s] = SumFunctionOnSet(EdgeSet, Touching(s)')
             /\ SumFunctionOnSet(EdgeSet, Touching(s)') \in Nat
  <2>1. Edges2Shard'[s] = SumFunctionOnSet(EdgeSet, Touching(s)')
    <3>1. CASE s = new
      BY <1>4, <1>5, <3>1 DEF Counted
    <3>2. CASE s = old
      BY <1>4, <1>5, <3>2 DEF Counted
    <3>3. CASE s # new /\ s # old
      BY <1>4, <1>6, <3>3 DEF Counted
    <3> QED  BY <3>1, <3>2, <3>3
  <2>2. PICK T : T = Touching(s)'
    OBVIOUS
  <2>3. T \in SUBSET Pairs /\ {} \in SUBSET Pairs /\ T \cap {} = {}
    BY <2>2 DEF Touching
  <2>4. SumFunctionOnSet(EdgeSet, T) \in Nat
    BY <2>3, PairSums DEF Moves
  <2> QED  BY <2>1, <2>2, <2>4
<1>8. Edges2Shard' \in [Shards -> Nat]
  BY <1>4, <1>7
<1>9. \A s \in Shards : Edges2Shard'[s] = SumFunctionOnSet(EdgeSet', Touching(s)')
  BY <1>7
<1>10. CrossShardEdgeNum' = SumFunctionOnSet(EdgeSet', Crossing')
  BY <1>3, <1>5 DEF Counted
<1> QED  BY <1>3, <1>8, <1>9, <1>10 DEF Counted

\* The inductive invariant behind CountersExact.
ExactInv == MapInv /\ CountInv /\ PartitionTypeOK /\ (iter # Building => Counted)

\* The graph of a state with the right types.
LEMMA TypedGraph == PartitionTypeOK => GraphOK
<1>1. \A n \in 0..MaxEdges : n \in Nat
  BY ShardingAssumption
<1> QED  BY <1>1 DEF PartitionTypeOK, GraphOK

\* If the graph and the map stay, so do the counts.
LEMMA CountedKept ==
  ASSUME Counted, UNCHANGED <<EdgeSet, graphMap, counters>>
  PROVE  Counted'
<1>1. Crossing' = Crossing /\ \A s \in Shards : Touching(s)' = Touching(s)
  BY DEF Crossing, Touching
<1> QED  BY <1>1 DEF Counted, counters

\* An edge is added only while the graph is below its bound.
LEMMA EdgeAdded ==
  ASSUME PartitionTypeOK, NEW u \in Accounts, NEW v \in Accounts, AddEdge(u, v)
  PROVE  EdgeSet' \in [Pairs -> 0..MaxEdges]
<1>1. PICK e \in Pairs : e = {u, v}
  BY PairsAre DEF AddEdge
<1>2. PICK f : f = EdgeSet
  OBVIOUS
<1>3. f \in [Pairs -> Nat] /\ f \in [Pairs -> 0..MaxEdges] /\ MaxEdges \in Nat
  BY <1>2, TypedGraph, ClpaPartitionAssumption DEF GraphOK, PartitionTypeOK
<1>4. f[e] <= SumFunctionOnSet(f, Pairs)
  <2>1. IsFiniteSet(Pairs) /\ \A y \in Pairs : f[y] \in Nat
    BY <1>3, PairsAre
  <2> QED  BY <2>1, SumMember
<1>5. SumFunctionOnSet(f, Pairs) \in Nat
  <2>1. IsFiniteSet(Pairs) /\ \A y \in Pairs : f[y] \in Nat
    BY <1>3, PairsAre
  <2> QED  BY <2>1, SumNatural
<1>6. SumFunctionOnSet(f, Pairs) < MaxEdges /\ EdgeSet' = [f EXCEPT ![e] = @ + 1]
  BY <1>1, <1>2 DEF AddEdge
<1>7. f[e] + 1 \in 0..MaxEdges
  BY <1>3, <1>4, <1>5, <1>6
<1> QED  BY <1>3, <1>6, <1>7

\* The numbers of vertices are numbers.
LEMMA CountsTyped == CountInv => VertexsNumInShard \in [Shards -> Nat]
BY VerticesFinite DEF CountInv

\* The first graph has no edges and no counts.
LEMMA InitExact == Init_CLPAState => ExactInv
<1> SUFFICES ASSUME Init_CLPAState PROVE ExactInv
  OBVIOUS
<1>1. MapInv /\ CountInv
  BY InitMap, InitCount
<1>2. DOMAIN Empty = {} /\ Range(Empty) = {}
  BY DEF Empty, Range
<1>3. 0 \in 0..MaxEdges /\ 0 \in 0..UpdateThreshold /\ Building \in Building..MaxIterations
  BY ClpaPartitionAssumption DEF Building
<1>4. PartitionTypeOK
  BY <1>1, <1>2, <1>3, CountsTyped, ShardingAssumption, ClpaPartitionAssumption DEF Init_CLPAState, PartitionTypeOK
<1>5. iter = Building
  BY DEF Init_CLPAState
<1> QED  BY <1>1, <1>4, <1>5 DEF ExactInv

\* The counters stay exact with every step.
LEMMA NextExact == ExactInv /\ [PartitionNext]_partitionVars => ExactInv'
<1> SUFFICES ASSUME ExactInv, [PartitionNext]_partitionVars PROVE ExactInv'
  OBVIOUS
<1>0. MapInv /\ CountInv /\ PartitionTypeOK /\ MapInv' /\ CountInv' /\ GraphOK
  BY NextMapInv, NextCount, TypedGraph DEF ExactInv
<1> SUFFICES PartitionTypeOK' /\ (iter' # Building => Counted')
  BY <1>0 DEF ExactInv
<1>1. VertexsNumInShard' \in [Shards -> Nat]
  <2>1. CountInv' => (VertexsNumInShard \in [Shards -> Nat])'
    BY CountsTyped, PTL
  <2> QED  BY <1>0, <2>1
<1>2. VertexSet' \subseteq Accounts /\ todo' \subseteq VertexSet' /\ graphMap' \in [Accounts -> Shards]
  BY <1>0 DEF CountInv
<1>3. DOMAIN Empty = {} /\ [a \in Accounts |-> 0] \in [Accounts -> 0..UpdateThreshold]
  BY ClpaPartitionAssumption DEF Empty
<1>4. ASSUME NEW u \in Accounts, NEW v \in Accounts, AddEdge(u, v)
      PROVE  PartitionTypeOK' /\ (iter' # Building => Counted')
  <2>1. EdgeSet' \in [Pairs -> 0..MaxEdges]
    BY <1>0, <1>4, EdgeAdded
  <2>2. /\ UNCHANGED <<modifiedMap, res, updateTreshold, iter, Edges2Shard>> /\ iter = Building
        /\ VertexSet \subseteq VertexSet'
    BY <1>4 DEF AddEdge, counters
  <2> QED  BY <1>0, <1>1, <1>2, <2>1, <2>2 DEF PartitionTypeOK
<1>5. CASE CLPA_Partition
  <2>1. /\ UNCHANGED <<modifiedMap, EdgeSet, VertexSet, graphMap>> /\ ComputeEdges2Shard
        /\ res' = Empty /\ updateTreshold' = [a \in Accounts |-> 0] /\ iter' = 0
    BY <1>5 DEF CLPA_Partition
  <2>2. Counted'
    BY <1>0, <2>1, ComputeCounts
  <2>3. Edges2Shard' \in [Shards -> Nat]
    BY <2>2 DEF Counted
  <2>4. iter' \in Building..MaxIterations
    BY <2>1, ClpaPartitionAssumption DEF Building
  <2>5. PartitionTypeOK'
    BY <1>0, <1>1, <1>2, <1>3, <2>1, <2>3, <2>4 DEF PartitionTypeOK
  <2> QED  BY <2>2, <2>5
<1>6. ASSUME NEW v \in Accounts, leaveVertex(v) PROVE PartitionTypeOK' /\ (iter' # Building => Counted')
  <2>1. UNCHANGED <<modifiedMap, res, updateTreshold, iter, EdgeSet, VertexSet, graphMap, counters>>
    BY <1>6 DEF leaveVertex, visit
  <2>2. iter' # Building => Counted'
    BY <2>1, CountedKept DEF ExactInv
  <2>3. PartitionTypeOK'
    BY <1>0, <1>1, <1>2, <2>1 DEF PartitionTypeOK, counters
  <2> QED  BY <2>2, <2>3
<1>7. ASSUME NEW v \in Accounts, NEW new \in Shards, moveVertex(v, new)
      PROVE  PartitionTypeOK' /\ (iter' # Building => Counted')
  <2>0. PICK old \in Shards : old = graphMap[v]
    BY <1>0 DEF CountInv
  <2>1. /\ UNCHANGED <<modifiedMap, EdgeSet, VertexSet, iter>> /\ iter # Building /\ new # old
        /\ v \in todo /\ graphMap' = [graphMap EXCEPT ![v] = new]
        /\ res' = [a \in DOMAIN res \cup {v} |-> IF a = v THEN new ELSE res[a]]
        /\ updateTreshold[v] < UpdateThreshold
        /\ updateTreshold' = [updateTreshold EXCEPT ![v] = @ + 1]
        /\ changeShardRecompute(v, old, new)
    BY <1>7, <2>0 DEF moveVertex, visit, Building
  <2>2. Moves(v, old, new)
    BY <1>0, <2>0, <2>1 DEF Moves
  <2>3. Counted
    BY <2>1 DEF ExactInv
  <2>4. Counted'
    BY <2>1, <2>2, <2>3, RecomputeCounts
  <2>5. Edges2Shard' \in [Shards -> Nat]
    BY <2>4 DEF Counted
  <2>6. DOMAIN res' \subseteq VertexSet'
    BY <1>0, <2>1 DEF PartitionTypeOK
  <2>7. updateTreshold' \in [Accounts -> 0..UpdateThreshold]
    <3>1. updateTreshold[v] + 1 \in 0..UpdateThreshold
      BY <1>0, <2>1, ClpaPartitionAssumption DEF PartitionTypeOK
    <3> QED  BY <1>0, <2>1, <3>1 DEF PartitionTypeOK
  <2>8. PartitionTypeOK'
    BY <1>0, <1>1, <1>2, <2>1, <2>5, <2>6, <2>7 DEF PartitionTypeOK
  <2> QED  BY <2>4, <2>8
<1>8. CASE nextIteration
  <2>1. /\ UNCHANGED <<modifiedMap, res, updateTreshold, EdgeSet, VertexSet, graphMap, counters>>
        /\ iter \in 0..(MaxIterations - 1) /\ iter' = iter + 1
    BY <1>8 DEF nextIteration
  <2>2. iter' \in Building..MaxIterations /\ iter # Building
    BY <2>1, ClpaPartitionAssumption DEF Building
  <2>3. Counted'
    BY <2>1, <2>2, CountedKept DEF ExactInv
  <2>4. PartitionTypeOK'
    BY <1>0, <1>1, <1>2, <2>1, <2>2 DEF PartitionTypeOK, counters
  <2> QED  BY <2>3, <2>4
<1>9. CASE clpaReset
  <2>1. /\ modifiedMap' = Merged /\ EdgeSet' = [e \in Pairs |-> 0] /\ res' = Empty
        /\ Edges2Shard' = [s \in Shards |-> 0] /\ iter' = Building
        /\ updateTreshold' = [a \in Accounts |-> 0]
    BY <1>9 DEF clpaReset
  <2>2. DOMAIN Merged \subseteq Accounts
    BY <1>0 DEF Merged, MapInv, NoLeftOver
  <2>3. \A a \in DOMAIN Merged : Merged[a] \in Shards
    <3>1. SUFFICES ASSUME NEW a \in DOMAIN Merged PROVE Merged[a] \in Shards
      OBVIOUS
    <3>2. ShardOf(Merged, a) \in Shards
      BY <1>0, <2>2 DEF CountInv
    <3> QED  BY <3>2 DEF ShardOf
  <2>4. Range(Merged) \subseteq Shards
    BY <2>3 DEF Range
  <2>5. EdgeSet' \in [Pairs -> 0..MaxEdges] /\ Edges2Shard' \in [Shards -> Nat]
    BY <2>1, ClpaPartitionAssumption
  <2>6. iter' \in Building..MaxIterations
    BY <2>1, ClpaPartitionAssumption DEF Building
  <2>7. DOMAIN modifiedMap' \subseteq Accounts /\ Range(modifiedMap)' \subseteq Shards
    BY <2>1, <2>2, <2>4
  <2>8. PartitionTypeOK'
    BY <1>1, <1>2, <1>3, <2>1, <2>5, <2>6, <2>7 DEF PartitionTypeOK
  <2> QED  BY <2>1, <2>8
<1>10. CASE UNCHANGED partitionVars
  <2>1. UNCHANGED <<modifiedMap, res, updateTreshold, iter, EdgeSet, VertexSet, graphMap, counters>>
    BY <1>10 DEF partitionVars
  <2>2. iter' # Building => Counted'
    BY <2>1, CountedKept DEF ExactInv
  <2>3. PartitionTypeOK'
    BY <1>0, <1>1, <1>2, <2>1 DEF PartitionTypeOK, counters
  <2> QED  BY <2>2, <2>3
<1> QED  BY <1>4, <1>5, <1>6, <1>7, <1>8, <1>9, <1>10 DEF PartitionNext

\* CountersExact for all graphs, any number of shards, moves and epochs: the
\* adjustments of changeShardRecompute, which look only at the edges of the moved
\* vertex, keep Edges2Shard, MinEdges2Shard and CrossShardEdgeNum what
\* ComputeEdges2Shard would count, and the latter, which counts the ends of edges
\* and halves, counts every edge once.
THEOREM CountersAlwaysExact == PartitionSpec => []CountersExact
<1>1. ExactInv => CountersExact
  <2>1. CountInv => \A s \in Shards :
          VertexsNumInShard[s] = Cardinality({v \in VertexSet : graphMap[v] = s})
    BY DEF CountInv, VerticesIn
  <2> QED  BY <2>1 DEF ExactInv, Counted, CountersExact
<1> QED  BY <1>1, InitExact, NextExact, PTL DEF PartitionSpec

-----------------------------------------------------------------------------
(***************************************************************************)
(* The re-partitioning handshake: the invariant.                           *)
(***************************************************************************)

\* The assignment of accounts to shards after e maps.
Owners(e) == UpdatedUpTo(Addr2Shard, e)

\* Shard s has sent the accounts that the last map takes away from it.
HasSent(s) == stage[s] \in {"sent", "partition"} \/ AccountTransferRound[s] = epoch

\* The accounts that the last map moves from s to t.
Leaving(s, t) == {a \in Accounts : Owners(epoch - 1)[a] = s /\ Owners(epoch)[a] = t}

\* The request in consensus is what the stage says.
Requested(s) ==
  /\ stage[s] = "block" =>
       /\ request[s].body \in Seq(Txs)
       /\ request[s] = [kind |-> "block", body |-> request[s].body,
            state |-> GetUpdateStatusTrie(balance[s], PartitionMap[s], s, Fields(request[s].body))]
  /\ stage[s] = "partition" =>
       /\ s \in CollectOver
       /\ request[s] = [kind |-> "partition", epoch |-> epoch, ATid |-> epoch,
                        accounts |-> ReceivedNewAccountState(AccountStateTx[s])]

\* A shard has carried out all maps, or all but the last; the maps arrived in
\* their order, and those carried out make its assignment.
Round(s) ==
  /\ AccountTransferRound[s] = epoch \/ AccountTransferRound[s] + 1 = epoch
  /\ ModifiedMap[s] = [i \in 1..Len(ModifiedMap[s]) |-> i]
  /\ Len(ModifiedMap[s]) = epoch \/ Len(ModifiedMap[s]) = AccountTransferRound[s]
  /\ PartitionMap[s] = Owners(AccountTransferRound[s])
  /\ stage[s] \in {"ready", "sent", "partition"} => s \in PartitionOn
  /\ s \in PartitionOn => AccountTransferRound[s] + 1 = epoch /\ Len(ModifiedMap[s]) = epoch

\* The last map goes once to every shard.
MapsUnderway == \A m \in mapMsgs : m.epoch = epoch /\ Len(ModifiedMap[m.to]) + 1 = epoch

\* Every shard sends every other its accounts once for a map, and none carries out
\* the map before it has the accounts of all others.
AccountsUnderway ==
  /\ \A t \in Shards : IsFiniteSet(AccountStateTx[t]) /\ \A m \in AccountStateTx[t] : m.to = t
  /\ \A m \in AccountMessages :
       /\ m.from # m.to /\ AccountTransferRound[m.to] + 1 = epoch /\ HasSent(m.from)
       /\ DOMAIN m.accounts = Leaving(m.from, m.to)
       /\ \A tx \in Range(m.txs) : Anchor(tx) \in DOMAIN m.accounts
       /\ \A n \in AccountMessages : n.from = m.from /\ n.to = m.to => n = m
  /\ \A t \in Shards : accountMsgs \cap AccountStateTx[t] = {}
  /\ \A t \in CollectOver : \A s \in Others(t) : \E m \in AccountStateTx[t] : m.from = s
  /\ \A s, t \in Shards : AccountTransferRound[t] = epoch => HasSent(s)

\* What TypeOK leaves open.
Indexed ==
  /\ DOMAIN seqIDMap = Shards /\ DOMAIN ReadySeq = Shards
  /\ DOMAIN request = Shards /\ DOMAIN AccountStateTx = Shards
  /\ \A m \in relays \cup readyMsgs : m.from \in Others(m.to)

Handshake ==
  /\ TypeOK /\ Indexed
  /\ \A s \in Shards : Requested(s) /\ Round(s)
  /\ MapsUnderway /\ AccountsUnderway

\* The messages with accounts have the fields of AccountStateAndTx.
Shaped == \A m \in AccountMessages : DOMAIN m = {"from", "to", "accounts", "txs"}

\* Unless a transaction came late, all wait where they will be executed.
AtHome ==
  late \/
    /\ panicked = {}
    /\ \A s \in Shards :
         /\ \A tx \in Range(pool[s]) : NextMap(s)[Anchor(tx)] = s
         /\ stage[s] = "block" => \A tx \in Range(request[s].body) : PartitionMap[s][Anchor(tx)] = s

\* Each injected line is under way once, or finished.
Placed ==
  /\ OneCopy
  /\ Somewhere = {Tx(l, l \in transit) : l \in (1..sent) \ finished}
  /\ transit \subseteq (1..sent) \ finished /\ finished \subseteq 1..sent
  /\ unbacked \subseteq transit \cup finished
Tracked == panicked = {} => Placed

\* The shard whose balance of an account counts: the new one as soon as it has
\* carried out the last map.
Owner(a) ==
  IF AccountTransferRound[Owners(epoch)[a]] = epoch THEN Owners(epoch)[a] ELSE Owners(epoch - 1)[a]
Owned == [a \in Accounts |-> balance[Owner(a)][a]]

Balanced ==
  panicked = {} =>
    SumFunctionOnSet(Owned, Accounts) + SumFunctionOnSet(Values, transit)
      = Cardinality(Accounts) * Init_Balance + SumFunctionOnSet(Values, unbacked)

IInv == Handshake /\ Shaped /\ TransferredStateCurrent /\ AtHome /\ Tracked /\ Balanced

-----------------------------------------------------------------------------
(***************************************************************************)
(* The operators of ClpaTransfer.                                          *)
(***************************************************************************)

\* What a line of the input says, and what a map says.
LEMMA InputType ==
  /\ Lines = 1..Len(Input) /\ Len(Input) \in Nat
  /\ \A l \in Lines : /\ Input[l].sender \in Accounts /\ Input[l].recipient \in Accounts
                      /\ Input[l].value \in Nat
<1>1. Lines = 1..Len(Input) /\ Len(Input) \in Nat
  BY ClpaAssumption, LenProperties DEF Lines
<1>2. \A l \in Lines : Input[l] \in [sender : Accounts, recipient : Accounts, value : Nat]
  BY <1>1, ClpaAssumption, ElementOfSeq
<1> QED  BY <1>1, <1>2

\* A map moves some accounts to shards.
LEMMA MapsType ==
  /\ Epochs = 1..Len(Maps) /\ Len(Maps) \in Nat
  /\ \A e \in Epochs : /\ DOMAIN Maps[e] \subseteq Accounts
                       /\ \A a \in DOMAIN Maps[e] : Maps[e][a] \in Shards
<1> DEFINE MapSet == UNION {[moved -> Shards] : moved \in SUBSET Accounts}
<1>1. Maps \in Seq(MapSet)
  BY ClpaAssumption
<1> HIDE DEF MapSet
<1>2. Epochs = 1..Len(Maps) /\ Len(Maps) \in Nat
  BY <1>1, LenProperties DEF Epochs
<1>3. \A e \in Epochs : Maps[e] \in MapSet
  BY <1>1, <1>2, ElementOfSeq
<1>4. ASSUME NEW e \in Epochs
      PROVE  DOMAIN Maps[e] \subseteq Accounts /\ \A a \in DOMAIN Maps[e] : Maps[e][a] \in Shards
  <2>1. PICK moved \in SUBSET Accounts : Maps[e] \in [moved -> Shards]
    BY <1>3 DEF MapSet
  <2> QED  BY <2>1
<1> QED  BY <1>2, <1>4

\* The next map updates the assignment that the maps before it made.
LEMMA OwnersStep ==
  ASSUME NEW e \in Nat
  PROVE  Owners(e + 1) = Updated(Owners(e), Maps[e + 1])
<1> DEFINE es(a) == {i \in 1..e : a \in DOMAIN Maps[i]}
           fs(a) == {i \in 1..(e + 1) : a \in DOMAIN Maps[i]}
<1>1. 1..(e + 1) = 1..e \cup {e + 1}
  OBVIOUS
<1>2. ASSUME NEW a \in Accounts
      PROVE  Owners(e + 1)[a] = IF a \in DOMAIN Maps[e + 1] THEN Maps[e + 1][a] ELSE Owners(e)[a]
  <2>1. Owners(e + 1)[a] = IF fs(a) = {} THEN Addr2Shard[a] ELSE Maps[Max(fs(a))][a]
    BY DEF Owners, UpdatedUpTo
  <2>2. Owners(e)[a] = IF es(a) = {} THEN Addr2Shard[a] ELSE Maps[Max(es(a))][a]
    BY DEF Owners, UpdatedUpTo
  <2>3. CASE a \in DOMAIN Maps[e + 1]
    <3>1. e + 1 \in fs(a) /\ \A i \in fs(a) : i \in Nat /\ i <= e + 1
      BY <2>3
    <3>2. PICK S : S = fs(a)
      OBVIOUS
    <3> HIDE DEF fs
    <3>3. Max(S) \in S /\ \A i \in S : Max(S) >= i
      BY <3>1, <3>2 DEF Max
    <3>4. Max(S) = e + 1
      BY <3>1, <3>2, <3>3
    <3> QED  BY <2>1, <2>3, <3>1, <3>2, <3>4
  <2>4. CASE a \notin DOMAIN Maps[e + 1]
    <3>1. fs(a) = es(a)
      BY <1>1, <2>4
    <3> QED  BY <2>1, <2>2, <2>4, <3>1
  <2> QED  BY <2>3, <2>4
<1>3. Owners(e + 1) = [a \in Accounts |-> Owners(e + 1)[a]]
  BY DEF Owners, UpdatedUpTo
<1> QED  BY <1>2, <1>3 DEF Updated

\* Without a map the default assignment holds; every assignment is to shards.
LEMMA OwnersType ==
  Owners(0) = Addr2Shard /\ \A e \in 0..Len(Maps) : Owners(e) \in [Accounts -> Shards]
<1>1. Owners(0) = Addr2Shard
  <2>1. \A a \in Accounts : {i \in 1..0 : a \in DOMAIN Maps[i]} = {}
    OBVIOUS
  <2>2. Addr2Shard = [a \in Accounts |-> Addr2Shard[a]]
    BY ShardingAssumption
  <2> QED  BY <2>1, <2>2 DEF Owners, UpdatedUpTo
<1> DEFINE P == {e \in Nat : e <= Len(Maps) => Owners(e) \in [Accounts -> Shards]}
<1>2. 0 \in P
  BY <1>1, ShardingAssumption
<1>3. ASSUME NEW e \in Nat, e \in P PROVE e + 1 \in P
  <2> SUFFICES ASSUME e + 1 <= Len(Maps) PROVE Owners(e + 1) \in [Accounts -> Shards]
    OBVIOUS
  <2>1. e + 1 \in Epochs /\ Owners(e) \in [Accounts -> Shards]
    BY <1>3, MapsType
  <2>2. Owners(e + 1) = Updated(Owners(e), Maps[e + 1])
    BY OwnersStep
  <2> QED  BY <2>1, <2>2, MapsType DEF Updated
<1> HIDE DEF P
<1>4. \A e \in Nat : e \in P
  BY <1>2, <1>3, NumberInduction
<1>5. \A e \in 0..Len(Maps) : e \in Nat /\ e <= Len(Maps)
  BY MapsType
<1> QED  BY <1>1, <1>4, <1>5 DEF P

\* An account that changes its shard is in the map.
LEMMA OwnersMoved ==
  ASSUME NEW e \in Nat, NEW a \in Accounts, Owners(e + 1)[a] # Owners(e)[a]
  PROVE  a \in DOMAIN Maps[e + 1] /\ Maps[e + 1][a] = Owners(e + 1)[a]
<1>1. Owners(e + 1) = Updated(Owners(e), Maps[e + 1])
  BY OwnersStep
<1>2. Updated(Owners(e), Maps[e + 1])[a]
        = IF a \in DOMAIN Maps[e + 1] THEN Maps[e + 1][a] ELSE Owners(e)[a]
  BY DEF Updated
<1> QED  BY <1>1, <1>2

\* A transaction is known by its line and whether it was relayed.
LEMMA TxsType ==
  /\ \A l \in Lines, r \in BOOLEAN :
       Tx(l, r) \in Txs /\ Tx(l, r).line = l /\ Tx(l, r).relayed = r
  /\ \A tx \in Txs : /\ tx.line \in Lines /\ tx.relayed \in BOOLEAN /\ tx = Tx(tx.line, tx.relayed)
                     /\ Anchor(tx) \in Accounts
<1>1. /\ \A l \in Lines, r \in BOOLEAN :
           Tx(l, r) \in Txs /\ Tx(l, r).line = l /\ Tx(l, r).relayed = r
      /\ \A tx \in Txs : tx.line \in Lines /\ tx.relayed \in BOOLEAN /\ tx = Tx(tx.line, tx.relayed)
  BY DEF Txs, Tx
<1>2. \A tx \in Txs : Anchor(tx) \in Accounts
  BY <1>1, InputType DEF Anchor
<1> QED  BY <1>1, <1>2

\* What the state transition reads of a block.
LEMMA FieldsType ==
  ASSUME NEW body \in Seq(Txs)
  PROVE  /\ Fields(body) \in Seq(TxOver(Accounts)) /\ Len(Fields(body)) = Len(body)
         /\ DOMAIN Fields(body) = 1..Len(body)
         /\ \A i \in 1..Len(body) :
              Fields(body)[i] =
                [sender |-> Input[body[i].line].sender, recipient |-> Input[body[i].line].recipient,
                 value |-> Input[body[i].line].value, relayed |-> body[i].relayed,
                 hasBroker |-> FALSE]
<1>1. Len(body) \in Nat /\ DOMAIN body = 1..Len(body) /\ \A i \in 1..Len(body) : body[i] \in Txs
  BY LenProperties, ElementOfSeq
<1> DEFINE r(i) == [sender |-> Input[body[i].line].sender,
                    recipient |-> Input[body[i].line].recipient,
                    value |-> Input[body[i].line].value, relayed |-> body[i].relayed,
                    hasBroker |-> FALSE]
<1>2. \A i \in 1..Len(body) : r(i) \in TxOver(Accounts)
  BY <1>1, TxsType, InputType DEF TxOver
<1>3. Fields(body) = [i \in 1..Len(body) |-> r(i)]
  BY <1>1 DEF Fields
<1> HIDE DEF r
<1>4. [i \in 1..Len(body) |-> r(i)] \in Seq(TxOver(Accounts))
  BY <1>1, <1>2
<1>5. /\ Len(Fields(body)) = Len(body) /\ DOMAIN Fields(body) = 1..Len(body)
      /\ \A i \in 1..Len(body) : Fields(body)[i] = r(i)
  BY <1>1, <1>3
<1> QED  BY <1>3, <1>4, <1>5 DEF r

\* A block leaves balances, and changes none of an account of another shard.
LEMMA BlockState ==
  ASSUME NEW st \in Trie(Accounts), NEW pm, NEW s, NEW body \in Seq(Txs)
  PROVE  /\ GetUpdateStatusTrie(st, pm, s, Fields(body)) \in Trie(Accounts)
         /\ \A a \in Accounts : pm[a] # s => GetUpdateStatusTrie(st, pm, s, Fields(body))[a] = st[a]
<1>1. PICK B : B = {b \in Trie(Accounts) : \A a \in Accounts : pm[a] # s => b[a] = st[a]}
  OBVIOUS
<1>2. PICK n \in Nat : n = Len(body)
  BY LenProperties
<1>3. PICK txs : txs = Fields(body) /\ n = Len(txs)
  BY <1>2, FieldsType
<1>4. ASSUME NEW b \in B, NEW i \in 1..n PROVE Apply(b, pm, s, txs[i]) \in B
  <2>1. PICK tx \in TxOver(Accounts) : tx = txs[i] /\ ~tx.hasBroker
    <3>1. txs[i] \in TxOver(Accounts)
      BY <1>2, <1>3, FieldsType, ElementOfSeq
    <3>2. txs[i].hasBroker = FALSE
      <4>1. txs[i] =
              [sender |-> Input[body[i].line].sender, recipient |-> Input[body[i].line].recipient,
               value |-> Input[body[i].line].value, relayed |-> body[i].relayed,
               hasBroker |-> FALSE]
        BY <1>2, <1>3, FieldsType
      <4> QED  BY <4>1
    <3> QED  BY <3>1, <3>2
  <2>2. b \in [Accounts -> Int] /\ \A a \in Accounts : pm[a] # s => b[a] = st[a]
    BY <1>1 DEF Trie
  <2>3. Apply(b, pm, s, tx) \in [Accounts -> Int]
    BY <2>2, ApplyType
  <2>4. tx.sender \in Accounts /\ tx.recipient \in Accounts /\ tx.value \in Nat
    BY DEF TxOver
  <2>5. ASSUME NEW a \in Accounts, pm[a] # s PROVE Apply(b, pm, s, tx)[a] = b[a]
    <3>1. ~Local(pm, s, a, tx)
      BY <2>1, <2>5 DEF Local
    <3>2. Debits(pm, s, tx) => a # tx.sender
      BY <3>1 DEF Debits
    <3>3. Local(pm, s, tx.recipient, tx) => a # tx.recipient
      BY <3>1
    <3> QED  BY <2>2, <2>4, <2>5, <3>2, <3>3 DEF Apply, Deduct, Deposit
  <2> QED  BY <1>1, <2>1, <2>2, <2>3, <2>5 DEF Trie
<1>5. Keep(B, pm, s, txs, n)
  BY <1>3, <1>4 DEF Keep
<1>6. st \in B
  BY <1>1
<1>7. GetUpdateStatusTrie(st, pm, s, txs) \in B
  BY <1>5, <1>6, TriesSteps
<1> QED  BY <1>1, <1>3, <1>7

-----------------------------------------------------------------------------
(***************************************************************************)
(* The handshake.                                                          *)
(***************************************************************************)

\* Rounds are numbers up to the epoch.
LEMMA RoundNumbers ==
  ASSUME Handshake, NEW s \in Shards
  PROVE  /\ epoch \in Nat /\ epoch \in 0..Len(Maps)
         /\ AccountTransferRound[s] \in Nat /\ Len(ModifiedMap[s]) \in Nat
         /\ AccountTransferRound[s] = epoch \/ AccountTransferRound[s] + 1 = epoch
         /\ Len(ModifiedMap[s]) = epoch \/ Len(ModifiedMap[s]) = AccountTransferRound[s]
         /\ stage[s] \in {"ready", "sent", "partition"} => s \in PartitionOn
         /\ s \in PartitionOn => AccountTransferRound[s] + 1 = epoch /\ Len(ModifiedMap[s]) = epoch
<1>1. TypeOK /\ Round(s)
  BY DEF Handshake
<1>2. /\ epoch \in 0..Len(Maps) /\ AccountTransferRound[s] \in 0..epoch
      /\ ModifiedMap[s] \in Seq(Epochs)
  BY <1>1 DEF TypeOK
<1>3. epoch \in Nat /\ AccountTransferRound[s] \in Nat /\ Len(ModifiedMap[s]) \in Nat
  BY <1>2, MapsType, LenProperties
<1>4. /\ AccountTransferRound[s] = epoch \/ AccountTransferRound[s] + 1 = epoch
      /\ Len(ModifiedMap[s]) = epoch \/ Len(ModifiedMap[s]) = AccountTransferRound[s]
      /\ stage[s] \in {"ready", "sent", "partition"} => s \in PartitionOn
      /\ s \in PartitionOn => AccountTransferRound[s] + 1 = epoch /\ Len(ModifiedMap[s]) = epoch
  BY <1>1 DEF Round
<1> QED  BY <1>2, <1>3, <1>4

\* A shard that has a map to apply has all maps and has carried out all but the last;
\* proposePartition, which counts maps from the front, and sendAccounts_and_Txs,
\* which takes the last one, mean the same map.
LEMMA ApplyingFacts ==
  ASSUME Handshake, NEW s \in Shards, s \in PartitionOn
  PROVE  /\ epoch \in Epochs /\ epoch - 1 \in Nat /\ AccountTransferRound[s] = epoch - 1
         /\ Last(ModifiedMap[s]) = epoch /\ RoundEpoch(s) = epoch /\ ATid(s) = epoch
         /\ PartitionMap[s] = Owners(epoch - 1)
         /\ Updated(PartitionMap[s], Maps[epoch]) = Owners(epoch)
<1>1. Round(s) /\ TypeOK
  BY DEF Handshake
<1>2. epoch \in 0..Len(Maps) /\ AccountTransferRound[s] \in 0..epoch
  BY <1>1 DEF TypeOK
<1>3. AccountTransferRound[s] + 1 = epoch /\ Len(ModifiedMap[s]) = epoch
  BY <1>1 DEF Round
<1>4. epoch \in Epochs /\ epoch - 1 \in Nat /\ AccountTransferRound[s] = epoch - 1
  BY <1>2, <1>3, MapsType
<1>5. \A i \in 1..epoch : ModifiedMap[s][i] = i
  BY <1>1, <1>3 DEF Round
<1>6. Last(ModifiedMap[s]) = epoch /\ RoundEpoch(s) = epoch /\ ATid(s) = epoch
  <2>1. epoch \in 1..epoch
    BY <1>2, <1>4
  <2> QED  BY <1>3, <1>4, <1>5, <2>1 DEF Last, RoundEpoch, ATid
<1>7. PartitionMap[s] = Owners(epoch - 1)
  BY <1>1, <1>4 DEF Round
<1>8. Updated(PartitionMap[s], Maps[epoch]) = Owners(epoch)
  <2>1. PICK e \in Nat : e = epoch - 1
    BY <1>4
  <2>2. Owners(e + 1) = Updated(Owners(e), Maps[e + 1]) /\ e + 1 = epoch
    BY <1>2, <2>1, OwnersStep
  <2> QED  BY <1>7, <2>1, <2>2
<1> QED  BY <1>4, <1>6, <1>7, <1>8

\* The accounts that Moving selects are those the last map takes from s to t.
LEMMA MovingFacts ==
  ASSUME Handshake, NEW s \in Shards, s \in PartitionOn, NEW t \in Others(s)
  PROVE  Moving(s, t) = Leaving(s, t)
<1>1. /\ epoch \in Epochs /\ Last(ModifiedMap[s]) = epoch /\ PartitionMap[s] = Owners(epoch - 1)
      /\ Updated(PartitionMap[s], Maps[epoch]) = Owners(epoch)
  BY ApplyingFacts
<1>2. DOMAIN Maps[epoch] \subseteq Accounts
  BY <1>1, MapsType
<1>3. \A a \in Accounts :
        Owners(epoch)[a] = IF a \in DOMAIN Maps[epoch] THEN Maps[epoch][a] ELSE Owners(epoch - 1)[a]
  BY <1>1 DEF Updated
<1>4. Moving(s, t) = {a \in DOMAIN Maps[epoch] : Maps[epoch][a] = t /\ t # s /\ Owners(epoch - 1)[a] = s}
  BY <1>1 DEF Moving
<1>5. s # t
  BY DEF Others
<1> QED  BY <1>2, <1>3, <1>4, <1>5 DEF Leaving

\* Accounts under way stay so when only stages change and no shard takes back that it
\* has sent them.
LEMMA AccountsKept ==
  ASSUME AccountsUnderway, UNCHANGED <<epoch, AccountTransferRound, AccountStateTx, CollectOver, accountMsgs>>,
         \A s \in Shards : HasSent(s) => HasSent(s)', TypeOK
  PROVE  AccountsUnderway'
<1>1. AccountMessages' = AccountMessages
  BY DEF AccountMessages
<1>2. \A s, t : Leaving(s, t)' = Leaving(s, t)
  BY DEF Leaving, Owners, UpdatedUpTo
<1>3. \A m \in AccountMessages : m.from \in Shards
  BY DEF TypeOK
<1> QED  BY <1>1, <1>2, <1>3 DEF AccountsUnderway

\* The state of the handshake when none of its variables changes.
LEMMA HandshakeKept ==
  ASSUME Handshake, TypeOK', Indexed',
         UNCHANGED <<epoch, stage, request, balance, PartitionMap, PartitionOn, ModifiedMap,
                     AccountTransferRound, AccountStateTx, CollectOver, mapMsgs, accountMsgs>>
  PROVE  Handshake'
<1>1. \A s \in Shards : Requested(s)'
  BY DEF Handshake, Requested
<1>2. \A s \in Shards : Round(s)'
  BY DEF Handshake, Round, Owners, UpdatedUpTo
<1>3. MapsUnderway'
  BY DEF Handshake, MapsUnderway
<1>4. AccountsUnderway'
  <2>1. AccountsUnderway /\ TypeOK /\ \A s \in Shards : HasSent(s) => HasSent(s)'
    BY DEF Handshake, HasSent
  <2> QED  BY <2>1, AccountsKept
<1> QED  BY <1>1, <1>2, <1>3, <1>4 DEF Handshake

\* The handshake starts with nothing under way.
LEMMA HandshakeInit == Init => Handshake
<1> SUFFICES ASSUME Init PROVE Handshake
  OBVIOUS
<1>1. TypeOK
  <2>1. epoch \in 0..Len(Maps) /\ sent \in 0..Len(Input) /\ AccountTransferRound \in [Shards -> 0..epoch]
    BY InputType, MapsType DEF Init
  <2>2. AccountMessages = {}
    BY DEF Init, AccountMessages
  <2>3. \A s \in Shards : request[s] = NoRequest /\ stage[s] = "idle"
    BY DEF Init
  <2>4. balance \in [Shards -> [Accounts -> Int]] /\ PartitionMap \in [Shards -> [Accounts -> Shards]]
    BY ShardingAssumption, ClpaAssumption DEF Init
  <2>5. pool \in [Shards -> Seq(Txs)] /\ ModifiedMap \in [Shards -> Seq(Epochs)]
    BY DEF Init
  <2>6. \A s \in Shards : seqIDMap[s] \in [Others(s) -> Nat] /\ ReadySeq[s] \in [Others(s) -> Nat]
    BY DEF Init
  <2> QED  BY <2>1, <2>2, <2>3, <2>4, <2>5, <2>6 DEF Init, TypeOK
<1>2. Indexed
  BY DEF Init, Indexed
<1>3. \A s \in Shards : Requested(s)
  BY DEF Init, Requested
<1>4. \A s \in Shards : Round(s)
  <2>1. <<>> = [i \in 1..0 |-> i] /\ Len(<<>>) = 0
    OBVIOUS
  <2> QED  BY <2>1, OwnersType DEF Init, Round
<1>5. MapsUnderway
  BY DEF Init, MapsUnderway
<1>6. AccountsUnderway
  <2>1. AccountMessages = {}
    BY DEF Init, AccountMessages
  <2> QED  BY <2>1, FS_EmptySet DEF Init, AccountsUnderway, HasSent
<1> QED  BY <1>1, <1>2, <1>3, <1>4, <1>5, <1>6 DEF Handshake

\* Injecting a transfer is outside the handshake.
LEMMA SendingHandshake == Handshake /\ txSending => Handshake'
<1> SUFFICES ASSUME Handshake, txSending PROVE Handshake'
  OBVIOUS
<1>0. TypeOK /\ Indexed
  BY DEF Handshake
<1>1. sent + 1 \in Lines /\ sent' = sent + 1 /\ sent' \in 0..Len(Input)
  BY <1>0, InputType DEF txSending, TypeOK
<1>2. PICK to \in Shards : to = fetchModifiedMap(Input[sent + 1].sender)
  <2>1. epoch \in 0..Len(Maps)
    BY <1>0 DEF TypeOK
  <2> QED  BY <1>1, <2>1, InputType, OwnersType DEF fetchModifiedMap, Owners
<1>3. [to |-> to, txs |-> <<Tx(sent + 1, FALSE)>>] \in [to : Shards, txs : Seq(Txs)]
  <2>1. Tx(sent + 1, FALSE) \in Txs
    BY <1>1, TxsType
  <2>2. PICK tx \in Txs : tx = Tx(sent + 1, FALSE)
    BY <2>1
  <2>3. <<tx>> \in Seq(Txs)
    OBVIOUS
  <2> QED  BY <2>2, <2>3
<1>4. injects' \subseteq [to : Shards, txs : Seq(Txs)]
  BY <1>0, <1>2, <1>3 DEF txSending, TypeOK
<1>5. AccountMessages' = AccountMessages
  BY DEF AccountMessages, txSending, clpaData
<1>6. TypeOK'
  BY <1>0, <1>1, <1>4, <1>5 DEF txSending, TypeOK, chain, seqs, clpaData, flags
<1>7. Indexed'
  BY <1>0 DEF txSending, Indexed, seqs, clpaData
<1> QED  BY <1>6, <1>7, HandshakeKept DEF txSending, chain, seqs, clpaData

\* The arrival of transactions is outside the handshake.
LEMMA ArrivalHandshake ==
  ASSUME Handshake, (\E m \in injects : handleInjectTx(m)) \/ (\E m \in relays : handleRelay(m))
  PROVE  Handshake'
<1>0. TypeOK /\ Indexed
  BY DEF Handshake
<1>1. ASSUME NEW m \in injects, handleInjectTx(m) PROVE Handshake'
  <2>1. m.to \in Shards /\ m.txs \in Seq(Txs)
    BY <1>0 DEF TypeOK
  <2>2. pool[m.to] \o m.txs \in Seq(Txs)
    BY <1>0, <2>1, ConcatProperties DEF TypeOK
  <2>3. pool' \in [Shards -> Seq(Txs)]
    BY <1>0, <1>1, <2>1, <2>2 DEF handleInjectTx, TypeOK, AddTxs2Pool
  <2>4. injects' \subseteq [to : Shards, txs : Seq(Txs)] /\ late' \in BOOLEAN
    BY <1>0, <1>1 DEF handleInjectTx, TypeOK
  <2>5. AccountMessages' = AccountMessages
    BY <1>1 DEF AccountMessages, handleInjectTx, clpaData
  <2>6. TypeOK'
    BY <1>0, <1>1, <2>3, <2>4, <2>5 DEF handleInjectTx, TypeOK, supervisor, chain, seqs, clpaData
  <2>7. Indexed'
    BY <1>0, <1>1 DEF handleInjectTx, Indexed, seqs, clpaData
  <2> QED  BY <1>1, <2>6, <2>7, HandshakeKept DEF handleInjectTx, supervisor, chain, seqs, clpaData
<1>2. ASSUME NEW m \in relays, handleRelay(m) PROVE Handshake'
  <2>1. m.to \in Shards /\ m.txs \in Seq(Txs) /\ m.seq \in Nat /\ m.from \in Others(m.to)
    BY <1>0 DEF TypeOK, Indexed
  <2>2. pool[m.to] \o m.txs \in Seq(Txs)
    BY <1>0, <2>1, ConcatProperties DEF TypeOK
  <2>3. pool' \in [Shards -> Seq(Txs)]
    BY <1>0, <1>2, <2>1, <2>2 DEF handleRelay, TypeOK, AddTxs2Pool
  <2>4. /\ relays' \subseteq [from : Shards, to : Shards, seq : Nat, txs : Seq(Txs)]
        /\ late' \in BOOLEAN /\ overtaken' \in BOOLEAN
    BY <1>0, <1>2 DEF handleRelay, TypeOK
  <2>5. AccountMessages' = AccountMessages
    BY <1>2 DEF AccountMessages, handleRelay, clpaData
  <2>6. DOMAIN seqIDMap' = Shards /\ \A s \in Shards : seqIDMap'[s] \in [Others(s) -> Nat]
    <3>1. seqIDMap' = [seqIDMap EXCEPT ![m.to][m.from] = m.seq]
      BY <1>2 DEF handleRelay
    <3>2. DOMAIN seqIDMap = Shards /\ \A s \in Shards : seqIDMap[s] \in [Others(s) -> Nat]
      BY <1>0 DEF Indexed, TypeOK
    <3> QED  BY <1>2, <2>1, <3>1, <3>2
  <2>7. TypeOK'
    BY <1>0, <1>2, <2>3, <2>4, <2>5, <2>6 DEF handleRelay, TypeOK, supervisor, chain, clpaData
  <2>8. Indexed'
    BY <1>0, <1>2, <2>6 DEF handleRelay, Indexed, clpaData
  <2> QED  BY <1>2, <2>7, <2>8, HandshakeKept DEF handleRelay, supervisor, chain, clpaData
<1> QED  BY <1>1, <1>2

\* That a shard is ready is noted by the others.
LEMMA ReadyHandshake ==
  ASSUME Handshake, NEW m \in readyMsgs, handlePartitionReady(m)
  PROVE  Handshake'
<1>0. TypeOK /\ Indexed
  BY DEF Handshake
<1>1. m.to \in Shards /\ m.seq \in Nat /\ m.from \in Others(m.to) /\ m.from \in Shards
  BY <1>0 DEF TypeOK, Indexed
<1>2. readyMsgs' \subseteq [from : Shards, to : Shards, seq : Nat]
  BY <1>0 DEF handlePartitionReady, TypeOK
<1>3. PartitionReady' \in [Shards -> SUBSET Shards]
  BY <1>0, <1>1 DEF handlePartitionReady, TypeOK
<1>4. DOMAIN ReadySeq' = Shards /\ \A s \in Shards : ReadySeq'[s] \in [Others(s) -> Nat]
  <2>1. ReadySeq' = [ReadySeq EXCEPT ![m.to][m.from] = m.seq]
    BY DEF handlePartitionReady
  <2>2. DOMAIN ReadySeq = Shards /\ \A s \in Shards : ReadySeq[s] \in [Others(s) -> Nat]
    BY <1>0 DEF Indexed, TypeOK
  <2> QED  BY <1>1, <2>1, <2>2
<1>5. AccountMessages' = AccountMessages
  BY DEF AccountMessages, handlePartitionReady
<1>6. TypeOK'
  BY <1>0, <1>2, <1>3, <1>4, <1>5 DEF handlePartitionReady, TypeOK, supervisor, chain, seqs, flags
<1>7. Indexed'
  BY <1>0, <1>4 DEF handlePartitionReady, Indexed, seqs
<1> QED  BY <1>6, <1>7, HandshakeKept DEF handlePartitionReady, supervisor, chain, seqs

\* The supervisor sends the next map when all shards have carried out the last one.
LEMMA MapSendHandshake == Handshake /\ clpaMapSend => Handshake'
<1> SUFFICES ASSUME Handshake, clpaMapSend PROVE Handshake'
  OBVIOUS
<1>0. TypeOK /\ Indexed /\ AccountsUnderway /\ MapsUnderway /\ \A s \in Shards : Requested(s) /\ Round(s)
  BY DEF Handshake
<1>1. epoch \in Nat /\ epoch' = epoch + 1 /\ epoch' \in Epochs /\ epoch' \in 0..Len(Maps)
  BY <1>0, MapsType DEF clpaMapSend, TypeOK
<1>2. \A s \in Shards : AccountTransferRound[s] = epoch /\ stage[s] \in {"idle", "block"}
  BY DEF clpaMapSend, PeriodOver, Settled
<1>3. \A s \in Shards : s \notin PartitionOn /\ Len(ModifiedMap[s]) = epoch
  BY <1>2, RoundNumbers
<1>4. mapMsgs = {}
  <2>1. \A m \in mapMsgs : m.to \in Shards
    BY <1>0 DEF TypeOK
  <2> QED  BY <1>0, <1>1, <1>3, <2>1 DEF MapsUnderway
<1>5. AccountMessages = {}
  <2>1. \A m \in AccountMessages : m.to \in Shards
    BY <1>0 DEF TypeOK
  <2> QED  BY <1>0, <1>1, <1>2, <2>1 DEF AccountsUnderway
<1>6. mapMsgs' = {[to |-> s, epoch |-> epoch + 1] : s \in Shards}
  BY <1>4 DEF clpaMapSend
<1>7. AccountMessages' = AccountMessages
  BY DEF AccountMessages, clpaMapSend, clpaData
<1>8. TypeOK'
  <2>1. mapMsgs' \subseteq [to : Shards, epoch : Epochs]
    BY <1>1, <1>6
  <2>2. AccountTransferRound' \in [Shards -> 0..epoch']
    BY <1>0, <1>1 DEF TypeOK, clpaMapSend, clpaData
  <2> QED  BY <1>0, <1>1, <1>7, <2>1, <2>2 DEF clpaMapSend, TypeOK, chain, seqs, clpaData, flags
<1>9. Indexed'
  BY <1>0 DEF Indexed, clpaMapSend, seqs, clpaData
<1>10. \A s \in Shards : Requested(s)'
  BY <1>0, <1>2 DEF Requested, clpaMapSend, chain, clpaData
<1>11. \A s \in Shards : Round(s)'
  BY <1>0, <1>1, <1>2, <1>3 DEF Round, Owners, UpdatedUpTo, clpaMapSend, chain, clpaData
<1>12. MapsUnderway'
  BY <1>1, <1>3, <1>6 DEF MapsUnderway, clpaMapSend, clpaData
<1>13. AccountsUnderway'
  <2>1. UNCHANGED <<AccountStateTx, CollectOver, accountMsgs, AccountTransferRound>>
    BY DEF clpaMapSend, clpaData
  <2>2. \A t \in Shards : AccountTransferRound'[t] # epoch'
    BY <1>1, <1>2, <2>1
  <2> QED  BY <1>0, <1>5, <1>7, <2>1, <2>2 DEF AccountsUnderway
<1> QED  BY <1>8, <1>9, <1>10, <1>11, <1>12, <1>13 DEF Handshake

\* A map arrives.
LEMMA MapArrives ==
  ASSUME Handshake, NEW m \in mapMsgs, handlePartitionMsg(m)
  PROVE  Handshake'
<1>0. TypeOK /\ Indexed /\ AccountsUnderway /\ MapsUnderway /\ \A s \in Shards : Requested(s) /\ Round(s)
  BY DEF Handshake
<1>1. /\ m.to \in Shards /\ m.epoch = epoch /\ epoch \in Epochs /\ epoch \in Nat
      /\ Len(ModifiedMap[m.to]) + 1 = epoch
      /\ ModifiedMap[m.to] \in Seq(Epochs) /\ Len(ModifiedMap[m.to]) \in Nat
      /\ AccountTransferRound[m.to] \in Nat
  BY <1>0, LenProperties DEF TypeOK, MapsUnderway
<1>2. AccountTransferRound[m.to] + 1 = epoch /\ m.to \notin PartitionOn
  BY <1>1, RoundNumbers
<1>3. PICK q \in Seq(Epochs) : q = Append(ModifiedMap[m.to], epoch)
  BY <1>1, AppendProperties
<1>4. Len(q) = epoch /\ q = [i \in 1..Len(q) |-> i]
  <2>1. ModifiedMap[m.to] = [i \in 1..Len(ModifiedMap[m.to]) |-> i]
    BY <1>0, <1>1 DEF Round
  <2>2. Len(q) = epoch /\ \A i \in 1..Len(q) : q[i] = i
    <3>1. PICK p \in Seq(Epochs) : p = ModifiedMap[m.to]
      BY <1>1
    <3>2. Len(q) = Len(p) + 1 /\ (\A i \in 1..Len(p) : q[i] = p[i]) /\ q[Len(p) + 1] = epoch
      BY <1>1, <1>3, <3>1, AppendProperties
    <3> QED  BY <1>1, <2>1, <3>1, <3>2
  <2>3. q = [i \in 1..Len(q) |-> q[i]]
    OBVIOUS
  <2> QED  BY <2>2, <2>3
<1>5. /\ ModifiedMap' = [ModifiedMap EXCEPT ![m.to] = q] /\ PartitionOn' = PartitionOn \cup {m.to}
      /\ ModifiedMap' \in [Shards -> Seq(Epochs)]
      /\ mapMsgs' = mapMsgs \ {m}
  BY <1>0, <1>1, <1>3 DEF handlePartitionMsg, TypeOK
<1>6. AccountMessages' = AccountMessages
  BY DEF AccountMessages, handlePartitionMsg
<1>7. TypeOK'
  BY <1>0, <1>1, <1>5, <1>6 DEF handlePartitionMsg, TypeOK, supervisor, chain, seqs, flags
<1>8. Indexed'
  BY <1>0 DEF Indexed, handlePartitionMsg, seqs
<1>9. \A s \in Shards : Requested(s)'
  BY <1>0 DEF Requested, handlePartitionMsg, supervisor, chain
<1>10. ASSUME NEW s \in Shards PROVE Round(s)'
  <2>1. UNCHANGED <<epoch, stage, AccountTransferRound, PartitionMap>>
    BY DEF handlePartitionMsg, supervisor, chain
  <2>2. Owners(AccountTransferRound[s])' = Owners(AccountTransferRound[s])
    BY <2>1 DEF Owners, UpdatedUpTo
  <2>3. CASE s = m.to
    <3>1. ModifiedMap'[s] = q
      BY <1>0, <1>5, <2>3 DEF TypeOK
    <3> QED  BY <1>0, <1>2, <1>4, <1>5, <2>1, <2>2, <2>3, <3>1 DEF Round
  <2>4. CASE s # m.to
    <3>1. ModifiedMap'[s] = ModifiedMap[s] /\ (s \in PartitionOn' <=> s \in PartitionOn)
      BY <1>0, <1>5, <2>4 DEF TypeOK
    <3> QED  BY <1>0, <2>1, <2>2, <3>1 DEF Round
  <2> QED  BY <2>3, <2>4
<1>11. MapsUnderway'
  <2>1. \A n \in mapMsgs : n \in [to : Shards, epoch : Epochs] /\ n.epoch = epoch
    BY <1>0 DEF TypeOK, MapsUnderway
  <2>2. \A n \in mapMsgs' : n \in mapMsgs /\ n.to # m.to
    BY <1>5, <2>1
  <2>3. \A n \in mapMsgs' : ModifiedMap'[n.to] = ModifiedMap[n.to]
    BY <1>0, <1>5, <2>1, <2>2 DEF TypeOK
  <2>4. epoch' = epoch
    BY DEF handlePartitionMsg, supervisor
  <2> QED  BY <1>0, <2>2, <2>3, <2>4 DEF MapsUnderway
<1>12. AccountsUnderway'
  <2>1. \A s \in Shards : HasSent(s) => HasSent(s)'
    BY DEF HasSent, handlePartitionMsg, supervisor
  <2> QED  BY <1>0, <2>1, AccountsKept DEF handlePartitionMsg, supervisor
<1> QED  BY <1>7, <1>8, <1>9, <1>10, <1>11, <1>12 DEF Handshake

\* The maps that arrived and were carried out, when only stages change.
LEMMA RoundKept ==
  ASSUME Handshake,
         UNCHANGED <<epoch, AccountTransferRound, ModifiedMap, PartitionMap, PartitionOn, mapMsgs>>,
         \A s \in Shards : stage'[s] \in {"ready", "sent", "partition"} => s \in PartitionOn
  PROVE  MapsUnderway' /\ \A s \in Shards : Round(s)'
<1>1. MapsUnderway'
  BY DEF Handshake, MapsUnderway
<1>2. \A s \in Shards : Round(s)'
  BY DEF Handshake, Round, Owners, UpdatedUpTo
<1> QED  BY <1>1, <1>2

\* A block is proposed when there is no map to apply.
LEMMA GenerateHandshake ==
  ASSUME Handshake, NEW s \in Shards, GenerateBlock(s)
  PROVE  Handshake'
<1>0. TypeOK /\ Indexed /\ AccountsUnderway /\ MapsUnderway /\ \A t \in Shards : Requested(t) /\ Round(t)
  BY DEF Handshake
<1>1. BlockSize \in Nat /\ PackTxs(pool[s], BlockSize) \in Seq(Txs) /\ AfterPack(pool[s], BlockSize) \in Seq(Txs)
  BY <1>0, ClpaAssumption, PackSplits DEF TypeOK
<1>2. PICK body \in Seq(Txs) : body = PackTxs(pool[s], BlockSize)
  BY <1>1
<1>3. PICK r : r = [kind |-> "block", body |-> body,
                    state |-> GetUpdateStatusTrie(balance[s], PartitionMap[s], s, Fields(body))]
  OBVIOUS
<1>4. request' = [request EXCEPT ![s] = r] /\ stage' = [stage EXCEPT ![s] = "block"]
  BY <1>2, <1>3 DEF GenerateBlock
<1>5. request'[s] = r /\ stage'[s] = "block" /\ stage[s] = "idle"
  BY <1>0, <1>4 DEF Indexed, TypeOK, GenerateBlock
<1>6. \A t \in Shards \ {s} : request'[t] = request[t] /\ stage'[t] = stage[t]
  BY <1>0, <1>4 DEF Indexed, TypeOK
<1>7. AccountMessages' = AccountMessages
  BY DEF AccountMessages, GenerateBlock, clpaData, network
<1>8. TypeOK'
  <2>1. pool' \in [Shards -> Seq(Txs)]
    BY <1>0, <1>1 DEF GenerateBlock, TypeOK
  <2>2. stage' \in [Shards -> {"idle", "ready", "sent", "block", "partition"}]
    BY <1>0, <1>4 DEF TypeOK
  <2>3. r # NoRequest
    <3>1. r.kind = "block" /\ NoRequest.kind = "none"
      BY <1>3 DEF NoRequest
    <3> QED  BY <3>1
  <2>4. \A t \in Shards : request'[t] = NoRequest <=> stage'[t] \in {"idle", "ready", "sent"}
    BY <1>0, <1>5, <1>6, <2>3 DEF TypeOK
  <2> QED  BY <1>0, <1>7, <2>1, <2>2, <2>4
           DEF GenerateBlock, TypeOK, supervisor, chain, seqs, clpaData, network, flags
<1>9. Indexed'
  BY <1>0, <1>4 DEF Indexed, GenerateBlock, seqs, clpaData, network
<1>10. \A t \in Shards : Requested(t)'
  <2>1. UNCHANGED <<balance, PartitionMap, epoch, AccountStateTx, CollectOver>>
    BY DEF GenerateBlock, chain, supervisor, clpaData
  <2>2. r.body = body
    BY <1>3
  <2>3. Requested(s)'
    BY <1>3, <1>5, <2>1, <2>2 DEF Requested
  <2>4. \A t \in Shards \ {s} : Requested(t)'
    BY <1>0, <1>6, <2>1 DEF Requested
  <2> QED  BY <2>3, <2>4
<1>11. \A t \in Shards : stage'[t] \in {"ready", "sent", "partition"} => t \in PartitionOn
  BY <1>5, <1>6, RoundNumbers
<1>12. MapsUnderway' /\ \A t \in Shards : Round(t)'
  BY <1>11, RoundKept DEF GenerateBlock, supervisor, clpaData, chain, network
<1>13. AccountsUnderway'
  <2>1. \A t \in Shards : HasSent(t) => HasSent(t)'
    BY <1>5, <1>6 DEF HasSent, GenerateBlock, supervisor, clpaData
  <2> QED  BY <1>0, <2>1, AccountsKept DEF GenerateBlock, supervisor, clpaData, network
<1> QED  BY <1>8, <1>9, <1>10, <1>12, <1>13 DEF Handshake

\* A shard with a map to apply tells the others.
LEMMA TellHandshake ==
  ASSUME Handshake, NEW s \in Shards, sendPartitionReady(s)
  PROVE  Handshake'
<1>0. TypeOK /\ Indexed /\ AccountsUnderway /\ MapsUnderway /\ \A t \in Shards : Requested(t) /\ Round(t)
  BY DEF Handshake
<1>1. stage' = [stage EXCEPT ![s] = "ready"] /\ stage[s] = "idle" /\ s \in PartitionOn
  BY DEF sendPartitionReady
<1>2. stage'[s] = "ready" /\ \A t \in Shards \ {s} : stage'[t] = stage[t]
  BY <1>0, <1>1 DEF TypeOK
<1>3. AccountMessages' = AccountMessages
  BY DEF AccountMessages, sendPartitionReady
<1>4. readyMsgs' = readyMsgs \cup {[from |-> s, to |-> t, seq |-> sequenceID[s]] : t \in Others(s)}
  BY DEF sendPartitionReady
<1>5. Others(s) \subseteq Shards /\ (\A t \in Others(s) : s \in Others(t)) /\ sequenceID[s] \in Nat
  BY <1>0 DEF Others, TypeOK
<1>6. TypeOK'
  <2>1. stage' \in [Shards -> {"idle", "ready", "sent", "block", "partition"}]
    BY <1>0, <1>1 DEF TypeOK
  <2>2. PartitionReady' \in [Shards -> SUBSET Shards]
    BY <1>0 DEF sendPartitionReady, TypeOK, MarkSelf
  <2>3. readyMsgs' \subseteq [from : Shards, to : Shards, seq : Nat]
    BY <1>0, <1>4, <1>5 DEF TypeOK
  <2>4. \A t \in Shards : request'[t] = NoRequest <=> stage'[t] \in {"idle", "ready", "sent"}
    BY <1>0, <1>1, <1>2 DEF TypeOK, sendPartitionReady
  <2> QED  BY <1>0, <1>3, <2>1, <2>2, <2>3, <2>4
           DEF sendPartitionReady, TypeOK, supervisor, chain, seqs, flags
<1>7. Indexed'
  <2>1. \A m \in readyMsgs' : m.from \in Others(m.to)
    BY <1>0, <1>4, <1>5 DEF Indexed
  <2> QED  BY <1>0, <2>1 DEF Indexed, sendPartitionReady, seqs
<1>8. \A t \in Shards : Requested(t)'
  <2>1. UNCHANGED <<balance, PartitionMap, epoch, AccountStateTx, CollectOver, request>>
    BY DEF sendPartitionReady, chain, supervisor
  <2> QED  BY <1>0, <1>2, <2>1 DEF Requested
<1>9. \A t \in Shards : stage'[t] \in {"ready", "sent", "partition"} => t \in PartitionOn
  BY <1>1, <1>2, RoundNumbers
<1>10. MapsUnderway' /\ \A t \in Shards : Round(t)'
  BY <1>9, RoundKept DEF sendPartitionReady, supervisor, chain
<1>11. AccountsUnderway'
  <2>1. \A t \in Shards : HasSent(t) => HasSent(t)'
    BY <1>1, <1>2 DEF HasSent, sendPartitionReady, supervisor
  <2> QED  BY <1>0, <2>1, AccountsKept DEF sendPartitionReady, supervisor
<1> QED  BY <1>6, <1>7, <1>8, <1>10, <1>11 DEF Handshake

\* The relay of a block to another shard: the transactions of the block that are paid
\* there and were not relayed before, each once, marked as relayed.
LEMMA RelayTxsProperties ==
  ASSUME NEW s, NEW t, NEW body \in Seq(Txs)
  PROVE  /\ RelayTxs(s, body, t) \in Seq(Txs)
         /\ Range(RelayTxs(s, body, t)) = {Tx(tx.line, TRUE) : tx \in PaidIn(s, body, t)}
         /\ IsInjective(body) => IsInjective(RelayTxs(s, body, t))
<1>1. PICK T : T = PaidIn(s, body, t)
  OBVIOUS
<1>2. PICK part \in Seq(Txs) : /\ part = Select(body, T) /\ Range(part) = Range(body) \cap T
                               /\ IsInjective(body) => IsInjective(part)
  BY SelectProperties
<1>3. T \subseteq Range(body) /\ \A tx \in T : tx.relayed = FALSE
  <2>1. \A tx \in Range(body) : tx.relayed \in BOOLEAN
    <3>1. \A i \in DOMAIN body : body[i] \in Txs
      BY ElementOfSeq
    <3> QED  BY <3>1, TxsType DEF Range
  <2> QED  BY <1>1, <2>1 DEF PaidIn
<1>4. /\ Len(part) \in Nat /\ DOMAIN part = 1..Len(part)
      /\ \A i \in 1..Len(part) : part[i] \in Txs /\ part[i] \in T
  <2>1. Len(part) \in Nat /\ DOMAIN part = 1..Len(part) /\ \A i \in 1..Len(part) : part[i] \in Txs
    BY LenProperties, ElementOfSeq
  <2>2. \A i \in 1..Len(part) : part[i] \in Range(part)
    BY <2>1 DEF Range
  <2> QED  BY <1>2, <2>1, <2>2
<1>5. PICK q : q = [i \in 1..Len(part) |-> Tx(part[i].line, TRUE)]
  OBVIOUS
<1>6. RelayTxs(s, body, t) = q
  BY <1>1, <1>2, <1>4, <1>5 DEF RelayTxs
<1>7. q \in Seq(Txs) /\ DOMAIN q = 1..Len(part) /\ \A i \in 1..Len(part) : q[i] = Tx(part[i].line, TRUE)
  <2>1. \A i \in 1..Len(part) : Tx(part[i].line, TRUE) \in Txs
    BY <1>4, TxsType
  <2>2. DOMAIN q = 1..Len(part) /\ \A i \in 1..Len(part) : q[i] = Tx(part[i].line, TRUE)
    BY <1>5
  <2>3. q = [i \in 1..Len(part) |-> q[i]] /\ \A i \in 1..Len(part) : q[i] \in Txs
    BY <1>5, <2>1, <2>2
  <2>4. q \in Seq(Txs)
    BY <1>4, <2>3
  <2> QED  BY <2>2, <2>4
<1>8. Range(q) = {Tx(tx.line, TRUE) : tx \in T}
  <2>1. Range(q) = {Tx(part[i].line, TRUE) : i \in 1..Len(part)}
    BY <1>7 DEF Range
  <2>2. T = {part[i] : i \in 1..Len(part)}
    BY <1>2, <1>3, <1>4 DEF Range
  <2> QED  BY <2>1, <2>2
<1>9. ASSUME IsInjective(part), NEW i \in 1..Len(part), NEW j \in 1..Len(part), q[i] = q[j] PROVE i = j
  <2>1. part[i].line \in Lines /\ part[j].line \in Lines
    BY <1>4, TxsType
  <2>2. part[i].line = part[j].line
    <3>1. Tx(part[i].line, TRUE) = Tx(part[j].line, TRUE)
      BY <1>7, <1>9
    <3>2. Tx(part[i].line, TRUE).line = part[i].line /\ Tx(part[j].line, TRUE).line = part[j].line
      BY <2>1, TxsType
    <3> QED  BY <3>1, <3>2
  <2>3. part[i] = Tx(part[i].line, FALSE) /\ part[j] = Tx(part[j].line, FALSE)
    BY <1>3, <1>4, TxsType
  <2>4. part[i] = part[j]
    BY <2>2, <2>3
  <2> QED  BY <1>4, <1>9, <2>4 DEF IsInjective
<1>10. IsInjective(part) => IsInjective(q)
  BY <1>7, <1>9 DEF IsInjective
<1> QED  BY <1>1, <1>2, <1>6, <1>7, <1>8, <1>10

\* The request of a block in consensus.
LEMMA BlockRequest ==
  ASSUME Handshake, NEW s \in Shards, stage[s] = "block"
  PROVE  /\ request[s].body \in Seq(Txs)
         /\ balance[s] \in Trie(Accounts) /\ request[s].state \in Trie(Accounts)
         /\ request[s].state
              = GetUpdateStatusTrie(balance[s], PartitionMap[s], s, Fields(request[s].body))
         /\ \A a \in Accounts : PartitionMap[s][a] # s => request[s].state[a] = balance[s][a]
<1>1. PICK r, body : /\ r = request[s] /\ body = request[s].body /\ body \in Seq(Txs)
                     /\ r = [kind |-> "block", body |-> body,
                             state |-> GetUpdateStatusTrie(balance[s], PartitionMap[s], s, Fields(body))]
  BY DEF Handshake, Requested
<1>2. r.state = GetUpdateStatusTrie(balance[s], PartitionMap[s], s, Fields(body))
  BY <1>1
<1>3. balance[s] \in Trie(Accounts)
  BY DEF Handshake, TypeOK, Trie
<1>4. PICK st, pm : st \in Trie(Accounts) /\ st = balance[s] /\ pm = PartitionMap[s]
  BY <1>3
<1>5. /\ GetUpdateStatusTrie(st, pm, s, Fields(body)) \in Trie(Accounts)
      /\ \A a \in Accounts : pm[a] # s => GetUpdateStatusTrie(st, pm, s, Fields(body))[a] = st[a]
  BY <1>1, <1>4, BlockState
<1> QED  BY <1>1, <1>2, <1>3, <1>4, <1>5

\* The relay of a block to another shard.
RelayOf(s, body, t) ==
  [from |-> s, to |-> t, seq |-> sequenceID[s], txs |-> RelayTxs(s, body, t)]

\* A block that is committed is fatal, or its transactions are relayed or finished.
LEMMA CommitCases ==
  ASSUME NEW s, commitBlock(s), NEW body, body = request[s].body
  PROVE  \/ /\ \E tx \in Range(body) : PartitionMap[s][Anchor(tx)] # s
            /\ panicked' = panicked \cup {s}
            /\ UNCHANGED <<relays, sequenceID, transit, unbacked, finished>>
         \/ /\ \A tx \in Range(body) : PartitionMap[s][Anchor(tx)] = s
            /\ panicked' = panicked
            /\ relays' = relays \cup {RelayOf(s, body, t) : t \in Others(s)}
            /\ sequenceID' = [sequenceID EXCEPT ![s] = @ + 1]
            /\ transit' = (transit \ LinesOf(Range(body))) \cup LinesOf(Outgoing(s, body))
            /\ unbacked' = unbacked \cup (SkippedLines(s, body) \cap LinesOf(Outgoing(s, body)))
            /\ finished' = finished \cup (LinesOf(Range(body)) \ LinesOf(Outgoing(s, body)))
<1>1. CASE \E tx \in Range(body) : PartitionMap[s][Anchor(tx)] # s
  BY <1>1 DEF commitBlock
<1>2. CASE ~(\E tx \in Range(body) : PartitionMap[s][Anchor(tx)] # s)
  <2>1. /\ \A tx \in Range(body) : PartitionMap[s][Anchor(tx)] = s
        /\ panicked' = panicked
        /\ sequenceID' = [sequenceID EXCEPT ![s] = @ + 1]
    BY <1>2 DEF commitBlock
  <2>2. relays' = relays \cup {RelayOf(s, body, t) : t \in Others(s)}
    BY <1>2 DEF commitBlock, RelayOf
  <2>3. transit' = (transit \ LinesOf(Range(body))) \cup LinesOf(Outgoing(s, body))
    BY <1>2 DEF commitBlock
  <2>4. unbacked' = unbacked \cup (SkippedLines(s, body) \cap LinesOf(Outgoing(s, body)))
    BY <1>2 DEF commitBlock
  <2>5. finished' = finished \cup (LinesOf(Range(body)) \ LinesOf(Outgoing(s, body)))
    BY <1>2 DEF commitBlock
  <2> QED  BY <2>1, <2>2, <2>3, <2>4, <2>5
<1> QED  BY <1>1, <1>2

\* A block is committed.
LEMMA CommitHandshake ==
  ASSUME Handshake, NEW s \in Shards, commitBlock(s)
  PROVE  Handshake'
<1>0. TypeOK /\ Indexed /\ AccountsUnderway /\ MapsUnderway /\ \A t \in Shards : Requested(t) /\ Round(t)
  BY DEF Handshake
<1>1. stage' = [stage EXCEPT ![s] = "idle"] /\ stage[s] = "block"
      /\ request' = [request EXCEPT ![s] = NoRequest] /\ balance' = [balance EXCEPT ![s] = request[s].state]
  BY DEF commitBlock
<1>2. /\ stage'[s] = "idle" /\ request'[s] = NoRequest
      /\ \A t \in Shards \ {s} : /\ stage'[t] = stage[t] /\ request'[t] = request[t]
                                 /\ balance'[t] = balance[t]
  BY <1>0, <1>1 DEF TypeOK, Indexed
<1>3. PICK body \in Seq(Txs) : body = request[s].body
  BY <1>1, BlockRequest
<1>4. AccountMessages' = AccountMessages
  BY DEF AccountMessages, commitBlock, clpaData
<1>5. \A t \in Others(s) : /\ RelayOf(s, body, t).from = s /\ RelayOf(s, body, t).to = t
                           /\ RelayOf(s, body, t) \in [from : Shards, to : Shards, seq : Nat, txs : Seq(Txs)]
  BY <1>0, RelayTxsProperties DEF Others, TypeOK, RelayOf
<1>6. /\ relays' \subseteq [from : Shards, to : Shards, seq : Nat, txs : Seq(Txs)]
      /\ \A m \in relays' : m.from \in Others(m.to)
  <2>1. relays' = relays \/ relays' = relays \cup {RelayOf(s, body, t) : t \in Others(s)}
    BY <1>3, CommitCases
  <2>2. \A t \in Others(s) : s \in Others(t)
    BY DEF Others
  <2>3. PICK N : N = {RelayOf(s, body, t) : t \in Others(s)}
    OBVIOUS
  <2>4. \A m \in N : /\ m \in [from : Shards, to : Shards, seq : Nat, txs : Seq(Txs)]
                    /\ m.from \in Others(m.to)
    BY <1>5, <2>2, <2>3
  <2>5. relays \subseteq [from : Shards, to : Shards, seq : Nat, txs : Seq(Txs)]
    BY <1>0 DEF TypeOK
  <2>6. \A m \in relays : m.from \in Others(m.to)
    BY <1>0 DEF Indexed
  <2>7. \A m \in relays' : m \in relays \/ m \in N
    BY <2>1, <2>3
  <2> QED  BY <2>4, <2>5, <2>6, <2>7
<1>7. sequenceID' \in [Shards -> Nat]
  <2>1. sequenceID' = sequenceID \/ sequenceID' = [sequenceID EXCEPT ![s] = @ + 1]
    BY <1>3, CommitCases
  <2>2. sequenceID \in [Shards -> Nat]
    BY <1>0 DEF TypeOK
  <2>3. sequenceID[s] + 1 \in Nat
    BY <2>2
  <2> QED  BY <2>1, <2>2, <2>3
<1>8. transit' \subseteq Lines /\ unbacked' \subseteq Lines /\ finished' \subseteq Lines
  <2>1. LinesOf(Range(body)) \subseteq Lines /\ LinesOf(Outgoing(s, body)) \subseteq Lines
    <3>1. Range(body) \subseteq Txs
      <4>1. \A i \in DOMAIN body : body[i] \in Txs
        BY ElementOfSeq
      <4> QED  BY <4>1 DEF Range
    <3>2. \A t : PaidIn(s, body, t) \subseteq Range(body)
      BY DEF PaidIn
    <3> QED  BY <3>1, <3>2, TxsType DEF LinesOf, Outgoing
  <2>2. transit \subseteq Lines /\ unbacked \subseteq Lines /\ finished \subseteq Lines
    BY <1>0 DEF TypeOK
  <2> QED  BY <1>3, <2>1, <2>2, CommitCases
<1>9. panicked' \subseteq Shards
  <2>1. panicked' = panicked \/ panicked' = panicked \cup {s}
    BY <1>3, CommitCases
  <2> QED  BY <1>0, <2>1 DEF TypeOK
<1>10. balance' \in [Shards -> [Accounts -> Int]]
  <2>1. request[s].state \in [Accounts -> Int]
    BY <1>1, BlockRequest DEF Trie
  <2> QED  BY <1>0, <1>1, <2>1 DEF TypeOK
<1>11. TypeOK'
  <2>1. stage' \in [Shards -> {"idle", "ready", "sent", "block", "partition"}]
    BY <1>0, <1>1 DEF TypeOK
  <2>2. \A t \in Shards : request'[t] = NoRequest <=> stage'[t] \in {"idle", "ready", "sent"}
    BY <1>0, <1>2 DEF TypeOK
  <2> QED  BY <1>0, <1>4, <1>6, <1>7, <1>8, <1>9, <1>10, <2>1, <2>2
           DEF commitBlock, TypeOK, supervisor, clpaData
<1>12. Indexed'
  BY <1>0, <1>1, <1>6 DEF Indexed, commitBlock, clpaData
<1>13. \A t \in Shards : Requested(t)'
  <2>1. UNCHANGED <<PartitionMap, epoch, AccountStateTx, CollectOver>>
    BY DEF commitBlock, supervisor, clpaData
  <2> QED  BY <1>0, <1>2, <2>1 DEF Requested
<1>14. \A t \in Shards : stage'[t] \in {"ready", "sent", "partition"} => t \in PartitionOn
  BY <1>2, RoundNumbers
<1>15. MapsUnderway' /\ \A t \in Shards : Round(t)'
  BY <1>14, RoundKept DEF commitBlock, supervisor, clpaData
<1>16. AccountsUnderway'
  <2>1. \A t \in Shards : HasSent(t) => HasSent(t)'
    BY <1>1, <1>2 DEF HasSent, commitBlock, supervisor, clpaData
  <2> QED  BY <1>0, <2>1, AccountsKept DEF commitBlock, supervisor, clpaData
<1> QED  BY <1>11, <1>12, <1>13, <1>15, <1>16 DEF Handshake

\* The accounts and transactions that s sends to t.
AccountMessage(s, t) ==
  [from |-> s, to |-> t, accounts |-> [a \in Moving(s, t) |-> balance[s][a]],
   txs |-> Select(pool[s], Going(s, t))]

\* They are those that the last map moves from s to t.
LEMMA AccountMessageFacts ==
  ASSUME Handshake, NEW s \in Shards, s \in PartitionOn, NEW t \in Others(s)
  PROVE  /\ AccountMessage(s, t).from = s /\ AccountMessage(s, t).to = t
         /\ DOMAIN AccountMessage(s, t).accounts = Leaving(s, t)
         /\ AccountMessage(s, t).accounts \in [Leaving(s, t) -> Int]
         /\ \A a \in Leaving(s, t) : AccountMessage(s, t).accounts[a] = balance[s][a]
         /\ AccountMessage(s, t).txs = Select(pool[s], Going(s, t))
         /\ AccountMessage(s, t).txs \in Seq(Txs)
         /\ Range(AccountMessage(s, t).txs) = Going(s, t)
         /\ Going(s, t) = {tx \in Range(pool[s]) : Anchor(tx) \in Leaving(s, t)}
<1>1. PICK A, m : A = Leaving(s, t) /\ m = AccountMessage(s, t)
  OBVIOUS
<1>2. Moving(s, t) = A
  BY <1>1, MovingFacts
<1>3. m = [from |-> s, to |-> t, accounts |-> [a \in A |-> balance[s][a]],
           txs |-> Select(pool[s], Going(s, t))]
  BY <1>1, <1>2 DEF AccountMessage
<1>4. A \subseteq Accounts
  BY <1>1 DEF Leaving
<1>5. balance[s] \in [Accounts -> Int] /\ pool[s] \in Seq(Txs)
  BY DEF Handshake, TypeOK
<1>6. m.accounts = [a \in A |-> balance[s][a]]
  BY <1>3
<1>7. Going(s, t) = {tx \in Range(pool[s]) : Anchor(tx) \in A}
  BY <1>2 DEF Going, MovesWith
<1>8. PICK q, T : q \in Seq(Txs) /\ q = pool[s] /\ T = Going(s, t)
  BY <1>5
<1>9. Select(q, T) \in Seq(Txs) /\ Range(Select(q, T)) = Range(q) \cap T
  BY <1>8, SelectProperties
<1>10. Range(q) \cap T = T
  BY <1>7, <1>8
<1> QED  BY <1>1, <1>3, <1>4, <1>5, <1>6, <1>7, <1>8, <1>9, <1>10

\* What a shard that sends its accounts does to messages and to its pool.
LEMMA SendFacts ==
  ASSUME Handshake, NEW s \in Shards, sendAccounts_and_Txs(s)
  PROVE  /\ stage[s] = "ready" /\ s \in PartitionOn /\ ~HasSent(s)
         /\ stage'[s] = "sent" /\ \A t \in Shards \ {s} : stage'[t] = stage[t]
         /\ accountMsgs' = accountMsgs \cup {AccountMessage(s, t) : t \in Others(s)}
         /\ AccountMessages' = AccountMessages \cup {AccountMessage(s, t) : t \in Others(s)}
         /\ pool' = [pool EXCEPT ![s] =
              Select(pool[s], Range(pool[s]) \ UNION {Going(s, t) : t \in Others(s)})]
         /\ UNCHANGED <<epoch, AccountTransferRound, AccountStateTx, CollectOver>>
<1>1. stage[s] = "ready" /\ stage' = [stage EXCEPT ![s] = "sent"]
  BY DEF sendAccounts_and_Txs
<1>2. s \in PartitionOn /\ ~HasSent(s)
  BY <1>1, RoundNumbers DEF HasSent
<1>3. stage'[s] = "sent" /\ \A t \in Shards \ {s} : stage'[t] = stage[t]
  BY <1>1 DEF Handshake, TypeOK
<1>4. accountMsgs' = accountMsgs \cup {AccountMessage(s, t) : t \in Others(s)}
  BY DEF sendAccounts_and_Txs, AccountMessage
<1>5. UNCHANGED <<epoch, AccountTransferRound, AccountStateTx, CollectOver>>
  BY DEF sendAccounts_and_Txs, supervisor, clpaData
<1>6. AccountMessages' = AccountMessages \cup {AccountMessage(s, t) : t \in Others(s)}
  BY <1>4, <1>5 DEF AccountMessages
<1>7. pool' = [pool EXCEPT ![s] =
         Select(pool[s], Range(pool[s]) \ UNION {Going(s, t) : t \in Others(s)})]
  BY DEF sendAccounts_and_Txs
<1> QED  BY <1>1, <1>2, <1>3, <1>4, <1>5, <1>6, <1>7

\* A shard sends its accounts when no other has carried out the map yet.
LEMMA SendHandshake ==
  ASSUME Handshake, NEW s \in Shards, sendAccounts_and_Txs(s)
  PROVE  Handshake'
<1>0. TypeOK /\ Indexed /\ AccountsUnderway /\ MapsUnderway /\ \A t \in Shards : Requested(t) /\ Round(t)
  BY DEF Handshake
<1>1. /\ stage[s] = "ready" /\ s \in PartitionOn /\ ~HasSent(s)
      /\ stage'[s] = "sent" /\ \A t \in Shards \ {s} : stage'[t] = stage[t]
      /\ accountMsgs' = accountMsgs \cup {AccountMessage(s, t) : t \in Others(s)}
      /\ AccountMessages' = AccountMessages \cup {AccountMessage(s, t) : t \in Others(s)}
      /\ UNCHANGED <<epoch, AccountTransferRound, AccountStateTx, CollectOver>>
  BY SendFacts
<1>2. \A t \in Others(s) :
        /\ AccountMessage(s, t).from = s /\ AccountMessage(s, t).to = t
        /\ DOMAIN AccountMessage(s, t).accounts = Leaving(s, t)
        /\ AccountMessage(s, t).accounts \in [Leaving(s, t) -> Int]
        /\ AccountMessage(s, t).txs \in Seq(Txs)
        /\ \A tx \in Range(AccountMessage(s, t).txs) : Anchor(tx) \in Leaving(s, t)
  BY <1>1, AccountMessageFacts
<1>3. \A t \in Others(s) : t \in Shards /\ t # s /\ Leaving(s, t) \subseteq Accounts
  BY DEF Others, Leaving
<1>4. TypeOK'
  <2>1. stage' \in [Shards -> {"idle", "ready", "sent", "block", "partition"}]
    BY <1>0 DEF TypeOK, sendAccounts_and_Txs
  <2>2. pool' \in [Shards -> Seq(Txs)]
    <3>1. PICK q, T : /\ q \in Seq(Txs) /\ q = pool[s]
                      /\ T = Range(pool[s]) \ UNION {Going(s, t) : t \in Others(s)}
      BY <1>0 DEF TypeOK
    <3>2. Select(q, T) \in Seq(Txs)
      BY <3>1, SelectProperties
    <3>3. pool' = [pool EXCEPT ![s] = Select(q, T)]
      BY <3>1, SendFacts
    <3> QED  BY <1>0, <3>2, <3>3 DEF TypeOK
  <2>3. \A t \in Shards : request'[t] = NoRequest <=> stage'[t] \in {"idle", "ready", "sent"}
    BY <1>0, <1>1 DEF TypeOK, sendAccounts_and_Txs
  <2>4. \A m \in AccountMessages' :
          /\ m.from \in Shards /\ m.to \in Shards /\ m.txs \in Seq(Txs)
          /\ DOMAIN m.accounts \subseteq Accounts /\ m.accounts \in [DOMAIN m.accounts -> Int]
    <3>1. \A m \in AccountMessages :
            /\ m.from \in Shards /\ m.to \in Shards /\ m.txs \in Seq(Txs)
            /\ DOMAIN m.accounts \subseteq Accounts /\ m.accounts \in [DOMAIN m.accounts -> Int]
      BY <1>0 DEF TypeOK
    <3> QED  BY <1>1, <1>2, <1>3, <3>1
  <2> QED  BY <1>0, <2>1, <2>2, <2>3, <2>4
           DEF sendAccounts_and_Txs, TypeOK, supervisor, chain, seqs, clpaData, flags
<1>5. Indexed'
  BY <1>0 DEF Indexed, sendAccounts_and_Txs, seqs, clpaData
<1>6. \A t \in Shards : Requested(t)'
  <2>1. UNCHANGED <<balance, PartitionMap, epoch, AccountStateTx, CollectOver, request>>
    BY DEF sendAccounts_and_Txs, chain, supervisor, clpaData
  <2> QED  BY <1>0, <1>1, <2>1 DEF Requested
<1>7. \A t \in Shards : stage'[t] \in {"ready", "sent", "partition"} => t \in PartitionOn
  BY <1>1, RoundNumbers
<1>8. MapsUnderway' /\ \A t \in Shards : Round(t)'
  BY <1>7, RoundKept DEF sendAccounts_and_Txs, supervisor, chain, clpaData
<1>9. AccountsUnderway'
  <2>1. \A t \in Shards : HasSent(t) => HasSent(t)'
    BY <1>1 DEF HasSent
  <2>2. HasSent(s)'
    BY <1>1 DEF HasSent
  <2>3. \A u, t : Leaving(u, t)' = Leaving(u, t)
    BY <1>1 DEF Leaving, Owners, UpdatedUpTo
  <2>4. \A m \in AccountMessages : m.from # s /\ m.from \in Shards
    BY <1>0, <1>1 DEF AccountsUnderway, TypeOK
  <2>5. \A t \in Others(s) : AccountTransferRound[t] + 1 = epoch
    <3>1. \A t \in Shards : AccountTransferRound[t] # epoch
      BY <1>0, <1>1 DEF AccountsUnderway
    <3> QED  BY <1>3, <3>1, RoundNumbers
  <2>6. \A m \in AccountMessages' :
          /\ m.from # m.to /\ AccountTransferRound'[m.to] + 1 = epoch' /\ HasSent(m.from)'
          /\ DOMAIN m.accounts = Leaving(m.from, m.to)'
          /\ \A tx \in Range(m.txs) : Anchor(tx) \in DOMAIN m.accounts
    <3>1. \A m \in AccountMessages :
            /\ m.from # m.to /\ AccountTransferRound'[m.to] + 1 = epoch' /\ HasSent(m.from)'
            /\ DOMAIN m.accounts = Leaving(m.from, m.to)'
            /\ \A tx \in Range(m.txs) : Anchor(tx) \in DOMAIN m.accounts
      BY <1>0, <1>1, <2>1, <2>3, <2>4 DEF AccountsUnderway
    <3>2. ASSUME NEW t \in Others(s), NEW m, m = AccountMessage(s, t)
          PROVE  /\ m.from # m.to /\ AccountTransferRound'[m.to] + 1 = epoch' /\ HasSent(m.from)'
                 /\ DOMAIN m.accounts = Leaving(m.from, m.to)'
                 /\ \A tx \in Range(m.txs) : Anchor(tx) \in DOMAIN m.accounts
      <4>1. m.from = s /\ m.to = t /\ t # s
        BY <1>2, <1>3, <3>2
      <4> QED  BY <1>1, <1>2, <2>2, <2>3, <2>5, <3>2, <4>1
    <3> QED  BY <1>1, <3>1, <3>2
  <2>7. ASSUME NEW m \in AccountMessages', NEW n \in AccountMessages', n.from = m.from, n.to = m.to
        PROVE  n = m
    <3>1. CASE m \in AccountMessages
      <4>1. n \in AccountMessages
        BY <1>1, <1>2, <2>4, <2>7, <3>1
      <4> QED  BY <1>0, <2>7, <3>1, <4>1 DEF AccountsUnderway
    <3>2. CASE m \notin AccountMessages
      <4>1. PICK t \in Others(s) : m = AccountMessage(s, t)
        BY <1>1, <3>2
      <4>2. n \notin AccountMessages
        BY <1>2, <2>4, <2>7, <4>1
      <4>3. PICK u \in Others(s) : n = AccountMessage(s, u)
        BY <1>1, <4>2
      <4> QED  BY <1>2, <2>7, <4>1, <4>3
    <3> QED  BY <3>1, <3>2
  <2>8. \A t \in Shards : accountMsgs' \cap AccountStateTx'[t] = {}
    <3>1. \A t \in Shards : AccountStateTx[t] \subseteq AccountMessages
      BY DEF AccountMessages
    <3>2. \A t \in Others(s) : AccountMessage(s, t) \notin AccountMessages
      BY <1>2, <2>4
    <3> QED  BY <1>0, <1>1, <3>1, <3>2 DEF AccountsUnderway
  <2> QED  BY <1>0, <1>1, <2>1, <2>6, <2>7, <2>8 DEF AccountsUnderway
<1> QED  BY <1>4, <1>5, <1>6, <1>8, <1>9 DEF Handshake

\* A function that repeats nothing, between sets of the same size, reaches everything.
LEMMA EqualSizes ==
  ASSUME NEW C, IsFiniteSet(C), NEW D, IsFiniteSet(D), Cardinality(C) = Cardinality(D),
         NEW f, \A c \in C : f[c] \in D, \A c, d \in C : f[c] = f[d] => c = d
  PROVE  \A d \in D : \E c \in C : f[c] = d
<1>1. PICK g : g = [c \in C |-> f[c]]
  OBVIOUS
<1>2. g \in [C -> D] /\ \A c \in C : g[c] = f[c]
  BY <1>1
<1>3. g \in Injection(C, D)
  BY <1>2 DEF Injection, IsInjective
<1>4. g \in Surjection(C, D)
  BY <1>3, FS_Injection
<1> QED  BY <1>2, <1>4 DEF Surjection

\* The accounts of a shard arrive at another that has not those of all shards yet.
LEMMA CollectFacts ==
  ASSUME Handshake, NEW m \in accountMsgs, handleAccountStateAndTxMsg(m)
  PROVE  /\ m \in AccountMessages /\ m.to \in Shards /\ m.from \in Others(m.to)
         /\ m.to \notin CollectOver /\ stage[m.to] # "partition" /\ m \notin AccountStateTx[m.to]
         /\ AccountStateTx' = [AccountStateTx EXCEPT ![m.to] = AccountStateTx[m.to] \cup {m}]
         /\ accountMsgs' = accountMsgs \ {m}
         /\ AccountMessages' = AccountMessages
         /\ CollectOver' = IF Cardinality(AccountStateTx[m.to] \cup {m}) = Cardinality(Shards) - 1
                             THEN CollectOver \cup {m.to} ELSE CollectOver
         /\ UNCHANGED <<epoch, sent, stage, request, pool, balance, PartitionMap, transit, unbacked,
                        finished, sequenceID, seqIDMap, PartitionOn, ModifiedMap,
                        AccountTransferRound, PartitionReady, ReadySeq, mapMsgs, injects, relays,
                        readyMsgs, panicked, late, overtaken>>
<1>0. TypeOK /\ Indexed /\ AccountsUnderway /\ \A t \in Shards : Requested(t)
  BY DEF Handshake
<1>1. m \in AccountMessages /\ \A t \in Shards : AccountStateTx[t] \subseteq AccountMessages
  BY DEF AccountMessages
<1>2. m.to \in Shards /\ m.from \in Others(m.to)
  BY <1>0, <1>1 DEF TypeOK, AccountsUnderway, Others
<1>3. \A c \in AccountStateTx[m.to] : c.from # m.from
  <2>1. \A c \in AccountStateTx[m.to] : c.to = m.to /\ c \in AccountMessages /\ c # m
    BY <1>0, <1>1, <1>2 DEF AccountsUnderway
  <2> QED  BY <1>0, <1>1, <2>1 DEF AccountsUnderway
<1>4. m.to \notin CollectOver
  BY <1>0, <1>2, <1>3 DEF AccountsUnderway
<1>5. stage[m.to] # "partition"
  BY <1>0, <1>2, <1>4 DEF Requested
<1>6. {c \in AccountStateTx[m.to] : c.from # m.from} \cup {m} = AccountStateTx[m.to] \cup {m}
  BY <1>3
<1>7. /\ AccountStateTx' = [AccountStateTx EXCEPT ![m.to] = AccountStateTx[m.to] \cup {m}]
      /\ accountMsgs' = accountMsgs \ {m}
  BY <1>6 DEF handleAccountStateAndTxMsg
<1>8. CollectOver' = IF Cardinality(AccountStateTx[m.to] \cup {m}) = Cardinality(Shards) - 1
                       THEN CollectOver \cup {m.to} ELSE CollectOver
  BY <1>6 DEF handleAccountStateAndTxMsg
<1>9. AccountMessages' = AccountMessages
  <2>1. DOMAIN AccountStateTx = Shards
    BY <1>0 DEF Indexed
  <2>2. /\ AccountStateTx'[m.to] = AccountStateTx[m.to] \cup {m}
        /\ \A t \in Shards \ {m.to} : AccountStateTx'[t] = AccountStateTx[t]
    BY <1>2, <1>7, <2>1
  <2>3. \A x : x \in AccountMessages <=> x \in accountMsgs \/ \E t \in Shards : x \in AccountStateTx[t]
    BY DEF AccountMessages
  <2>4. \A x : x \in AccountMessages' <=> x \in accountMsgs' \/ \E t \in Shards : x \in AccountStateTx'[t]
    BY DEF AccountMessages
  <2>5. ASSUME NEW x PROVE x \in AccountMessages' <=> x \in AccountMessages
    <3>1. CASE x = m
      BY <1>1, <1>2, <2>2, <2>4, <3>1
    <3>2. CASE x # m
      <4>1. \A t \in Shards : x \in AccountStateTx'[t] <=> x \in AccountStateTx[t]
        BY <2>2, <3>2
      <4>2. x \in accountMsgs' <=> x \in accountMsgs
        BY <1>7, <3>2
      <4> QED  BY <2>3, <2>4, <4>1, <4>2
    <3> QED  BY <3>1, <3>2
  <2> QED  BY <2>5
<1>10. UNCHANGED <<epoch, sent, stage, request, pool, balance, PartitionMap, transit, unbacked,
                   finished, sequenceID, seqIDMap, PartitionOn, ModifiedMap,
                   AccountTransferRound, PartitionReady, ReadySeq, mapMsgs, injects, relays,
                   readyMsgs, panicked, late, overtaken>>
  BY DEF handleAccountStateAndTxMsg, supervisor, chain, seqs, flags
<1>11. m \notin AccountStateTx[m.to]
  BY <1>0, <1>2 DEF AccountsUnderway
<1> QED  BY <1>1, <1>2, <1>4, <1>5, <1>7, <1>8, <1>9, <1>10, <1>11

\* A shard that has as many messages as there are other shards has one of each.
LEMMA CollectHandshake ==
  ASSUME Handshake, NEW m \in accountMsgs, handleAccountStateAndTxMsg(m)
  PROVE  Handshake'
<1>0. TypeOK /\ Indexed /\ AccountsUnderway /\ MapsUnderway /\ \A t \in Shards : Requested(t) /\ Round(t)
  BY DEF Handshake
<1>1. /\ m \in AccountMessages /\ m.to \in Shards /\ m.from \in Others(m.to)
      /\ m.to \notin CollectOver /\ stage[m.to] # "partition"
      /\ AccountStateTx' = [AccountStateTx EXCEPT ![m.to] = AccountStateTx[m.to] \cup {m}]
      /\ accountMsgs' = accountMsgs \ {m}
      /\ AccountMessages' = AccountMessages
      /\ CollectOver' = IF Cardinality(AccountStateTx[m.to] \cup {m}) = Cardinality(Shards) - 1
                          THEN CollectOver \cup {m.to} ELSE CollectOver
  BY CollectFacts
<1>2. UNCHANGED <<epoch, sent, stage, request, pool, balance, PartitionMap, transit, unbacked,
                  finished, sequenceID, seqIDMap, PartitionOn, ModifiedMap,
                  AccountTransferRound, PartitionReady, ReadySeq, mapMsgs, injects, relays,
                  readyMsgs, panicked, late, overtaken>>
  BY CollectFacts
<1>3. /\ AccountStateTx'[m.to] = AccountStateTx[m.to] \cup {m}
      /\ \A t \in Shards \ {m.to} : AccountStateTx'[t] = AccountStateTx[t]
      /\ DOMAIN AccountStateTx' = Shards
  BY <1>0, <1>1 DEF Indexed
<1>4. TypeOK'
  BY <1>0, <1>1, <1>2 DEF TypeOK
<1>5. Indexed'
  BY <1>0, <1>2, <1>3 DEF Indexed
<1>6. \A t \in Shards : Requested(t)'
  <2>1. \A t \in Shards : stage[t] = "partition" => t # m.to
    BY <1>1
  <2>2. \A t \in Shards : t \in CollectOver => t \in CollectOver'
    BY <1>1
  <2>3. ASSUME NEW t \in Shards, stage[t] = "partition" PROVE AccountStateTx'[t] = AccountStateTx[t]
    BY <1>3, <2>1, <2>3
  <2> QED  BY <1>0, <1>2, <2>2, <2>3 DEF Requested
<1>7. \A t \in Shards : stage'[t] \in {"ready", "sent", "partition"} => t \in PartitionOn
  BY <1>2, RoundNumbers
<1>8. MapsUnderway' /\ \A t \in Shards : Round(t)'
  BY <1>2, <1>7, RoundKept
<1>9. AccountsUnderway'
  <2>1. \A t \in Shards : IsFiniteSet(AccountStateTx'[t]) /\ \A c \in AccountStateTx'[t] : c.to = t
    <3>1. IsFiniteSet(AccountStateTx[m.to] \cup {m})
      <4>1. PICK T : T = AccountStateTx[m.to] /\ IsFiniteSet(T)
        BY <1>0, <1>1 DEF AccountsUnderway
      <4> QED  BY <4>1, FS_AddElement
    <3>2. \A t \in Shards : IsFiniteSet(AccountStateTx[t]) /\ \A c \in AccountStateTx[t] : c.to = t
      BY <1>0 DEF AccountsUnderway
    <3>3. ASSUME NEW t \in Shards
          PROVE  IsFiniteSet(AccountStateTx'[t]) /\ \A c \in AccountStateTx'[t] : c.to = t
      <4>1. CASE t = m.to
        BY <1>3, <3>1, <3>2, <4>1
      <4>2. CASE t # m.to
        BY <1>3, <3>2, <4>2
      <4> QED  BY <4>1, <4>2
    <3> QED  BY <3>3
  <2>2. \A s : HasSent(s)' = HasSent(s)
    BY <1>2 DEF HasSent
  <2>3. \A s, t : Leaving(s, t)' = Leaving(s, t)
    BY <1>2 DEF Leaving, Owners, UpdatedUpTo
  <2>4. \A t \in Shards : accountMsgs' \cap AccountStateTx'[t] = {}
    <3>1. \A t \in Shards : accountMsgs \cap AccountStateTx[t] = {}
      BY <1>0 DEF AccountsUnderway
    <3> QED  BY <1>1, <1>3, <3>1
  <2>5. ASSUME NEW t \in CollectOver', NEW s \in Others(t)
        PROVE  \E c \in AccountStateTx'[t] : c.from = s
    <3>1. CASE t \in CollectOver
      <4>1. t \in Shards /\ t # m.to
        BY <1>0, <1>1, <3>1 DEF TypeOK
      <4> QED  BY <1>0, <1>3, <3>1, <4>1 DEF AccountsUnderway
    <3>2. CASE t \notin CollectOver
      <4>1. t = m.to /\ Cardinality(AccountStateTx'[t]) = Cardinality(Shards) - 1
        BY <1>1, <1>3, <3>2
      <4>2. PICK C : C = AccountStateTx'[t]
        OBVIOUS
      <4>3. PICK f : f = [c \in C |-> c.from]
        OBVIOUS
      <4>4. IsFiniteSet(C) /\ \A c \in C : f[c] = c.from /\ c.to = t /\ c \in AccountMessages
        <5>1. t \in Shards
          BY <1>1, <4>1
        <5>2. C \subseteq AccountMessages'
          BY <4>2, <5>1 DEF AccountMessages
        <5> QED  BY <1>1, <2>1, <4>2, <4>3, <5>1, <5>2
      <4>5. \A c \in C : f[c] \in Others(t)
        <5>1. \A c \in AccountMessages : c.from \in Shards /\ c.from # c.to
          BY <1>0 DEF TypeOK, AccountsUnderway
        <5> QED  BY <4>4, <5>1 DEF Others
      <4>6. \A c, d \in C : f[c] = f[d] => c = d
        <5>1. \A c, d \in AccountMessages : c.from = d.from /\ c.to = d.to => c = d
          BY <1>0 DEF AccountsUnderway
        <5> QED  BY <4>4, <5>1
      <4>7. PICK D : D = Others(t)
        OBVIOUS
      <4>8. IsFiniteSet(D) /\ Cardinality(C) = Cardinality(D)
        <5>1. IsFiniteSet(Shards) /\ t \in Shards
          BY <1>1, <4>1, ShardingAssumption
        <5>2. IsFiniteSet(Shards \ {t}) /\ Cardinality(Shards \ {t}) = Cardinality(Shards) - 1
          BY <5>1, FS_RemoveElement
        <5> QED  BY <4>1, <4>2, <4>7, <5>2 DEF Others
      <4>9. \A d \in D : \E c \in C : f[c] = d
        <5>1. IsFiniteSet(C) /\ \A c \in C : f[c] \in D
          BY <4>4, <4>5, <4>7
        <5> QED  BY <4>6, <4>8, <5>1, EqualSizes
      <4> QED  BY <4>2, <4>4, <4>7, <4>9
    <3> QED  BY <3>1, <3>2
  <2>6. \A c \in AccountMessages :
          /\ c.from # c.to /\ AccountTransferRound'[c.to] + 1 = epoch' /\ HasSent(c.from)'
          /\ DOMAIN c.accounts = Leaving(c.from, c.to)'
          /\ \A tx \in Range(c.txs) : Anchor(tx) \in DOMAIN c.accounts
          /\ \A n \in AccountMessages : n.from = c.from /\ n.to = c.to => n = c
    BY <1>0, <1>2, <2>2, <2>3 DEF AccountsUnderway
  <2>7. \A s, t \in Shards : AccountTransferRound'[t] = epoch' => HasSent(s)'
    BY <1>0, <1>2, <2>2 DEF AccountsUnderway
  <2> QED  BY <1>1, <2>1, <2>4, <2>5, <2>6, <2>7 DEF AccountsUnderway
<1> QED  BY <1>4, <1>5, <1>6, <1>8, <1>9 DEF Handshake

\* What ReceivedNewTx has collected after each message.
ReceivesBy(f, S, order) ==
  /\ f \in [0..Len(order) -> Seq(S)]
  /\ f[0] = <<>> /\ ReceivedNewTx(order) = f[Len(order)]
  /\ \A i \in 1..Len(order) : f[i] = f[i - 1] \o order[i].txs

\* ReceivedNewTx looks at one message after the other.
LEMMA ReceivedSteps ==
  ASSUME NEW S, NEW order, Len(order) \in Nat, \A i \in 1..Len(order) : order[i].txs \in Seq(S)
  PROVE  \E f : ReceivesBy(f, S, order)
<1> DEFINE Eq(g) == g = [i \in 0..Len(order) |-> IF i = 0 THEN <<>> ELSE g[i - 1] \o order[i].txs]
<1>1. PICK n \in Nat : n = Len(order)
  OBVIOUS
<1>2. PICK B, c : B = Seq(S) /\ c = <<>>
  OBVIOUS
<1>3. \A b \in B : \A i \in 1..n : b \o order[i].txs \in B
  BY <1>1, <1>2, ConcatProperties
<1>4. PICK step \in Steps(B, n) : \A b \in B : \A i \in 1..n : step[i][b] = b \o order[i].txs
  <2> DEFINE e == [i \in 1..n |-> [b \in B |-> b \o order[i].txs]]
  <2>1. e \in Steps(B, n)
    BY <1>3 DEF Steps
  <2>2. \A b \in B : \A i \in 1..n : e[i][b] = b \o order[i].txs
    OBVIOUS
  <2> HIDE DEF e
  <2> QED  BY <2>1, <2>2
<1>5. c \in B
  BY <1>2, EmptySeq
<1>6. \E f : Follows(f, B, c, n, step)
  BY <1>5, RecursionExists
<1>7. PICK f \in [0..n -> B] : f[0] = c /\ \A i \in 1..n : f[i] = step[i][f[i - 1]]
  BY <1>6 DEF Follows
<1>8. \A i \in 1..n : f[i - 1] \in B
  <2>1. \A i \in 1..n : i - 1 \in 0..n
    OBVIOUS
  <2> QED  BY <2>1
<1>9. \A i \in 1..n : f[i] = f[i - 1] \o order[i].txs
  BY <1>4, <1>7, <1>8
<1> DEFINE F == CHOOSE g : Eq(g)
<1>10. Eq(f)
  <2>1. f = [i \in 0..n |-> f[i]]
    OBVIOUS
  <2>2. f[0] = <<>>
    BY <1>2, <1>7
  <2>3. ASSUME NEW i \in 0..n
        PROVE  f[i] = IF i = 0 THEN <<>> ELSE f[i - 1] \o order[i].txs
    <3>1. CASE i = 0
      BY <2>2, <3>1
    <3>2. CASE i # 0
      <4>1. i \in 1..n
        BY <3>2
      <4> QED  BY <1>9, <3>2, <4>1, Zenon
    <3> QED  BY <3>1, <3>2
  <2>4. f = [i \in 0..n |-> IF i = 0 THEN <<>> ELSE f[i - 1] \o order[i].txs]
    BY <2>1, <2>3, Zenon
  <2> QED  BY <1>1, <2>4
<1>11. Eq(F)
  <2>1. F = CHOOSE g : Eq(g)
    OBVIOUS
  <2> HIDE DEF Eq, F
  <2> QED  BY <1>10, <2>1
<1>12. ReceivedNewTx(order) = F[Len(order)]
  BY DEF ReceivedNewTx
<1> HIDE DEF F
<1>13. /\ F[0] = <<>> /\ F = [i \in 0..n |-> F[i]]
       /\ \A i \in 1..n : F[i] = F[i - 1] \o order[i].txs
  <2>1. F = [i \in 0..n |-> IF i = 0 THEN <<>> ELSE F[i - 1] \o order[i].txs]
    BY <1>1, <1>11
  <2> HIDE DEF Eq
  <2>2. F[0] = <<>> /\ F = [i \in 0..n |-> F[i]]
    BY <2>1
  <2>3. ASSUME NEW i \in 1..n PROVE F[i] = F[i - 1] \o order[i].txs
    <3>1. i \in 0..n /\ i # 0
      OBVIOUS
    <3> QED  BY <2>1, <3>1, Zenon
  <2> QED  BY <2>2, <2>3
<1>14. \A i \in 0..n : F[i] \in B
  <2>1. ASSUME NEW i \in 1..n, F[i - 1] \in B PROVE F[i] \in B
    BY <1>3, <1>13, <2>1
  <2>2. F[0] \in B
    BY <1>2, <1>5, <1>13
  <2> QED  BY <2>1, <2>2, StepsStay
<1>15. F \in [0..n -> Seq(S)]
  BY <1>2, <1>13, <1>14
<1>16. ReceivesBy(F, S, order)
  BY <1>1, <1>12, <1>13, <1>15 DEF ReceivesBy
<1> QED  BY <1>16

\* ReceivedNewTx gives the transactions of the messages, and repeats none if none is
\* twice in a message or in two of them.
LEMMA ReceivedProperties ==
  ASSUME NEW S, NEW order, Len(order) \in Nat, \A i \in 1..Len(order) : order[i].txs \in Seq(S)
  PROVE  /\ ReceivedNewTx(order) \in Seq(S)
         /\ Range(ReceivedNewTx(order)) = UNION {Range(order[i].txs) : i \in 1..Len(order)}
         /\ (\A i \in 1..Len(order) :
               /\ IsInjective(order[i].txs)
               /\ \A j \in 1..Len(order) : i # j => Range(order[i].txs) \cap Range(order[j].txs) = {})
              => IsInjective(ReceivedNewTx(order))
<1>1. PICK n \in Nat : n = Len(order)
  OBVIOUS
<1>2. PICK f : ReceivesBy(f, S, order)
  BY ReceivedSteps
<1>3. /\ f \in [0..n -> Seq(S)] /\ f[0] = <<>> /\ ReceivedNewTx(order) = f[n]
      /\ \A i \in 1..n : f[i] = f[i - 1] \o order[i].txs
  BY <1>1, <1>2 DEF ReceivesBy
<1> DEFINE Single == \A i \in 1..n :
             /\ IsInjective(order[i].txs)
             /\ \A j \in 1..n : i # j => Range(order[i].txs) \cap Range(order[j].txs) = {}
           Good(i) == /\ \A x : x \in Range(f[i]) <=> \E j \in 1..i : x \in Range(order[j].txs)
                      /\ Single => IsInjective(f[i])
           P == {i \in Nat : i <= n => Good(i)}
<1>4. 0 \in P
  <2>1. Range(f[0]) = {} /\ IsInjective(f[0])
    BY <1>3 DEF Range, IsInjective
  <2>2. Good(0)
    BY <2>1
  <2> HIDE DEF Good
  <2> QED  BY <2>2
<1>5. ASSUME NEW i \in Nat, i <= n => Good(i), i + 1 <= n PROVE Good(i + 1)
  <2>1. i + 1 \in 1..n /\ i \in 0..n /\ (i + 1) - 1 = i
    BY <1>5
  <2>2. PICK p \in Seq(S), q \in Seq(S) : p = f[i] /\ q = order[i + 1].txs
    BY <1>1, <1>3, <2>1
  <2>3. f[i + 1] = p \o q
    BY <1>3, <2>1, <2>2
  <2>4. Range(p \o q) = Range(p) \cup Range(q)
    BY ConcatRange
  <2>5. /\ \A x : x \in Range(p) <=> \E j \in 1..i : x \in Range(order[j].txs)
        /\ Single => IsInjective(p)
    <3> HIDE DEF Good
    <3>1. Good(i)
      BY <1>5, <2>1
    <3> QED  BY <2>2, <3>1 DEF Good
  <2>6. \A j : j \in 1..(i + 1) <=> j \in 1..i \/ j = i + 1
    OBVIOUS
  <2>7. \A x : x \in Range(f[i + 1]) <=> \E j \in 1..(i + 1) : x \in Range(order[j].txs)
    BY <2>2, <2>3, <2>4, <2>5, <2>6
  <2>8. ASSUME Single PROVE IsInjective(p \o q)
    <3>1. \A j \in 1..i : j \in 1..n /\ j # i + 1
      BY <2>1
    <3>2. Range(p) \cap Range(q) = {}
      BY <2>1, <2>2, <2>5, <2>8, <3>1
    <3>3. IsInjective(q) /\ IsInjective(p)
      BY <2>1, <2>2, <2>5, <2>8
    <3> QED  BY <3>2, <3>3, ConcatInjective
  <2> QED  BY <2>3, <2>7, <2>8
<1>6. Good(n)
  <2> HIDE DEF Good
  <2>1. ASSUME NEW i \in Nat, i \in P PROVE i + 1 \in P
    BY <1>5, <2>1
  <2> HIDE DEF P
  <2>2. \A i \in Nat : i \in P
    BY <1>4, <2>1, NumberInduction
  <2> QED  BY <2>2 DEF P
<1>7. /\ \A x : x \in Range(f[n]) <=> \E j \in 1..n : x \in Range(order[j].txs)
      /\ Single => IsInjective(f[n])
  BY <1>6
<1>8. Range(f[n]) = UNION {Range(order[i].txs) : i \in 1..n}
  <2>1. \A x : x \in UNION {Range(order[i].txs) : i \in 1..n} <=> \E j \in 1..n : x \in Range(order[j].txs)
    OBVIOUS
  <2> QED  BY <1>7, <2>1, Zenon
<1>9. ReceivedNewTx(order) \in Seq(S)
  BY <1>3
<1> QED  BY <1>1, <1>3, <1>7, <1>8, <1>9, Zenon

\* An order of the collected messages has each of them once.
LEMMA OrderProperties ==
  ASSUME NEW M, IsFiniteSet(M), NEW order \in SetToSeqs(M)
  PROVE  /\ Len(order) \in Nat
         /\ \A i \in 1..Len(order) : order[i] \in M
         /\ \A m \in M : \E i \in 1..Len(order) : order[i] = m
         /\ \A i, j \in 1..Len(order) : order[i] = order[j] => i = j
<1>1. PICK n \in Nat : n = Cardinality(M)
  BY FS_CardinalityType
<1>2. order \in [1..n -> M] /\ \A i, j \in 1..n : i # j => order[i] # order[j]
  BY <1>1 DEF SetToSeqs
<1>3. Len(order) = n
  BY <1>2
<1>4. PICK D : D = 1..n
  OBVIOUS
<1>5. IsFiniteSet(D) /\ Cardinality(D) = Cardinality(M)
  <2>1. IsFiniteSet(1..n) /\ Cardinality(1..n) = IF 1 > n THEN 0 ELSE n - 1 + 1
    BY FS_Interval
  <2> QED  BY <1>1, <1>4, <2>1
<1>6. (\A i \in D : order[i] \in M) /\ \A i, j \in D : order[i] = order[j] => i = j
  BY <1>2, <1>4
<1>7. \A m \in M : \E i \in D : order[i] = m
  BY <1>5, <1>6, EqualSizes
<1> QED  BY <1>3, <1>4, <1>6, <1>7

\* The transactions that a shard has received go to the shard's new accounts, which is
\* what proposePartition checks with the last map: it never panics.
LEMMA ReceivedAtHome ==
  ASSUME Handshake, NEW s \in Shards, s \in PartitionOn, NEW m \in AccountStateTx[s],
         NEW tx \in Range(m.txs)
  PROVE  Owners(epoch)[Anchor(tx)] = s /\ Lookup(Maps[epoch], Anchor(tx)) = s
<1>0. TypeOK /\ AccountsUnderway
  BY DEF Handshake
<1>1. m \in AccountMessages /\ m.to = s
  BY <1>0 DEF AccountMessages, AccountsUnderway
<1>2. /\ m.from # s /\ DOMAIN m.accounts = Leaving(m.from, s) /\ Anchor(tx) \in DOMAIN m.accounts
  BY <1>0, <1>1 DEF AccountsUnderway
<1>3. PICK a \in Accounts : /\ a = Anchor(tx) /\ Owners(epoch)[a] = s /\ Owners(epoch - 1)[a] # s
  BY <1>2 DEF Leaving
<1>4. PICK e \in Nat : e = epoch - 1 /\ e + 1 = epoch
  <2>1. epoch - 1 \in Nat
    BY ApplyingFacts
  <2>2. epoch \in Nat
    BY RoundNumbers
  <2> QED  BY <2>1, <2>2
<1>5. a \in DOMAIN Maps[e + 1] /\ Maps[e + 1][a] = Owners(e + 1)[a]
  <2>1. Owners(e + 1)[a] # Owners(e)[a]
    BY <1>3, <1>4
  <2> QED  BY <2>1, OwnersMoved
<1> QED  BY <1>3, <1>4, <1>5 DEF Lookup

\* The request that proposePartition makes.
PartitionRequest(s) ==
  [kind |-> "partition", epoch |-> epoch, ATid |-> epoch,
   accounts |-> ReceivedNewAccountState(AccountStateTx[s])]

\* What a shard that has collected everything does.
Receives(s, received) ==
  /\ received \in Seq(Txs)
  /\ Range(received) = UNION {Range(m.txs) : m \in AccountStateTx[s]}
  /\ (\A m \in AccountStateTx[s] :
        /\ IsInjective(m.txs)
        /\ \A n \in AccountStateTx[s] \ {m} : Range(m.txs) \cap Range(n.txs) = {})
       => IsInjective(received)

\* proposePartition puts each received transaction into the pool once.
LEMMA ProposeFacts ==
  ASSUME Handshake, NEW s \in Shards, proposePartition(s)
  PROVE  /\ stage[s] = "sent" /\ s \in CollectOver /\ s \in PartitionOn
         /\ stage' = [stage EXCEPT ![s] = "partition"]
         /\ request' = [request EXCEPT ![s] = PartitionRequest(s)]
         /\ \E received : Receives(s, received) /\ pool' = [pool EXCEPT ![s] = @ \o received]
         /\ UNCHANGED <<supervisor, chain, seqs, clpaData, network, flags>>
<1>0. TypeOK /\ AccountsUnderway
  BY DEF Handshake
<1>1. PICK M : M = AccountStateTx[s] /\ IsFiniteSet(M)
  BY <1>0 DEF AccountsUnderway
<1>2. PICK order \in SetToSeqs(M) :
        LET received == ReceivedNewTx(order)
            errorTx == \E tx \in Range(received) : Lookup(Maps[RoundEpoch(s)], Anchor(tx)) # s
        IN
        /\ s \notin panicked
        /\ stage[s] = "sent"
        /\ s \in CollectOver
        /\ IF errorTx
             THEN /\ panicked' = panicked \cup {s}
                  /\ UNCHANGED <<stage, pool, request>>
             ELSE /\ stage' = [stage EXCEPT ![s] = "partition"]
                  /\ pool' = [pool EXCEPT ![s] = AddTxs2Pool(@, received)]
                  /\ request' = [request EXCEPT ![s] =
                       [kind |-> "partition", epoch |-> RoundEpoch(s), ATid |-> ATid(s),
                        accounts |-> ReceivedNewAccountState(M)]]
                  /\ UNCHANGED panicked
        /\ UNCHANGED <<supervisor, chain, seqs, clpaData, network, late, overtaken>>
  BY <1>1 DEF proposePartition
<1>3. stage[s] = "sent" /\ s \in CollectOver /\ s \in PartitionOn
  BY <1>2, RoundNumbers
<1>4. RoundEpoch(s) = epoch /\ ATid(s) = epoch
  BY <1>3, ApplyingFacts
<1>5. /\ Len(order) \in Nat /\ (\A i \in 1..Len(order) : order[i] \in M)
      /\ (\A m \in M : \E i \in 1..Len(order) : order[i] = m)
      /\ \A i, j \in 1..Len(order) : order[i] = order[j] => i = j
  BY <1>1, OrderProperties
<1>6. \A m \in M : m.txs \in Seq(Txs)
  <2>1. M \subseteq AccountMessages
    BY <1>1 DEF AccountMessages
  <2> QED  BY <1>0, <2>1 DEF TypeOK
<1>7. \A i \in 1..Len(order) : order[i].txs \in Seq(Txs)
  BY <1>5, <1>6
<1>8. PICK received : received = ReceivedNewTx(order)
  OBVIOUS
<1>9. /\ received \in Seq(Txs)
      /\ Range(received) = UNION {Range(order[i].txs) : i \in 1..Len(order)}
      /\ (\A i \in 1..Len(order) :
            /\ IsInjective(order[i].txs)
            /\ \A j \in 1..Len(order) : i # j => Range(order[i].txs) \cap Range(order[j].txs) = {})
           => IsInjective(received)
  BY <1>5, <1>7, <1>8, ReceivedProperties
<1>10. UNION {Range(order[i].txs) : i \in 1..Len(order)} = UNION {Range(m.txs) : m \in M}
  BY <1>5
<1>11. ASSUME \A m \in M : /\ IsInjective(m.txs)
                           /\ \A n \in M \ {m} : Range(m.txs) \cap Range(n.txs) = {}
       PROVE  IsInjective(received)
  <2>1. \A i \in 1..Len(order) :
          /\ IsInjective(order[i].txs)
          /\ \A j \in 1..Len(order) : i # j => Range(order[i].txs) \cap Range(order[j].txs) = {}
    BY <1>5, <1>11
  <2> QED  BY <1>9, <2>1
<1>12. Receives(s, received)
  BY <1>1, <1>9, <1>10, <1>11 DEF Receives
<1>13. \A tx \in Range(received) : Lookup(Maps[RoundEpoch(s)], Anchor(tx)) = s
  <2>1. ASSUME NEW tx \in Range(received) PROVE Lookup(Maps[epoch], Anchor(tx)) = s
    <3>1. PICK m \in AccountStateTx[s] : tx \in Range(m.txs)
      BY <1>1, <1>9, <1>10
    <3> QED  BY <1>3, <3>1, ReceivedAtHome
  <2> QED  BY <1>4, <2>1
<1>14. /\ stage' = [stage EXCEPT ![s] = "partition"]
       /\ pool' = [pool EXCEPT ![s] = AddTxs2Pool(@, received)]
       /\ request' = [request EXCEPT ![s] =
            [kind |-> "partition", epoch |-> RoundEpoch(s), ATid |-> ATid(s),
             accounts |-> ReceivedNewAccountState(M)]]
       /\ UNCHANGED panicked
  BY <1>2, <1>8, <1>13
<1>15. UNCHANGED <<supervisor, chain, seqs, clpaData, network, flags>>
  BY <1>2, <1>14 DEF flags
<1>16. request' = [request EXCEPT ![s] = PartitionRequest(s)]
  BY <1>1, <1>4, <1>14 DEF PartitionRequest
<1>17. pool' = [pool EXCEPT ![s] = @ \o received]
  BY <1>14 DEF AddTxs2Pool
<1> QED  BY <1>3, <1>12, <1>14, <1>15, <1>16, <1>17

\* The shard proposes the re-partition.
LEMMA ProposeHandshake ==
  ASSUME Handshake, NEW s \in Shards, proposePartition(s)
  PROVE  Handshake'
<1>0. TypeOK /\ Indexed /\ AccountsUnderway /\ MapsUnderway /\ \A t \in Shards : Requested(t) /\ Round(t)
  BY DEF Handshake
<1>1. /\ stage[s] = "sent" /\ s \in CollectOver /\ s \in PartitionOn
      /\ stage' = [stage EXCEPT ![s] = "partition"]
      /\ request' = [request EXCEPT ![s] = PartitionRequest(s)]
      /\ UNCHANGED <<supervisor, chain, seqs, clpaData, network, flags>>
  BY ProposeFacts
<1>2. /\ stage'[s] = "partition" /\ request'[s] = PartitionRequest(s)
      /\ \A t \in Shards \ {s} : stage'[t] = stage[t] /\ request'[t] = request[t]
  BY <1>0, <1>1 DEF TypeOK, Indexed
<1>3. AccountMessages' = AccountMessages
  BY <1>1 DEF AccountMessages, clpaData, network
<1>4. TypeOK'
  <2>1. stage' \in [Shards -> {"idle", "ready", "sent", "block", "partition"}]
    BY <1>0, <1>1 DEF TypeOK
  <2>2. pool' \in [Shards -> Seq(Txs)]
    <3>1. PICK received \in Seq(Txs) : pool' = [pool EXCEPT ![s] = @ \o received]
      BY ProposeFacts DEF Receives
    <3>2. pool[s] \o received \in Seq(Txs)
      BY <1>0, ConcatProperties DEF TypeOK
    <3> QED  BY <1>0, <3>1, <3>2 DEF TypeOK
  <2>3. PartitionRequest(s) # NoRequest
    <3>1. PartitionRequest(s).kind = "partition" /\ NoRequest.kind = "none"
      BY DEF PartitionRequest, NoRequest
    <3> QED  BY <3>1
  <2>4. \A t \in Shards : request'[t] = NoRequest <=> stage'[t] \in {"idle", "ready", "sent"}
    BY <1>0, <1>2, <2>3 DEF TypeOK
  <2> QED  BY <1>0, <1>1, <1>3, <2>1, <2>2, <2>4
           DEF TypeOK, supervisor, chain, seqs, clpaData, network, flags
<1>5. Indexed'
  BY <1>0, <1>1 DEF Indexed, seqs, clpaData, network
<1>6. \A t \in Shards : Requested(t)'
  <2>1. UNCHANGED <<balance, PartitionMap, epoch, AccountStateTx, CollectOver>>
    BY <1>1 DEF chain, supervisor, clpaData
  <2>2. Requested(s)'
    BY <1>1, <1>2, <2>1 DEF Requested, PartitionRequest
  <2>3. \A t \in Shards \ {s} : Requested(t)'
    BY <1>0, <1>2, <2>1 DEF Requested
  <2> QED  BY <2>2, <2>3
<1>7. \A t \in Shards : stage'[t] \in {"ready", "sent", "partition"} => t \in PartitionOn
  BY <1>1, <1>2, RoundNumbers
<1>8. MapsUnderway' /\ \A t \in Shards : Round(t)'
  BY <1>1, <1>7, RoundKept DEF supervisor, clpaData, chain, network
<1>9. AccountsUnderway'
  <2>1. \A t \in Shards : HasSent(t) => HasSent(t)'
    BY <1>1, <1>2 DEF HasSent, supervisor, clpaData
  <2> QED  BY <1>0, <1>1, <2>1, AccountsKept DEF supervisor, clpaData, network
<1> QED  BY <1>4, <1>5, <1>6, <1>8, <1>9 DEF Handshake

\* Shard s collected account a, and with the balance that acc gives it.
ArrivedAs(s, acc, a) ==
  \E m \in AccountStateTx[s] : a \in DOMAIN m.accounts /\ acc[a] = m.accounts[a]

\* The accounts that a shard with a request to re-partition received: each as some
\* other shard sent it.
LEMMA ReceivedAccounts ==
  ASSUME Handshake, NEW s \in Shards, NEW acc, acc = ReceivedNewAccountState(AccountStateTx[s])
  PROVE  /\ DOMAIN acc = UNION {DOMAIN m.accounts : m \in AccountStateTx[s]}
         /\ \A a \in DOMAIN acc : a \in Accounts /\ acc[a] \in Int /\ ArrivedAs(s, acc, a)
<1>1. PICK M : M = AccountStateTx[s]
  OBVIOUS
<1>2. acc = [a \in UNION {DOMAIN m.accounts : m \in M} |->
               (CHOOSE m \in M : a \in DOMAIN m.accounts).accounts[a]]
  BY <1>1 DEF ReceivedNewAccountState
<1>3. M \subseteq AccountMessages
  BY <1>1 DEF AccountMessages
<1>4. \A m \in M : DOMAIN m.accounts \subseteq Accounts /\ m.accounts \in [DOMAIN m.accounts -> Int]
  BY <1>3 DEF Handshake, TypeOK
<1>5. ASSUME NEW a \in UNION {DOMAIN m.accounts : m \in M}
      PROVE  \E m \in M : a \in DOMAIN m.accounts /\ acc[a] = m.accounts[a]
  <2>1. \E m \in M : a \in DOMAIN m.accounts
    BY <1>5
  <2>2. PICK c : c = CHOOSE m \in M : a \in DOMAIN m.accounts
    OBVIOUS
  <2>3. c \in M /\ a \in DOMAIN c.accounts
    BY <2>1, <2>2
  <2>4. acc[a] = c.accounts[a]
    BY <1>2, <2>2
  <2> QED  BY <2>3, <2>4
<1>6. DOMAIN acc = UNION {DOMAIN m.accounts : m \in M}
  BY <1>2
<1>7. ASSUME NEW a \in DOMAIN acc
      PROVE  /\ a \in Accounts /\ acc[a] \in Int
             /\ \E m \in M : a \in DOMAIN m.accounts /\ acc[a] = m.accounts[a]
  <2>1. PICK m \in M : a \in DOMAIN m.accounts /\ acc[a] = m.accounts[a]
    BY <1>5, <1>6
  <2>2. m.accounts[a] \in Int /\ a \in Accounts
    <3>1. m.accounts \in [DOMAIN m.accounts -> Int] /\ DOMAIN m.accounts \subseteq Accounts
      BY <1>4
    <3> QED  BY <2>1, <3>1
  <2> QED  BY <2>1, <2>2
<1> QED  BY <1>1, <1>6, <1>7 DEF ArrivedAs

\* What accountTransfer_do does.
LEMMA DoFacts ==
  ASSUME Handshake, NEW s \in Shards, accountTransfer_do(s)
  PROVE  /\ stage[s] = "partition" /\ s \in CollectOver /\ s \in PartitionOn
         /\ stage' = [stage EXCEPT ![s] = "idle"]
         /\ request' = [request EXCEPT ![s] = NoRequest]
         /\ PartitionMap' = [PartitionMap EXCEPT ![s] = Owners(epoch)]
         /\ balance' = [balance EXCEPT ![s] =
              AddAccounts(balance[s], Owners(epoch), s, ReceivedNewAccountState(AccountStateTx[s]))]
         /\ AccountTransferRound' = [AccountTransferRound EXCEPT ![s] = epoch]
         /\ AccountStateTx' = [AccountStateTx EXCEPT ![s] = {}]
         /\ PartitionOn' = PartitionOn \ {s} /\ CollectOver' = CollectOver \ {s}
         /\ PartitionReady' = [PartitionReady EXCEPT ![s] = {}]
         /\ sequenceID' = [sequenceID EXCEPT ![s] = @ + 1]
         /\ UNCHANGED <<supervisor, pool, transit, unbacked, finished, seqIDMap, ReadySeq,
                        network, flags, ModifiedMap>>
<1>1. stage[s] = "partition" /\ Requested(s)
  BY DEF accountTransfer_do, Handshake
<1>2. s \in CollectOver /\ request[s] = PartitionRequest(s)
  BY <1>1 DEF Requested, PartitionRequest
<1>3. s \in PartitionOn
  BY <1>1, RoundNumbers
<1>4. /\ request[s].epoch = epoch /\ request[s].ATid = epoch
      /\ request[s].accounts = ReceivedNewAccountState(AccountStateTx[s])
  BY <1>2 DEF PartitionRequest
<1>5. Updated(PartitionMap[s], Maps[epoch]) = Owners(epoch) /\ Len(ModifiedMap[s]) = epoch
  BY <1>3, ApplyingFacts DEF ATid
<1>6. UNCHANGED ModifiedMap
  BY <1>4, <1>5 DEF accountTransfer_do
<1>7. PartitionMap' = [PartitionMap EXCEPT ![s] = Owners(epoch)]
  BY <1>4, <1>5 DEF accountTransfer_do
<1>8. balance' = [balance EXCEPT ![s] =
        AddAccounts(balance[s], Owners(epoch), s, ReceivedNewAccountState(AccountStateTx[s]))]
  BY <1>4, <1>5 DEF accountTransfer_do
<1>9. AccountTransferRound' = [AccountTransferRound EXCEPT ![s] = epoch]
  BY <1>4 DEF accountTransfer_do
<1>10. /\ stage' = [stage EXCEPT ![s] = "idle"]
       /\ request' = [request EXCEPT ![s] = NoRequest]
       /\ AccountStateTx' = [AccountStateTx EXCEPT ![s] = {}]
       /\ PartitionOn' = PartitionOn \ {s} /\ CollectOver' = CollectOver \ {s}
       /\ PartitionReady' = [PartitionReady EXCEPT ![s] = {}]
       /\ sequenceID' = [sequenceID EXCEPT ![s] = @ + 1]
       /\ UNCHANGED <<supervisor, pool, transit, unbacked, finished, seqIDMap, ReadySeq,
                      network, flags>>
  BY DEF accountTransfer_do, Cleared
<1> QED  BY <1>1, <1>2, <1>3, <1>6, <1>7, <1>8, <1>9, <1>10

\* The messages that are left are to other shards.
LEMMA DoMessages ==
  ASSUME Handshake, NEW s \in Shards, accountTransfer_do(s)
  PROVE  /\ AccountMessages' = AccountMessages \ AccountStateTx[s]
         /\ \A m \in AccountMessages' : m.to # s
         /\ \A m \in AccountStateTx[s] : m.to = s
         /\ \A t \in Others(s) : HasSent(t)
<1>0. TypeOK /\ Indexed /\ AccountsUnderway
  BY DEF Handshake
<1>1. /\ s \in CollectOver /\ accountMsgs' = accountMsgs
      /\ AccountStateTx' = [AccountStateTx EXCEPT ![s] = {}]
  BY DoFacts DEF network
<1>2. AccountStateTx'[s] = {} /\ \A t \in Shards \ {s} : AccountStateTx'[t] = AccountStateTx[t]
  BY <1>0, <1>1 DEF Indexed
<1>3. \A x : x \in AccountMessages <=> x \in accountMsgs \/ \E t \in Shards : x \in AccountStateTx[t]
  BY DEF AccountMessages
<1>4. \A x : x \in AccountMessages' <=> x \in accountMsgs' \/ \E t \in Shards : x \in AccountStateTx'[t]
  BY DEF AccountMessages
<1>5. \A t \in Shards : \A m \in AccountStateTx[t] : m.to = t
  BY <1>0 DEF AccountsUnderway
<1>6. accountMsgs \cap AccountStateTx[s] = {}
  BY <1>0 DEF AccountsUnderway
<1>7. ASSUME NEW m \in accountMsgs PROVE m.to # s
  <2> SUFFICES ASSUME m.to = s PROVE FALSE
    OBVIOUS
  <2>1. m \in AccountMessages
    BY <1>3
  <2>2. m.from \in Others(s)
    BY <1>0, <2>1 DEF TypeOK, AccountsUnderway, Others
  <2>3. PICK c \in AccountStateTx[s] : c.from = m.from
    BY <1>0, <1>1, <2>2 DEF AccountsUnderway
  <2>4. c \in AccountMessages /\ c.to = s
    BY <1>3, <1>5
  <2>5. c = m
    BY <1>0, <2>1, <2>3, <2>4 DEF AccountsUnderway
  <2> QED  BY <1>6, <2>3, <2>5
<1>8. ASSUME NEW x PROVE x \in AccountMessages' <=> x \in AccountMessages /\ x \notin AccountStateTx[s]
  <2>1. ASSUME x \in AccountMessages' PROVE x \in AccountMessages /\ x \notin AccountStateTx[s]
    <3>1. CASE x \in accountMsgs
      BY <1>3, <1>6, <3>1
    <3>2. CASE \E t \in Shards \ {s} : x \in AccountStateTx[t]
      <4>1. PICK t \in Shards \ {s} : x \in AccountStateTx[t]
        BY <3>2
      <4> QED  BY <1>3, <1>5, <4>1
    <3> QED  BY <1>1, <1>2, <1>4, <2>1, <3>1, <3>2
  <2>2. ASSUME x \in AccountMessages, x \notin AccountStateTx[s] PROVE x \in AccountMessages'
    BY <1>1, <1>2, <1>3, <1>4, <2>2
  <2> QED  BY <2>1, <2>2
<1>9. \A m \in AccountMessages' : m.to # s
  <2>1. ASSUME NEW t \in Shards, NEW m \in AccountStateTx'[t] PROVE m.to # s
    BY <1>2, <1>5
  <2> QED  BY <1>1, <1>4, <1>7, <2>1
<1>10. ASSUME NEW t \in Others(s) PROVE HasSent(t)
  <2>1. PICK c \in AccountStateTx[s] : c.from = t
    BY <1>0, <1>1 DEF AccountsUnderway
  <2> QED  BY <1>0, <1>3, <2>1 DEF AccountsUnderway
<1> QED  BY <1>5, <1>8, <1>9, <1>10

\* A shard carries out the map.
LEMMA DoHandshake ==
  ASSUME Handshake, NEW s \in Shards, accountTransfer_do(s)
  PROVE  Handshake'
<1>0. TypeOK /\ Indexed /\ AccountsUnderway /\ MapsUnderway /\ \A t \in Shards : Requested(t) /\ Round(t)
  BY DEF Handshake
<1>1. /\ s \in CollectOver /\ s \in PartitionOn
      /\ stage' = [stage EXCEPT ![s] = "idle"]
      /\ request' = [request EXCEPT ![s] = NoRequest]
      /\ PartitionMap' = [PartitionMap EXCEPT ![s] = Owners(epoch)]
      /\ AccountTransferRound' = [AccountTransferRound EXCEPT ![s] = epoch]
      /\ AccountStateTx' = [AccountStateTx EXCEPT ![s] = {}]
      /\ PartitionOn' = PartitionOn \ {s} /\ CollectOver' = CollectOver \ {s}
      /\ PartitionReady' = [PartitionReady EXCEPT ![s] = {}]
      /\ sequenceID' = [sequenceID EXCEPT ![s] = @ + 1]
  BY DoFacts
<1>2. UNCHANGED <<supervisor, pool, transit, unbacked, finished, seqIDMap, ReadySeq,
                  network, flags, ModifiedMap>>
  BY DoFacts
<1>3. PICK acc : acc = ReceivedNewAccountState(AccountStateTx[s])
  OBVIOUS
<1>4. balance' = [balance EXCEPT ![s] = AddAccounts(balance[s], Owners(epoch), s, acc)]
  BY <1>3, DoFacts
<1>5. /\ epoch \in Epochs /\ epoch \in Nat /\ epoch \in 0..Len(Maps) /\ Owners(epoch) \in [Accounts -> Shards]
      /\ Len(ModifiedMap[s]) = epoch
  BY <1>1, RoundNumbers, ApplyingFacts, OwnersType
<1>6. /\ stage'[s] = "idle" /\ request'[s] = NoRequest /\ AccountTransferRound'[s] = epoch
      /\ PartitionMap'[s] = Owners(epoch) /\ AccountStateTx'[s] = {}
      /\ \A t \in Shards \ {s} : /\ stage'[t] = stage[t] /\ request'[t] = request[t]
                                 /\ AccountTransferRound'[t] = AccountTransferRound[t]
                                 /\ PartitionMap'[t] = PartitionMap[t]
                                 /\ AccountStateTx'[t] = AccountStateTx[t]
  <2>1. /\ DOMAIN stage = Shards /\ DOMAIN request = Shards /\ DOMAIN AccountTransferRound = Shards
        /\ DOMAIN PartitionMap = Shards /\ DOMAIN AccountStateTx = Shards
    BY <1>0 DEF TypeOK, Indexed
  <2> QED  BY <1>1, <2>1
<1>7. \A t \in Shards \ {s} : balance'[t] = balance[t]
  BY <1>0, <1>4 DEF TypeOK
<1>8. balance' \in [Shards -> [Accounts -> Int]]
  <2>1. \A a \in DOMAIN acc : acc[a] \in Int
    BY <1>3, ReceivedAccounts
  <2>2. balance[s] \in [Accounts -> Int]
    BY <1>0 DEF TypeOK
  <2>3. AddAccounts(balance[s], Owners(epoch), s, acc) \in [Accounts -> Int]
    BY <2>1, <2>2 DEF AddAccounts
  <2> QED  BY <1>0, <1>4, <2>3 DEF TypeOK
<1>9. /\ AccountMessages' = AccountMessages \ AccountStateTx[s]
      /\ (\A m \in AccountMessages' : m.to # s) /\ \A t \in Others(s) : HasSent(t)
  BY DoMessages
<1>10. TypeOK'
  <2>1. stage' \in [Shards -> {"idle", "ready", "sent", "block", "partition"}]
    BY <1>0, <1>1 DEF TypeOK
  <2>2. AccountTransferRound' \in [Shards -> 0..epoch]
    <3>1. epoch \in 0..epoch
      BY <1>5
    <3> QED  BY <1>0, <1>1, <3>1 DEF TypeOK
  <2>3. PartitionMap' \in [Shards -> [Accounts -> Shards]]
    BY <1>0, <1>1, <1>5 DEF TypeOK
  <2>4. PartitionReady' \in [Shards -> SUBSET Shards]
    BY <1>0, <1>1 DEF TypeOK
  <2>5. sequenceID' \in [Shards -> Nat]
    <3>1. sequenceID \in [Shards -> Nat] /\ sequenceID[s] + 1 \in Nat
      BY <1>0 DEF TypeOK
    <3> QED  BY <1>1, <3>1
  <2>6. \A t \in Shards : request'[t] = NoRequest <=> stage'[t] \in {"idle", "ready", "sent"}
    BY <1>0, <1>6 DEF TypeOK
  <2>7. PartitionOn' \subseteq Shards /\ CollectOver' \subseteq Shards
    BY <1>0, <1>1 DEF TypeOK
  <2>8. \A m \in AccountMessages' :
          /\ m.from \in Shards /\ m.to \in Shards /\ m.txs \in Seq(Txs)
          /\ DOMAIN m.accounts \subseteq Accounts /\ m.accounts \in [DOMAIN m.accounts -> Int]
    <3>1. \A m \in AccountMessages' : m \in AccountMessages
      BY <1>9
    <3> QED  BY <1>0, <3>1 DEF TypeOK
  <2> QED  BY <1>0, <1>2, <1>8, <2>1, <2>2, <2>3, <2>4, <2>5, <2>6, <2>7, <2>8
           DEF TypeOK, supervisor, network, flags
<1>11. Indexed'
  BY <1>0, <1>1, <1>2 DEF Indexed, network
<1>12. \A t \in Shards : Requested(t)'
  <2>1. epoch' = epoch /\ \A t \in Shards \ {s} : t \in CollectOver => t \in CollectOver'
    BY <1>1, <1>2 DEF supervisor
  <2>2. Requested(s)'
    BY <1>6 DEF Requested
  <2>3. \A t \in Shards \ {s} : Requested(t)'
    BY <1>0, <1>6, <1>7, <2>1 DEF Requested
  <2> QED  BY <2>2, <2>3
<1>13. \A e : Owners(e)' = Owners(e)
  BY DEF Owners, UpdatedUpTo
<1>14. \A t \in Shards : Round(t)'
  <2>1. epoch' = epoch /\ ModifiedMap' = ModifiedMap
    BY <1>2 DEF supervisor
  <2>2. Round(s)'
    <3>1. s \notin PartitionOn'
      BY <1>1
    <3>2. ModifiedMap[s] = [i \in 1..Len(ModifiedMap[s]) |-> i]
      BY <1>0 DEF Round
    <3>3. Owners(AccountTransferRound[s])' = Owners(epoch)
      BY <1>6 DEF Owners, UpdatedUpTo
    <3> QED  BY <1>5, <1>6, <2>1, <3>1, <3>2, <3>3 DEF Round
  <2>3. ASSUME NEW t \in Shards \ {s} PROVE Round(t)'
    <3>1. Owners(AccountTransferRound[t])' = Owners(AccountTransferRound[t])
      BY <1>6 DEF Owners, UpdatedUpTo
    <3>2. t \in PartitionOn' <=> t \in PartitionOn
      BY <1>1
    <3> QED  BY <1>0, <1>6, <2>1, <3>1, <3>2 DEF Round
  <2> QED  BY <2>2, <2>3
<1>15. MapsUnderway'
  BY <1>0, <1>2 DEF MapsUnderway, supervisor, network
<1>16. AccountsUnderway'
  <2>1. epoch' = epoch /\ accountMsgs' = accountMsgs
    BY <1>2 DEF supervisor, network
  <2>2. \A t \in Shards : HasSent(t)'
    <3>1. HasSent(s)'
      BY <1>6, <2>1 DEF HasSent
    <3>2. \A t \in Shards \ {s} : HasSent(t)'
      BY <1>6, <1>9, <2>1 DEF HasSent, Others
    <3> QED  BY <3>1, <3>2
  <2>3. \A u, t : Leaving(u, t)' = Leaving(u, t)
    BY <2>1 DEF Leaving, Owners, UpdatedUpTo
  <2>4. \A t \in Shards : IsFiniteSet(AccountStateTx'[t]) /\ \A m \in AccountStateTx'[t] : m.to = t
    <3>1. \A t \in Shards : IsFiniteSet(AccountStateTx[t]) /\ \A m \in AccountStateTx[t] : m.to = t
      BY <1>0 DEF AccountsUnderway
    <3>2. ASSUME NEW t \in Shards
          PROVE  IsFiniteSet(AccountStateTx'[t]) /\ \A m \in AccountStateTx'[t] : m.to = t
      <4>1. CASE t = s
        BY <1>6, <4>1, FS_EmptySet
      <4>2. CASE t # s
        BY <1>6, <3>1, <4>2
      <4> QED  BY <4>1, <4>2
    <3> QED  BY <3>2
  <2>5. ASSUME NEW m \in AccountMessages'
        PROVE  /\ m.from # m.to /\ AccountTransferRound'[m.to] + 1 = epoch' /\ HasSent(m.from)'
               /\ DOMAIN m.accounts = Leaving(m.from, m.to)'
               /\ \A tx \in Range(m.txs) : Anchor(tx) \in DOMAIN m.accounts
               /\ \A n \in AccountMessages' : n.from = m.from /\ n.to = m.to => n = m
    <3>1. m \in AccountMessages /\ m.to # s /\ \A n \in AccountMessages' : n \in AccountMessages
      BY <1>9
    <3>2. m.from \in Shards /\ m.to \in Shards
      BY <1>0, <3>1 DEF TypeOK
    <3>3. AccountTransferRound'[m.to] = AccountTransferRound[m.to]
      BY <1>6, <3>1, <3>2
    <3> QED  BY <1>0, <2>1, <2>2, <2>3, <3>1, <3>2, <3>3 DEF AccountsUnderway
  <2>6. \A t \in Shards : accountMsgs' \cap AccountStateTx'[t] = {}
    <3>1. \A t \in Shards : accountMsgs \cap AccountStateTx[t] = {}
      BY <1>0 DEF AccountsUnderway
    <3>2. \A t \in Shards : AccountStateTx'[t] \subseteq AccountStateTx[t]
      BY <1>6
    <3> QED  BY <2>1, <3>1, <3>2
  <2>7. \A t \in CollectOver' : \A u \in Others(t) : \E m \in AccountStateTx'[t] : m.from = u
    <3>1. \A t \in CollectOver' : t \in CollectOver /\ t \in Shards \ {s}
      BY <1>0, <1>1 DEF TypeOK
    <3> QED  BY <1>0, <1>6, <3>1 DEF AccountsUnderway
  <2> QED  BY <2>2, <2>4, <2>5, <2>6, <2>7 DEF AccountsUnderway
<1> QED  BY <1>10, <1>11, <1>12, <1>14, <1>15, <1>16 DEF Handshake

\* Every step keeps the handshake.
LEMMA HandshakeStep == Handshake /\ [Next]_vars => Handshake'
<1> SUFFICES ASSUME Handshake, [Next]_vars PROVE Handshake'
  OBVIOUS
<1>1. CASE txSending
  BY <1>1, SendingHandshake
<1>2. CASE clpaMapSend
  BY <1>2, MapSendHandshake
<1>3. CASE (\E m \in injects : handleInjectTx(m)) \/ (\E m \in relays : handleRelay(m))
  BY <1>3, ArrivalHandshake
<1>4. CASE \E m \in mapMsgs : handlePartitionMsg(m)
  BY <1>4, MapArrives
<1>5. CASE \E m \in readyMsgs : handlePartitionReady(m)
  BY <1>5, ReadyHandshake
<1>6. CASE \E m \in accountMsgs : handleAccountStateAndTxMsg(m)
  BY <1>6, CollectHandshake
<1>7. ASSUME NEW s \in Shards, GenerateBlock(s) PROVE Handshake'
  BY <1>7, GenerateHandshake
<1>8. ASSUME NEW s \in Shards, sendPartitionReady(s) PROVE Handshake'
  BY <1>8, TellHandshake
<1>9. ASSUME NEW s \in Shards, sendAccounts_and_Txs(s) PROVE Handshake'
  BY <1>9, SendHandshake
<1>10. ASSUME NEW s \in Shards, proposePartition(s) PROVE Handshake'
  BY <1>10, ProposeHandshake
<1>11. ASSUME NEW s \in Shards, commitBlock(s) PROVE Handshake'
  BY <1>11, CommitHandshake
<1>12. ASSUME NEW s \in Shards, accountTransfer_do(s) PROVE Handshake'
  BY <1>12, DoHandshake
<1>13. CASE UNCHANGED vars
  <2>1. AccountMessages' = AccountMessages
    BY <1>13 DEF AccountMessages, vars, clpaData, network
  <2>2. TypeOK'
    BY <1>13, <2>1 DEF Handshake, TypeOK, vars, supervisor, chain, seqs, clpaData, network, flags
  <2>3. Indexed'
    BY <1>13 DEF Handshake, Indexed, vars, seqs, clpaData, network
  <2> QED  BY <1>13, <2>2, <2>3, HandshakeKept DEF vars, supervisor, chain, seqs, clpaData, network
<1> QED  BY <1>1, <1>2, <1>3, <1>4, <1>5, <1>6, <1>7, <1>8, <1>9, <1>10, <1>11, <1>12, <1>13 DEF Next

\* An account under way is no longer its old shard's when that shard commits a block
\* or carries out the map.
LEMMA MessageAccounts ==
  ASSUME Handshake, NEW m \in AccountMessages, NEW a \in DOMAIN m.accounts
  PROVE  /\ m.from \in Shards /\ a \in Accounts
         /\ Owners(epoch)[a] = m.to /\ Owners(epoch - 1)[a] = m.from /\ m.to # m.from
         /\ stage[m.from] = "block" => PartitionMap[m.from][a] # m.from
<1>0. TypeOK /\ AccountsUnderway
  BY DEF Handshake
<1>1. m.from \in Shards /\ m.to \in Shards
  BY <1>0 DEF TypeOK
<1>2. m.from # m.to /\ HasSent(m.from) /\ DOMAIN m.accounts = Leaving(m.from, m.to)
  BY <1>0 DEF AccountsUnderway
<1>3. a \in Accounts /\ Owners(epoch)[a] = m.to /\ Owners(epoch - 1)[a] = m.from
  BY <1>2 DEF Leaving
<1>4. stage[m.from] = "block" => PartitionMap[m.from] = Owners(epoch)
  <2>1. Round(m.from)
    BY <1>1 DEF Handshake
  <2>2. stage[m.from] = "block" => AccountTransferRound[m.from] = epoch
    BY <1>2 DEF HasSent
  <2> QED  BY <2>1, <2>2 DEF Round
<1> QED  BY <1>1, <1>2, <1>3, <1>4

\* Every step keeps the states under way current.
LEMMA CurrentStep == Handshake /\ TransferredStateCurrent /\ [Next]_vars => TransferredStateCurrent'
<1> SUFFICES ASSUME Handshake, TransferredStateCurrent, [Next]_vars PROVE TransferredStateCurrent'
  OBVIOUS
<1>0. TypeOK
  BY DEF Handshake
<1>1. ASSUME AccountMessages' = AccountMessages, balance' = balance PROVE TransferredStateCurrent'
  BY <1>1 DEF TransferredStateCurrent
<1>2. CASE UNCHANGED <<AccountStateTx, accountMsgs, balance>>
  BY <1>1, <1>2 DEF AccountMessages
<1>3. CASE \E m \in accountMsgs : handleAccountStateAndTxMsg(m)
  <2>1. AccountMessages' = AccountMessages /\ balance' = balance
    BY <1>3, CollectFacts
  <2> QED  BY <1>1, <2>1
<1>4. ASSUME NEW s \in Shards, sendAccounts_and_Txs(s) PROVE TransferredStateCurrent'
  <2>1. /\ AccountMessages' = AccountMessages \cup {AccountMessage(s, t) : t \in Others(s)}
        /\ s \in PartitionOn /\ balance' = balance
    BY <1>4, SendFacts DEF sendAccounts_and_Txs, chain
  <2>2. ASSUME NEW t \in Others(s), NEW m, m = AccountMessage(s, t)
        PROVE  \A a \in DOMAIN m.accounts : m.accounts[a] = balance[m.from][a]
    BY <2>1, <2>2, AccountMessageFacts
  <2> QED  BY <2>1, <2>2 DEF TransferredStateCurrent
<1>5. ASSUME NEW s \in Shards, commitBlock(s) PROVE TransferredStateCurrent'
  <2>1. AccountMessages' = AccountMessages
    BY <1>5 DEF AccountMessages, commitBlock, clpaData
  <2>2. balance' = [balance EXCEPT ![s] = request[s].state] /\ stage[s] = "block"
    BY <1>5 DEF commitBlock
  <2>3. ASSUME NEW m \in AccountMessages, NEW a \in DOMAIN m.accounts
        PROVE  m.accounts[a] = balance'[m.from][a]
    <3>1. m.from \in Shards /\ a \in Accounts /\ m.accounts[a] = balance[m.from][a]
      BY MessageAccounts DEF TransferredStateCurrent
    <3>2. CASE m.from # s
      BY <1>0, <2>2, <3>1, <3>2 DEF TypeOK
    <3>3. CASE m.from = s
      <4>1. PartitionMap[s][a] # s
        BY <2>2, <3>3, MessageAccounts
      <4>2. request[s].state[a] = balance[s][a]
        BY <2>2, <3>1, <4>1, BlockRequest
      <4> QED  BY <1>0, <2>2, <3>1, <3>3, <4>2 DEF TypeOK
    <3> QED  BY <3>2, <3>3
  <2> QED  BY <2>1, <2>3 DEF TransferredStateCurrent
<1>6. ASSUME NEW s \in Shards, accountTransfer_do(s) PROVE TransferredStateCurrent'
  <2>1. AccountMessages' = AccountMessages \ AccountStateTx[s]
    BY <1>6, DoMessages
  <2>2. PICK acc : balance' = [balance EXCEPT ![s] = AddAccounts(balance[s], Owners(epoch), s, acc)]
    BY <1>6, DoFacts
  <2>3. ASSUME NEW m \in AccountMessages, NEW a \in DOMAIN m.accounts
        PROVE  m.accounts[a] = balance'[m.from][a]
    <3>1. /\ m.from \in Shards /\ a \in Accounts /\ m.accounts[a] = balance[m.from][a]
          /\ Owners(epoch)[a] # m.from
      BY MessageAccounts DEF TransferredStateCurrent
    <3>2. CASE m.from # s
      BY <1>0, <2>2, <3>1, <3>2 DEF TypeOK
    <3>3. CASE m.from = s
      <4>1. AddAccounts(balance[s], Owners(epoch), s, acc)[a] = balance[s][a]
        BY <3>1, <3>3 DEF AddAccounts
      <4> QED  BY <1>0, <2>2, <3>1, <3>3, <4>1 DEF TypeOK
    <3> QED  BY <3>2, <3>3
  <2> QED  BY <2>1, <2>3 DEF TransferredStateCurrent
<1>7. ASSUME NEW s \in Shards, GenerateBlock(s) \/ sendPartitionReady(s) PROVE TransferredStateCurrent'
  BY <1>2, <1>7 DEF GenerateBlock, sendPartitionReady, chain, clpaData, network
<1>8. ASSUME NEW s \in Shards, proposePartition(s) PROVE TransferredStateCurrent'
  BY <1>2, <1>8, ProposeFacts DEF chain, clpaData, network
<1>9. CASE txSending \/ clpaMapSend
  BY <1>2, <1>9 DEF txSending, clpaMapSend, chain, clpaData
<1>10. CASE (\E m \in injects : handleInjectTx(m)) \/ (\E m \in relays : handleRelay(m))
  BY <1>2, <1>10 DEF handleInjectTx, handleRelay, chain, clpaData
<1>11. CASE (\E m \in mapMsgs : handlePartitionMsg(m)) \/ (\E m \in readyMsgs : handlePartitionReady(m))
  BY <1>2, <1>11 DEF handlePartitionMsg, handlePartitionReady, chain
<1>12. CASE UNCHANGED vars
  BY <1>2, <1>12 DEF vars, chain, clpaData, network
<1> QED  BY <1>3, <1>4, <1>5, <1>6, <1>7, <1>8, <1>9, <1>10, <1>11, <1>12 DEF Next

-----------------------------------------------------------------------------
(***************************************************************************)
(* Transactions are where they will be executed.                           *)
(***************************************************************************)

\* The map by which a shard will execute what waits in its pool.
LEMMA NextMapFacts ==
  ASSUME Handshake, NEW s \in Shards
  PROVE  NextMap(s) = IF stage[s] \in {"sent", "partition"} THEN Owners(epoch) ELSE PartitionMap[s]
<1>1. CASE stage[s] \in {"sent", "partition"}
  <2>1. s \in PartitionOn
    BY <1>1, RoundNumbers
  <2>2. /\ Last(ModifiedMap[s]) = epoch
        /\ Updated(PartitionMap[s], Maps[epoch]) = Owners(epoch)
    BY <2>1, ApplyingFacts
  <2> QED  BY <1>1, <2>2 DEF NextMap
<1>2. CASE stage[s] \notin {"sent", "partition"}
  BY <1>2 DEF NextMap
<1> QED  BY <1>1, <1>2

\* The map by which a shard will execute what waits: the last one as soon as it has
\* sent the accounts it takes away.
Home(s) == IF stage[s] \in {"sent", "partition"} THEN Owners(epoch) ELSE PartitionMap[s]

\* AtHome in these terms.
Homes ==
  /\ panicked = {}
  /\ \A s \in Shards :
       /\ \A tx \in Range(pool[s]) : Home(s)[Anchor(tx)] = s
       /\ stage[s] = "block" => \A tx \in Range(request[s].body) : PartitionMap[s][Anchor(tx)] = s

\* Home is the map that Misplaced looks at.
LEMMA HomesFacts ==
  Handshake => (AtHome <=> late \/ Homes) /\ \A s \in Shards : NextMap(s) = Home(s)
BY NextMapFacts DEF AtHome, Homes, Home

\* Steps that touch no pool, request or map.
LEMMA HomesKept ==
  ASSUME Homes, UNCHANGED <<epoch, stage, request, pool, PartitionMap, panicked>>
  PROVE  Homes'
<1>1. \A s \in Shards : Home(s)' = Home(s)
  BY DEF Home, Owners, UpdatedUpTo
<1> QED  BY <1>1 DEF Homes

\* Transactions that arrive, and are not late, are at home.
LEMMA ArrivalHomes ==
  ASSUME Handshake, Homes, NEW m, m.to \in Shards, m.txs \in Seq(Txs), ~Misplaced(m.to, m.txs),
         pool' = [pool EXCEPT ![m.to] = AddTxs2Pool(@, m.txs)],
         UNCHANGED <<epoch, stage, request, PartitionMap, panicked>>
  PROVE  Homes'
<1>1. \A s \in Shards : Home(s)' = Home(s)
  BY DEF Home, Owners, UpdatedUpTo
<1>2. PICK p \in Seq(Txs), q \in Seq(Txs) : p = pool[m.to] /\ q = m.txs
  BY DEF Handshake, TypeOK
<1>3. Range(p \o q) = Range(p) \cup Range(q)
  BY ConcatRange
<1>4. pool'[m.to] = p \o q /\ \A s \in Shards \ {m.to} : pool'[s] = pool[s]
  BY <1>2 DEF Handshake, TypeOK, AddTxs2Pool
<1>5. \A tx \in Range(q) : Home(m.to)[Anchor(tx)] = m.to
  BY <1>2, HomesFacts DEF Misplaced
<1>6. ASSUME NEW s \in Shards, NEW tx \in Range(pool'[s]) PROVE Home(s)[Anchor(tx)] = s
  <2>1. CASE s = m.to
    <3>1. tx \in Range(p) \/ tx \in Range(q)
      BY <1>3, <1>4, <1>6, <2>1
    <3>2. tx \in Range(p) => Home(s)[Anchor(tx)] = s
      BY <1>2, <2>1 DEF Homes
    <3> QED  BY <1>5, <2>1, <3>1, <3>2
  <2>2. CASE s # m.to
    BY <1>4, <1>6, <2>2 DEF Homes
  <2> QED  BY <2>1, <2>2
<1> QED  BY <1>1, <1>6 DEF Homes

\* A block is made of transactions that wait.
LEMMA GenerateHomes ==
  ASSUME Handshake, Homes, NEW s \in Shards, GenerateBlock(s)
  PROVE  Homes'
<1>0. TypeOK /\ Indexed
  BY DEF Handshake
<1>1. PICK q \in Seq(Txs) : q = pool[s]
  BY <1>0 DEF TypeOK
<1>2. PICK body \in Seq(Txs), rest \in Seq(Txs) :
        body = PackTxs(q, BlockSize) /\ rest = AfterPack(q, BlockSize) /\ body \o rest = q
  BY ClpaAssumption, PackSplits
<1>3. Range(q) = Range(body) \cup Range(rest)
  <2>1. Range(body \o rest) = Range(body) \cup Range(rest)
    BY ConcatRange
  <2> QED  BY <1>2, <2>1
<1>4. /\ pool'[s] = rest /\ stage'[s] = "block" /\ stage[s] = "idle"
      /\ \A t \in Shards \ {s} : pool'[t] = pool[t] /\ stage'[t] = stage[t] /\ request'[t] = request[t]
  BY <1>0, <1>1, <1>2 DEF TypeOK, Indexed, GenerateBlock
<1>5. request'[s].body = body
  <2>1. PICK st : request' = [request EXCEPT ![s] = [kind |-> "block", body |-> body, state |-> st]]
    BY <1>1, <1>2 DEF GenerateBlock
  <2>2. request'[s] = [kind |-> "block", body |-> body, state |-> st]
    BY <1>0, <2>1 DEF Indexed
  <2> QED  BY <2>2
<1>6. UNCHANGED <<epoch, PartitionMap, panicked>>
  BY DEF GenerateBlock, supervisor, chain, flags
<1>7. /\ Home(s)' = Home(s) /\ Home(s) = PartitionMap[s]
      /\ \A t \in Shards \ {s} : Home(t)' = Home(t)
  BY <1>4, <1>6 DEF Home, Owners, UpdatedUpTo
<1>8. \A tx \in Range(q) : PartitionMap[s][Anchor(tx)] = s
  BY <1>1, <1>7 DEF Homes
<1>9. ASSUME NEW t \in Shards
      PROVE  /\ \A tx \in Range(pool'[t]) : Home(t)'[Anchor(tx)] = t
             /\ stage'[t] = "block" =>
                  \A tx \in Range(request'[t].body) : PartitionMap'[t][Anchor(tx)] = t
  <2>1. CASE t = s
    BY <1>3, <1>4, <1>5, <1>6, <1>7, <1>8, <2>1
  <2>2. CASE t # s
    BY <1>4, <1>6, <1>7, <2>2 DEF Homes
  <2> QED  BY <2>1, <2>2
<1> QED  BY <1>6, <1>9 DEF Homes

\* The transactions that stay behind are those of accounts that stay.
LEMMA SendHomes ==
  ASSUME Handshake, Homes, NEW s \in Shards, sendAccounts_and_Txs(s)
  PROVE  Homes'
<1>0. TypeOK
  BY DEF Handshake
<1>1. /\ stage[s] = "ready" /\ s \in PartitionOn /\ stage'[s] = "sent"
      /\ \A t \in Shards \ {s} : stage'[t] = stage[t]
      /\ pool' = [pool EXCEPT ![s] =
           Select(pool[s], Range(pool[s]) \ UNION {Going(s, t) : t \in Others(s)})]
  BY SendFacts
<1>2. UNCHANGED <<epoch, request, PartitionMap, panicked>>
  BY DEF sendAccounts_and_Txs, supervisor, chain, flags
<1>3. PICK q, T : /\ q \in Seq(Txs) /\ q = pool[s]
                  /\ T = Range(pool[s]) \ UNION {Going(s, t) : t \in Others(s)}
  BY <1>0 DEF TypeOK
<1>4. Range(Select(q, T)) = Range(q) \cap T
  BY <1>3, SelectProperties
<1>5. pool'[s] = Select(q, T) /\ \A t \in Shards \ {s} : pool'[t] = pool[t]
  BY <1>0, <1>1, <1>3 DEF TypeOK
<1>6. /\ PartitionMap[s] = Owners(epoch - 1) /\ Home(s) = PartitionMap[s] /\ Home(s)' = Owners(epoch)
      /\ \A t \in Shards \ {s} : Home(t)' = Home(t)
  <2>1. PartitionMap[s] = Owners(epoch - 1)
    BY <1>1, ApplyingFacts
  <2> QED  BY <1>1, <1>2, <2>1 DEF Home, Owners, UpdatedUpTo
<1>7. ASSUME NEW tx \in Range(pool'[s]) PROVE Owners(epoch)[Anchor(tx)] = s
  <2>1. tx \in Range(q) /\ \A t \in Others(s) : tx \notin Going(s, t)
    BY <1>3, <1>4, <1>5
  <2>2. tx \in Txs
    <3>1. \A i \in DOMAIN q : q[i] \in Txs
      BY <1>3, ElementOfSeq
    <3> QED  BY <2>1, <3>1 DEF Range
  <2>3. PICK a \in Accounts : a = Anchor(tx)
    BY <2>2, TxsType
  <2>4. Owners(epoch - 1)[a] = s
    BY <1>3, <1>6, <2>1, <2>3 DEF Homes
  <2>5. Owners(epoch)[a] \in Shards
    BY RoundNumbers, OwnersType
  <2>6. \A t \in Others(s) : a \notin Leaving(s, t)
    BY <1>1, <1>3, <2>1, <2>3, AccountMessageFacts
  <2> QED  BY <2>3, <2>4, <2>5, <2>6 DEF Leaving, Others
<1>8. ASSUME NEW t \in Shards
      PROVE  /\ \A tx \in Range(pool'[t]) : Home(t)'[Anchor(tx)] = t
             /\ stage'[t] = "block" =>
                  \A tx \in Range(request'[t].body) : PartitionMap'[t][Anchor(tx)] = t
  <2>1. CASE t = s
    BY <1>1, <1>6, <1>7, <2>1
  <2>2. CASE t # s
    BY <1>1, <1>2, <1>5, <1>6, <2>2 DEF Homes
  <2> QED  BY <2>1, <2>2
<1> QED  BY <1>2, <1>8 DEF Homes

\* The transactions that a shard received are those of accounts it gets.
LEMMA ProposeHomes ==
  ASSUME Handshake, Homes, NEW s \in Shards, proposePartition(s)
  PROVE  Homes'
<1>0. TypeOK /\ Indexed
  BY DEF Handshake
<1>1. /\ stage[s] = "sent" /\ s \in PartitionOn
      /\ stage' = [stage EXCEPT ![s] = "partition"]
      /\ request' = [request EXCEPT ![s] = PartitionRequest(s)]
      /\ UNCHANGED <<epoch, PartitionMap, panicked>>
  BY ProposeFacts DEF supervisor, chain, flags
<1>2. PICK received : Receives(s, received) /\ pool' = [pool EXCEPT ![s] = @ \o received]
  BY ProposeFacts
<1>3. PICK p \in Seq(Txs), q \in Seq(Txs) : p = pool[s] /\ q = received
  BY <1>0, <1>2 DEF TypeOK, Receives
<1>4. Range(p \o q) = Range(p) \cup Range(q)
  BY ConcatRange
<1>5. /\ pool'[s] = p \o q /\ stage'[s] = "partition"
      /\ \A t \in Shards \ {s} : pool'[t] = pool[t] /\ stage'[t] = stage[t] /\ request'[t] = request[t]
  BY <1>0, <1>1, <1>2, <1>3 DEF TypeOK, Indexed
<1>6. Home(s)' = Home(s) /\ Home(s) = Owners(epoch) /\ \A t \in Shards \ {s} : Home(t)' = Home(t)
  BY <1>1, <1>5 DEF Home, Owners, UpdatedUpTo
<1>7. ASSUME NEW tx \in Range(q) PROVE Owners(epoch)[Anchor(tx)] = s
  <2>1. PICK m \in AccountStateTx[s] : tx \in Range(m.txs)
    BY <1>2, <1>3 DEF Receives
  <2> QED  BY <1>1, <2>1, ReceivedAtHome
<1>8. ASSUME NEW t \in Shards
      PROVE  /\ \A tx \in Range(pool'[t]) : Home(t)'[Anchor(tx)] = t
             /\ stage'[t] = "block" =>
                  \A tx \in Range(request'[t].body) : PartitionMap'[t][Anchor(tx)] = t
  <2>1. CASE t = s
    <3>1. \A tx \in Range(p) : Home(s)[Anchor(tx)] = s
      BY <1>3 DEF Homes
    <3>2. \A tx \in Range(pool'[s]) : Home(s)'[Anchor(tx)] = s
      BY <1>4, <1>5, <1>6, <1>7, <3>1
    <3> QED  BY <1>5, <2>1, <3>2
  <2>2. CASE t # s
    BY <1>1, <1>5, <1>6, <2>2 DEF Homes
  <2> QED  BY <2>1, <2>2
<1> QED  BY <1>1, <1>8 DEF Homes

\* A block of transactions at home does no harm, and the map that is carried out is
\* the one by which transactions were collected.
LEMMA FinishHomes ==
  ASSUME Handshake, Homes, NEW s \in Shards, commitBlock(s) \/ accountTransfer_do(s)
  PROVE  Homes'
<1>0. TypeOK /\ Indexed
  BY DEF Handshake
<1>1. /\ stage' = [stage EXCEPT ![s] = "idle"] /\ request' = [request EXCEPT ![s] = NoRequest]
      /\ UNCHANGED <<epoch, pool>>
  BY DEF commitBlock, accountTransfer_do, supervisor
<1>2. stage'[s] = "idle" /\ \A t \in Shards \ {s} : stage'[t] = stage[t] /\ request'[t] = request[t]
  BY <1>0, <1>1 DEF TypeOK, Indexed
<1>3. panicked' = {} /\ Home(s)' = Home(s) /\ \A t \in Shards \ {s} : PartitionMap'[t] = PartitionMap[t]
  <2>1. CASE commitBlock(s)
    <3>1. stage[s] = "block" /\ PartitionMap' = PartitionMap
      BY <2>1 DEF commitBlock
    <3>2. PICK body : body = request[s].body
      OBVIOUS
    <3>3. \A tx \in Range(body) : PartitionMap[s][Anchor(tx)] = s
      BY <3>1, <3>2 DEF Homes
    <3>4. panicked' = panicked
      BY <2>1, <3>2, <3>3, CommitCases
    <3> QED  BY <1>2, <3>1, <3>4 DEF Home, Homes
  <2>2. CASE accountTransfer_do(s)
    <3>1. stage[s] = "partition" /\ PartitionMap' = [PartitionMap EXCEPT ![s] = Owners(epoch)]
      BY <2>2, DoFacts
    <3>2. panicked' = panicked
      BY <2>2 DEF accountTransfer_do, flags
    <3>3. PartitionMap'[s] = Owners(epoch) /\ \A t \in Shards \ {s} : PartitionMap'[t] = PartitionMap[t]
      BY <1>0, <3>1 DEF TypeOK
    <3> QED  BY <1>2, <3>1, <3>2, <3>3 DEF Home, Homes
  <2> QED  BY <2>1, <2>2
<1>4. \A t \in Shards \ {s} : Home(t)' = Home(t)
  BY <1>1, <1>2, <1>3 DEF Home, Owners, UpdatedUpTo
<1>5. ASSUME NEW t \in Shards
      PROVE  /\ \A tx \in Range(pool'[t]) : Home(t)'[Anchor(tx)] = t
             /\ stage'[t] = "block" =>
                  \A tx \in Range(request'[t].body) : PartitionMap'[t][Anchor(tx)] = t
  <2>1. CASE t = s
    BY <1>1, <1>2, <1>3, <2>1 DEF Homes
  <2>2. CASE t # s
    BY <1>1, <1>2, <1>3, <1>4, <2>2 DEF Homes
  <2> QED  BY <2>1, <2>2
<1> QED  BY <1>3, <1>5 DEF Homes

\* Every step keeps all transactions at home, unless one comes late.
LEMMA AtHomeStep == Handshake /\ Handshake' /\ AtHome /\ [Next]_vars => AtHome'
<1> SUFFICES ASSUME Handshake, Handshake', AtHome, [Next]_vars, ~late' PROVE Homes'
  <2>1. Handshake' => (AtHome' <=> late' \/ Homes')
    BY HomesFacts, PTL
  <2> QED  BY <2>1
<1>0. TypeOK
  BY DEF Handshake
<1>1. late => late'
  <2>1. ASSUME NEW s \in Shards, proposePartition(s) PROVE late' = late
    BY <2>1, ProposeFacts DEF flags
  <2> QED  BY <2>1 DEF Next, vars, flags, txSending, clpaMapSend, handleInjectTx, handleRelay,
                       handlePartitionMsg, handlePartitionReady, handleAccountStateAndTxMsg,
                       GenerateBlock, sendPartitionReady, sendAccounts_and_Txs, commitBlock,
                       accountTransfer_do
<1>2. Homes
  BY <1>1, HomesFacts
<1>3. CASE txSending \/ UNCHANGED vars
  BY <1>2, <1>3, HomesKept DEF txSending, vars, supervisor, chain, flags
<1>4. CASE clpaMapSend
  <2>1. \A s \in Shards : stage[s] \in {"idle", "block"}
    BY <1>4 DEF clpaMapSend, PeriodOver, Settled
  <2>2. UNCHANGED <<stage, request, pool, PartitionMap, panicked>>
    BY <1>4 DEF clpaMapSend, chain, flags
  <2>3. \A s \in Shards : Home(s)' = Home(s)
    BY <2>1, <2>2 DEF Home
  <2> QED  BY <1>2, <2>2, <2>3 DEF Homes
<1>5. ASSUME NEW m \in injects, handleInjectTx(m) PROVE Homes'
  <2>1. m.to \in Shards /\ m.txs \in Seq(Txs)
    BY <1>0 DEF TypeOK
  <2>2. /\ ~Misplaced(m.to, m.txs) /\ pool' = [pool EXCEPT ![m.to] = AddTxs2Pool(@, m.txs)]
        /\ UNCHANGED <<epoch, stage, request, PartitionMap, panicked>>
    BY <1>5 DEF handleInjectTx, supervisor, chain
  <2> QED  BY <1>2, <2>1, <2>2, ArrivalHomes
<1>6. ASSUME NEW m \in relays, handleRelay(m) PROVE Homes'
  <2>1. m.to \in Shards /\ m.txs \in Seq(Txs)
    BY <1>0 DEF TypeOK
  <2>2. /\ ~Misplaced(m.to, m.txs) /\ pool' = [pool EXCEPT ![m.to] = AddTxs2Pool(@, m.txs)]
        /\ UNCHANGED <<epoch, stage, request, PartitionMap, panicked>>
    BY <1>6 DEF handleRelay, supervisor, chain
  <2> QED  BY <1>2, <2>1, <2>2, ArrivalHomes
<1>7. CASE \/ \E m \in mapMsgs : handlePartitionMsg(m)
           \/ \E m \in readyMsgs : handlePartitionReady(m)
           \/ \E m \in accountMsgs : handleAccountStateAndTxMsg(m)
  BY <1>2, <1>7, HomesKept DEF handlePartitionMsg, handlePartitionReady, handleAccountStateAndTxMsg,
                               supervisor, chain, flags
<1>8. ASSUME NEW s \in Shards, GenerateBlock(s) PROVE Homes'
  BY <1>2, <1>8, GenerateHomes
<1>9. ASSUME NEW s \in Shards, sendPartitionReady(s) PROVE Homes'
  <2>1. UNCHANGED <<epoch, request, pool, PartitionMap, panicked>>
    BY <1>9 DEF sendPartitionReady, supervisor, chain, flags
  <2>2. /\ stage[s] = "idle" /\ stage'[s] = "ready" /\ \A t \in Shards \ {s} : stage'[t] = stage[t]
    BY <1>0, <1>9 DEF sendPartitionReady, TypeOK
  <2>3. \A t \in Shards : Home(t)' = Home(t)
    BY <2>1, <2>2 DEF Home, Owners, UpdatedUpTo
  <2> QED  BY <1>2, <2>1, <2>2, <2>3 DEF Homes
<1>10. ASSUME NEW s \in Shards, sendAccounts_and_Txs(s) PROVE Homes'
  BY <1>2, <1>10, SendHomes
<1>11. ASSUME NEW s \in Shards, proposePartition(s) PROVE Homes'
  BY <1>2, <1>11, ProposeHomes
<1>12. ASSUME NEW s \in Shards, commitBlock(s) \/ accountTransfer_do(s) PROVE Homes'
  BY <1>2, <1>12, FinishHomes
<1> QED  BY <1>3, <1>4, <1>5, <1>6, <1>7, <1>8, <1>9, <1>10, <1>11, <1>12 DEF Next

\* The only new messages with accounts are those of sendAccounts_and_Txs.
LEMMA ShapedStep == Handshake /\ Shaped /\ [Next]_vars => Shaped'
<1> SUFFICES ASSUME Handshake, Shaped, [Next]_vars PROVE Shaped'
  OBVIOUS
<1>1. CASE \E m \in accountMsgs : handleAccountStateAndTxMsg(m)
  BY <1>1, CollectFacts DEF Shaped
<1>2. ASSUME NEW s \in Shards, sendAccounts_and_Txs(s) PROVE Shaped'
  <2>1. AccountMessages' = AccountMessages \cup {AccountMessage(s, t) : t \in Others(s)}
    BY <1>2, SendFacts
  <2>2. \A t : DOMAIN AccountMessage(s, t) = {"from", "to", "accounts", "txs"}
    BY DEF AccountMessage
  <2> QED  BY <2>1, <2>2 DEF Shaped
<1>3. ASSUME NEW s \in Shards, accountTransfer_do(s) PROVE Shaped'
  BY <1>3, DoMessages DEF Shaped
<1>4. CASE UNCHANGED <<AccountStateTx, accountMsgs>>
  BY <1>4 DEF Shaped, AccountMessages
<1>5. ASSUME NEW s \in Shards, GenerateBlock(s) \/ sendPartitionReady(s) \/ commitBlock(s) PROVE Shaped'
  BY <1>4, <1>5 DEF GenerateBlock, sendPartitionReady, commitBlock, clpaData, network
<1>6. ASSUME NEW s \in Shards, proposePartition(s) PROVE Shaped'
  BY <1>4, <1>6, ProposeFacts DEF clpaData, network
<1>7. CASE txSending \/ clpaMapSend
  BY <1>4, <1>7 DEF txSending, clpaMapSend, clpaData
<1>8. CASE (\E m \in injects : handleInjectTx(m)) \/ (\E m \in relays : handleRelay(m))
  BY <1>4, <1>8 DEF handleInjectTx, handleRelay, clpaData
<1>9. CASE (\E m \in mapMsgs : handlePartitionMsg(m)) \/ (\E m \in readyMsgs : handlePartitionReady(m))
  BY <1>4, <1>9 DEF handlePartitionMsg, handlePartitionReady
<1>10. CASE UNCHANGED vars
  BY <1>4, <1>10 DEF vars, clpaData, network
<1> QED  BY <1>1, <1>2, <1>3, <1>5, <1>6, <1>7, <1>8, <1>9, <1>10 DEF Next

-----------------------------------------------------------------------------
(***************************************************************************)
(* Each transaction is in one place.                                       *)
(***************************************************************************)

\* A message is of one kind.
LEMMA KindsDiffer ==
  ASSUME Handshake, Shaped
  PROVE  injects \cap relays = {} /\ (injects \cup relays) \cap AccountMessages = {}
<1>1. \A m \in injects : DOMAIN m = {"to", "txs"}
  BY DEF Handshake, TypeOK
<1>2. \A m \in relays : DOMAIN m = {"from", "to", "seq", "txs"}
  BY DEF Handshake, TypeOK
<1>3. \A m \in AccountMessages : "accounts" \in DOMAIN m
  BY DEF Shaped
<1>4. \A m \in injects : "from" \notin DOMAIN m /\ "accounts" \notin DOMAIN m
  BY <1>1
<1>5. \A m \in relays : "from" \in DOMAIN m /\ "accounts" \notin DOMAIN m
  BY <1>2
<1> QED  BY <1>3, <1>4, <1>5

\* The messages whose transactions are in no pool, and where a transaction can be.
Waits(m) ==
  \/ m \in injects \/ m \in relays \/ m \in accountMsgs
  \/ \E t \in Shards : stage[t] # "partition" /\ m \in AccountStateTx[t]
Found(x) ==
  \/ \E s \in Shards : x \in Range(Held(s))
  \/ \E m \in Pending : x \in Range(m.txs)
Places == (\A m : m \in Pending <=> Waits(m)) /\ \A x : x \in Somewhere <=> Found(x)

\* Pending and Somewhere in these terms.
LEMMA PendingMembers == Places
<1>1. PICK U : U = UNION {AccountStateTx[s] : s \in {t \in Shards : stage[t] # "partition"}}
  OBVIOUS
<1>2. \A m : m \in U <=> \E t \in Shards : stage[t] # "partition" /\ m \in AccountStateTx[t]
  BY <1>1
<1>3. Pending = injects \cup relays \cup accountMsgs \cup U
  BY <1>1 DEF Pending
<1>4. PICK V : V = UNION {Range(Held(s)) : s \in Shards}
  OBVIOUS
<1>5. PICK W : W = UNION {Range(m.txs) : m \in Pending}
  OBVIOUS
<1>6. /\ Somewhere = V \cup W
      /\ \A x : /\ x \in V <=> \E s \in Shards : x \in Range(Held(s))
                /\ x \in W <=> \E m \in Pending : x \in Range(m.txs)
  <2>1. Somewhere = (UNION {Range(Held(s)) : s \in Shards}) \cup (UNION {Range(m.txs) : m \in Pending})
    BY DEF Somewhere
  <2>2. Somewhere = V \cup W
    BY <1>4, <1>5, <2>1
  <2>3. \A x : x \in V <=> \E s \in Shards : x \in Range(Held(s))
    BY <1>4
  <2>4. \A x : x \in W <=> \E m \in Pending : x \in Range(m.txs)
    BY <1>5
  <2> QED  BY <2>2, <2>3, <2>4
<1>7. \A x : x \in Somewhere <=> Found(x)
  BY <1>6 DEF Found
<1>8. \A m : m \in Pending <=> Waits(m)
  BY <1>2, <1>3 DEF Waits
<1> QED  BY <1>7, <1>8 DEF Places

\* The messages carry sequences of transactions.
LEMMA PendingType ==
  ASSUME Handshake
  PROVE  \A m \in Pending : m.txs \in Seq(Txs) /\ Range(m.txs) \subseteq Txs
<1>1. \A m \in Pending : m.txs \in Seq(Txs)
  <2>1. \A m \in AccountMessages \cup injects \cup relays : m.txs \in Seq(Txs)
    BY DEF Handshake, TypeOK
  <2>2. Pending \subseteq AccountMessages \cup injects \cup relays
    BY PendingMembers DEF AccountMessages, Places, Waits
  <2> QED  BY <2>1, <2>2
<1>2. ASSUME NEW q \in Seq(Txs) PROVE Range(q) \subseteq Txs
  <2>1. \A i \in DOMAIN q : q[i] \in Txs
    BY ElementOfSeq
  <2> QED  BY <2>1 DEF Range
<1> QED  BY <1>1, <1>2

\* What a shard holds.
HeldParts(s) ==
  /\ Held(s) \in Seq(Txs) /\ pool[s] \in Seq(Txs)
  /\ Range(Held(s)) \subseteq Txs
  /\ stage[s] # "block" => Held(s) = pool[s]
  /\ stage[s] = "block" =>
       /\ request[s].body \in Seq(Txs)
       /\ Range(Held(s)) = Range(pool[s]) \cup Range(request[s].body)
       /\ IsInjective(Held(s)) <=>
            /\ IsInjective(pool[s]) /\ IsInjective(request[s].body)
            /\ Range(pool[s]) \cap Range(request[s].body) = {}
HeldSplit == \A s \in Shards : HeldParts(s)

\* A shard that is not about to commit a block holds its pool, and another also the
\* transactions of the block.
LEMMA HeldFacts == Handshake => HeldSplit
<1> SUFFICES ASSUME Handshake, NEW s \in Shards PROVE HeldParts(s)
  BY DEF HeldSplit
<1>1. PICK p \in Seq(Txs) : p = pool[s]
  BY DEF Handshake, TypeOK
<1>2. ASSUME NEW q \in Seq(Txs) PROVE Range(q) \subseteq Txs
  <2>1. \A i \in DOMAIN q : q[i] \in Txs
    BY ElementOfSeq
  <2> QED  BY <2>1 DEF Range
<1>3. CASE stage[s] # "block"
  <2>1. Held(s) = p \o <<>>
    BY <1>1, <1>3 DEF Held
  <2>2. p \o <<>> = p
    BY ConcatEmptySeq
  <2> QED  BY <1>1, <1>2, <1>3, <2>1, <2>2 DEF HeldParts
<1>4. CASE stage[s] = "block"
  <2>1. PICK q \in Seq(Txs) : q = request[s].body
    BY <1>4, BlockRequest
  <2>2. Held(s) = p \o q
    BY <1>1, <1>4, <2>1 DEF Held
  <2>3. p \o q \in Seq(Txs) /\ Range(p \o q) = Range(p) \cup Range(q)
    BY ConcatRange
  <2>4. IsInjective(p \o q) <=> IsInjective(p) /\ IsInjective(q) /\ Range(p) \cap Range(q) = {}
    BY ConcatInjective
  <2>5. Range(p \o q) \subseteq Txs
    BY <1>2, <2>3
  <2> QED  BY <1>1, <1>4, <2>1, <2>2, <2>3, <2>4, <2>5 DEF HeldParts
<1> QED  BY <1>3, <1>4

\* Transactions change places: shard s holds others, the messages N are new, and of
\* the old ones O are left.  What s and N have now, no other shard and no message of O has.
Rearranged(s, O, N) ==
  /\ O \subseteq Pending
  /\ \A m : m \in Pending' <=> m \in O \/ m \in N
  /\ \A t \in Others(s) : Held(t)' = Held(t)
  /\ IsInjective(Held(s)')
  /\ \A m \in N : /\ IsInjective(m.txs) /\ Range(m.txs) \cap Range(Held(s)') = {}
                  /\ \A n \in N \ {m} : Range(m.txs) \cap Range(n.txs) = {}
                  /\ \A t \in Others(s) : Range(m.txs) \cap Range(Held(t)) = {}
                  /\ \A n \in O \ N : Range(m.txs) \cap Range(n.txs) = {}
  /\ \A t \in Others(s) : Range(Held(s)') \cap Range(Held(t)) = {}
  /\ \A n \in O \ N : Range(Held(s)') \cap Range(n.txs) = {}

\* So no transaction gets a second place.
LEMMA OneCopyMoved ==
  ASSUME OneCopy, NEW s \in Shards, NEW O, NEW N, Rearranged(s, O, N)
  PROVE  OneCopy'
<1> USE DEF Rearranged
<1>1. \A t : t \in Shards <=> t = s \/ t \in Others(s)
  BY DEF Others
<1>2. \A t \in Shards : \A u \in Others(t) : u \in Shards /\ u # t
  BY DEF Others
<1>3. ASSUME NEW t \in Shards
      PROVE  /\ IsInjective(Held(t)')
             /\ \A u \in Others(t) : Range(Held(t)') \cap Range(Held(u)') = {}
  <2>1. IsInjective(Held(t)')
    BY <1>1 DEF OneCopy
  <2>2. ASSUME NEW u \in Others(t) PROVE Range(Held(t)') \cap Range(Held(u)') = {}
    <3>1. CASE t = s
      BY <3>1
    <3>2. CASE u = s /\ t # s
      <4>1. t \in Others(s) /\ Held(t)' = Held(t)
        BY <1>1, <3>2
      <4>2. Range(Held(s)') \cap Range(Held(t)) = {}
        BY <4>1
      <4> QED  BY <3>2, <4>1, <4>2
    <3>3. CASE u # s /\ t # s
      <4>1. u \in Others(s) /\ t \in Others(s)
        BY <1>1, <1>2, <3>3
      <4>2. Held(u)' = Held(u) /\ Held(t)' = Held(t)
        BY <4>1
      <4>3. Range(Held(t)) \cap Range(Held(u)) = {}
        BY DEF OneCopy
      <4> QED  BY <4>2, <4>3
    <3> QED  BY <3>1, <3>2, <3>3
  <2> QED  BY <2>1, <2>2
<1>4. ASSUME NEW m, m \in O \/ m \in N
      PROVE  /\ IsInjective(m.txs)
             /\ \A n : (n \in O \/ n \in N) /\ n # m => Range(m.txs) \cap Range(n.txs) = {}
             /\ \A t \in Shards : Range(m.txs) \cap Range(Held(t)') = {}
  <2>1. CASE m \in N
    <3>1. ASSUME NEW n, n \in O \/ n \in N, n # m PROVE Range(m.txs) \cap Range(n.txs) = {}
      <4>1. CASE n \in N
        BY <2>1, <3>1, <4>1
      <4>2. CASE n \notin N
        <5>1. n \in O \ N
          BY <3>1, <4>2
        <5> QED  BY <2>1, <5>1
      <4> QED  BY <4>1, <4>2
    <3>2. \A t \in Shards : Range(m.txs) \cap Range(Held(t)') = {}
      BY <1>1, <2>1
    <3> QED  BY <2>1, <3>1, <3>2
  <2>2. CASE m \notin N
    <3>1. m \in O /\ m \in O \ N /\ m \in Pending
      BY <1>4, <2>2
    <3>2. ASSUME NEW n, n \in O \/ n \in N, n # m PROVE Range(m.txs) \cap Range(n.txs) = {}
      <4>1. CASE n \in N
        <5>1. Range(n.txs) \cap Range(m.txs) = {}
          BY <3>1, <4>1
        <5> QED  BY <5>1
      <4>2. CASE n \notin N
        <5>1. n \in Pending \ {m}
          BY <3>2, <4>2
        <5> QED  BY <3>1, <5>1 DEF OneCopy
      <4> QED  BY <4>1, <4>2
    <3>3. ASSUME NEW t \in Shards PROVE Range(m.txs) \cap Range(Held(t)') = {}
      <4>1. CASE t = s
        <5>1. Range(Held(s)') \cap Range(m.txs) = {}
          BY <3>1
        <5> QED  BY <4>1, <5>1
      <4>2. CASE t # s
        <5>1. Held(t)' = Held(t)
          BY <1>1, <4>2
        <5>2. Range(m.txs) \cap Range(Held(t)) = {}
          BY <3>1 DEF OneCopy
        <5> QED  BY <5>1, <5>2
      <4> QED  BY <4>1, <4>2
    <3>4. IsInjective(m.txs)
      BY <3>1 DEF OneCopy
    <3> QED  BY <3>2, <3>3, <3>4
  <2> QED  BY <2>1, <2>2
<1>5. ASSUME NEW m \in Pending'
      PROVE  /\ IsInjective(m.txs)
             /\ \A n \in Pending' \ {m} : Range(m.txs) \cap Range(n.txs) = {}
             /\ \A t \in Shards : Range(m.txs) \cap Range(Held(t)') = {}
  BY <1>4, <1>5
<1> QED  BY <1>3, <1>5 DEF OneCopy

\* The same in the next state.
LEMMA NextMembers ==
  /\ (\A m : m \in Pending' <=> Waits(m)') /\ (\A x : x \in Somewhere' <=> Found(x)')
  /\ Handshake' => \A s \in Shards : HeldParts(s)'
<1>1. Places'
  BY PendingMembers, PTL
<1>2. Handshake' => HeldSplit'
  BY HeldFacts, PTL
<1> QED  BY <1>1, <1>2 DEF Places, HeldSplit

\* Steps after which the same transactions are under way, and no line changes.
LEMMA PlacedKept ==
  ASSUME Placed, OneCopy', \A x : x \in Somewhere' <=> x \in Somewhere,
         UNCHANGED <<sent, transit, finished, unbacked>>
  PROVE  Placed'
<1>1. Somewhere' = Somewhere
  OBVIOUS
<1> QED  BY <1>1 DEF Placed

\* Steps that move no transaction.
LEMMA UnmovedPlaced ==
  ASSUME Placed, \A m : Waits(m)' <=> Waits(m), \A s \in Shards : Held(s)' = Held(s),
         UNCHANGED <<sent, transit, finished, unbacked>>
  PROVE  Placed'
<1>1. \A m : m \in Pending' <=> m \in Pending
  BY NextMembers, PendingMembers DEF Places
<1>2. Pending' = Pending
  BY <1>1
<1>3. OneCopy'
  BY <1>2 DEF Placed, OneCopy, Others
<1>4. \A x : x \in Somewhere' <=> x \in Somewhere
  BY <1>2, NextMembers, PendingMembers DEF Places, Found
<1> QED  BY <1>3, <1>4, PlacedKept

\* Transactions arrive in a pool.
LEMMA ArrivalPlaced ==
  ASSUME Handshake, Handshake', Shaped, Placed, NEW m, m \in injects \/ m \in relays,
         m.to \in Shards, pool' = [pool EXCEPT ![m.to] = AddTxs2Pool(@, m.txs)],
         injects' = injects \ {m}, relays' = relays \ {m},
         UNCHANGED <<stage, request, accountMsgs, AccountStateTx, sent, transit, finished, unbacked>>
  PROVE  Placed'
<1>0. OneCopy /\ TypeOK /\ m \in Pending
  BY PendingMembers DEF Placed, Handshake, Places, Waits
<1>1. \A n : n \in Pending' <=> n \in Pending /\ n # m
  <2>1. m \notin accountMsgs /\ \A t \in Shards : m \notin AccountStateTx[t]
    BY KindsDiffer DEF AccountMessages
  <2>2. \A n : Waits(n)' <=> Waits(n) /\ n # m
    BY <2>1 DEF Waits
  <2> QED  BY <2>2, NextMembers, PendingMembers DEF Places
<1>2. PICK s \in Shards, q \in Seq(Txs) : s = m.to /\ q = m.txs
  BY <1>0, PendingType
<1>3. PICK p \in Seq(Txs) : p = pool[s]
  BY <1>0 DEF TypeOK
<1>4. pool'[s] = p \o q /\ \A t \in Shards \ {s} : pool'[t] = pool[t]
  BY <1>0, <1>2, <1>3 DEF TypeOK, AddTxs2Pool
<1>5. \A t \in Others(s) : Held(t)' = Held(t)
  BY <1>4 DEF Held, Others
<1>6. /\ IsInjective(Held(s)) /\ IsInjective(q) /\ Range(q) \cap Range(Held(s)) = {}
      /\ \A t \in Others(s) : Range(Held(s)) \cap Range(Held(t)) = {} /\ Range(q) \cap Range(Held(t)) = {}
      /\ \A n \in Pending \ {m} : Range(Held(s)) \cap Range(n.txs) = {} /\ Range(q) \cap Range(n.txs) = {}
  <2>1. IsInjective(Held(s)) /\ IsInjective(q) /\ Range(q) \cap Range(Held(s)) = {}
    BY <1>0, <1>2 DEF OneCopy
  <2>2. ASSUME NEW t \in Others(s)
        PROVE  Range(Held(s)) \cap Range(Held(t)) = {} /\ Range(q) \cap Range(Held(t)) = {}
    <3>1. t \in Shards
      BY DEF Others
    <3> QED  BY <1>0, <1>2, <3>1 DEF OneCopy
  <2>3. ASSUME NEW n \in Pending \ {m}
        PROVE  Range(Held(s)) \cap Range(n.txs) = {} /\ Range(q) \cap Range(n.txs) = {}
    <3>1. Range(n.txs) \cap Range(Held(s)) = {}
      BY <1>0 DEF OneCopy
    <3>2. Range(m.txs) \cap Range(n.txs) = {}
      BY <1>0 DEF OneCopy
    <3> QED  BY <1>2, <3>1, <3>2
  <2> QED  BY <2>1, <2>2, <2>3
<1>7. Range(p \o q) = Range(p) \cup Range(q)
  BY ConcatRange
<1>8. IsInjective(p \o q) <=> IsInjective(p) /\ IsInjective(q) /\ Range(p) \cap Range(q) = {}
  BY ConcatInjective
<1>9. HeldParts(s) /\ HeldParts(s)'
  BY HeldFacts, NextMembers DEF HeldSplit
<1>10. Range(Held(s)') = Range(Held(s)) \cup Range(q) /\ IsInjective(Held(s)')
  <2>1. CASE stage[s] # "block"
    BY <1>3, <1>4, <1>6, <1>7, <1>8, <1>9, <2>1 DEF HeldParts
  <2>2. CASE stage[s] = "block"
    <3>1. PICK b : b = request[s].body
      OBVIOUS
    <3>2. /\ Range(Held(s)) = Range(p) \cup Range(b)
          /\ IsInjective(p) /\ IsInjective(b) /\ Range(p) \cap Range(b) = {}
      BY <1>3, <1>6, <1>9, <2>2, <3>1 DEF HeldParts
    <3>3. /\ Range(Held(s)') = Range(p \o q) \cup Range(b)
          /\ IsInjective(Held(s)') <=>
               IsInjective(p \o q) /\ IsInjective(b) /\ Range(p \o q) \cap Range(b) = {}
      BY <1>4, <1>9, <2>2, <3>1 DEF HeldParts
    <3>4. Range(p \o q) \cap Range(b) = {} /\ Range(p) \cap Range(q) = {}
      BY <1>6, <1>7, <3>2
    <3> QED  BY <1>6, <1>7, <1>8, <3>2, <3>3, <3>4
  <2> QED  BY <2>1, <2>2
<1>11. OneCopy'
  <2>1. PICK O, N : O = Pending \ {m} /\ N = {}
    OBVIOUS
  <2>2. O \subseteq Pending /\ \A n : n \in Pending' <=> n \in O \/ n \in N
    BY <1>1, <2>1
  <2>3. \A n \in N : /\ IsInjective(n.txs) /\ Range(n.txs) \cap Range(Held(s)') = {}
                     /\ \A k \in N \ {n} : Range(n.txs) \cap Range(k.txs) = {}
                     /\ \A t \in Others(s) : Range(n.txs) \cap Range(Held(t)) = {}
                     /\ \A k \in O \ N : Range(n.txs) \cap Range(k.txs) = {}
    BY <2>1
  <2>4. \A t \in Others(s) : Range(Held(s)') \cap Range(Held(t)) = {}
    BY <1>6, <1>10
  <2>5. \A n \in O \ N : Range(Held(s)') \cap Range(n.txs) = {}
    BY <1>6, <1>10, <2>1
  <2>6. IsInjective(Held(s)')
    BY <1>10
  <2>7. Rearranged(s, O, N)
    BY <1>5, <2>2, <2>3, <2>4, <2>5, <2>6 DEF Rearranged
  <2> QED  BY <1>0, <2>7, OneCopyMoved
<1>12. ASSUME NEW x PROVE x \in Somewhere' <=> x \in Somewhere
  <2>1. Found(x)' <=> \/ x \in Range(Held(s)')
                      \/ \E t \in Others(s) : x \in Range(Held(t)')
                      \/ \E n \in Pending' : x \in Range(n.txs)
    BY DEF Found, Others
  <2>2. Found(x) <=> \/ x \in Range(Held(s))
                     \/ \E t \in Others(s) : x \in Range(Held(t))
                     \/ \E n \in Pending : x \in Range(n.txs)
    BY DEF Found, Others
  <2>3. (\E n \in Pending : x \in Range(n.txs)) <=>
          x \in Range(q) \/ \E n \in Pending' : x \in Range(n.txs)
    BY <1>0, <1>1, <1>2
  <2> QED  BY <1>5, <1>10, <2>1, <2>2, <2>3, NextMembers, PendingMembers DEF Places
<1> QED  BY <1>11, <1>12, PlacedKept

\* Transactions go from the pool into a block.
LEMMA GeneratePlaced ==
  ASSUME Handshake, Handshake', Placed, NEW s \in Shards, GenerateBlock(s)
  PROVE  Placed'
<1>0. OneCopy /\ TypeOK /\ Indexed
  BY DEF Placed, Handshake
<1>1. PICK q \in Seq(Txs) : q = pool[s]
  BY <1>0 DEF TypeOK
<1>2. PICK body \in Seq(Txs), rest \in Seq(Txs) :
        body = PackTxs(q, BlockSize) /\ rest = AfterPack(q, BlockSize) /\ body \o rest = q
  BY ClpaAssumption, PackSplits
<1>3. /\ Range(body \o rest) = Range(body) \cup Range(rest)
      /\ IsInjective(body \o rest) <=> IsInjective(body) /\ IsInjective(rest) /\ Range(body) \cap Range(rest) = {}
  BY ConcatRange, ConcatInjective
<1>4. /\ pool'[s] = rest /\ stage'[s] = "block" /\ stage[s] = "idle"
      /\ \A t \in Shards \ {s} : pool'[t] = pool[t] /\ stage'[t] = stage[t] /\ request'[t] = request[t]
  BY <1>0, <1>1, <1>2 DEF TypeOK, Indexed, GenerateBlock
<1>5. request'[s].body = body
  <2>1. PICK st : request' = [request EXCEPT ![s] = [kind |-> "block", body |-> body, state |-> st]]
    BY <1>1, <1>2 DEF GenerateBlock
  <2>2. request'[s] = [kind |-> "block", body |-> body, state |-> st]
    BY <1>0, <2>1 DEF Indexed
  <2> QED  BY <2>2
<1>6. UNCHANGED <<sent, transit, finished, unbacked, injects, relays, accountMsgs, AccountStateTx>>
  BY DEF GenerateBlock, supervisor, chain, clpaData, network
<1>7. \A m : m \in Pending' <=> m \in Pending
  <2>1. \A m : Waits(m)' <=> Waits(m)
    BY <1>4, <1>6 DEF Waits
  <2> QED  BY <2>1, NextMembers, PendingMembers DEF Places
<1>8. \A t \in Others(s) : Held(t)' = Held(t)
  BY <1>4 DEF Held, Others
<1>9. HeldParts(s) /\ HeldParts(s)'
  BY HeldFacts, NextMembers DEF HeldSplit
<1>10. IsInjective(q) /\ Held(s) = q
  BY <1>0, <1>1, <1>4, <1>9 DEF HeldParts, OneCopy
<1>11. Range(Held(s)') = Range(Held(s)) /\ IsInjective(Held(s)')
  BY <1>2, <1>3, <1>4, <1>5, <1>9, <1>10 DEF HeldParts
<1>12. OneCopy'
  <2>1. PICK O, N : O = Pending /\ N = {}
    OBVIOUS
  <2>2. O \subseteq Pending /\ \A n : n \in Pending' <=> n \in O \/ n \in N
    BY <1>7, <2>1
  <2>3. \A n \in N : /\ IsInjective(n.txs) /\ Range(n.txs) \cap Range(Held(s)') = {}
                     /\ \A k \in N \ {n} : Range(n.txs) \cap Range(k.txs) = {}
                     /\ \A t \in Others(s) : Range(n.txs) \cap Range(Held(t)) = {}
                     /\ \A k \in O \ N : Range(n.txs) \cap Range(k.txs) = {}
    BY <2>1
  <2>4. \A t \in Others(s) : Range(Held(s)') \cap Range(Held(t)) = {}
    BY <1>0, <1>11 DEF OneCopy
  <2>5. \A n \in O \ N : Range(Held(s)') \cap Range(n.txs) = {}
    BY <1>0, <1>11, <2>1 DEF OneCopy
  <2>6. IsInjective(Held(s)')
    BY <1>11
  <2>7. Rearranged(s, O, N)
    BY <1>8, <2>2, <2>3, <2>4, <2>5, <2>6 DEF Rearranged
  <2> QED  BY <1>0, <2>7, OneCopyMoved
<1>13. ASSUME NEW x PROVE x \in Somewhere' <=> x \in Somewhere
  <2>1. \A t \in Shards : x \in Range(Held(t)') <=> x \in Range(Held(t))
    BY <1>8, <1>11 DEF Others
  <2>2. Found(x)' <=> Found(x)
    BY <1>7, <2>1 DEF Found
  <2> QED  BY <2>2, NextMembers, PendingMembers DEF Places
<1> QED  BY <1>6, <1>12, <1>13, PlacedKept

\* Transactions of the lines L, marked as relayed if they are in T.
Marks(L, T) == {Tx(l, l \in T) : l \in L}
MarkedIn(x, L, T) ==
  \E l \in L : (l \in T /\ x = Tx(l, TRUE)) \/ (l \notin T /\ x = Tx(l, FALSE))

\* The mark tells where the line is.
LEMMA Marked ==
  ASSUME NEW L, NEW T
  PROVE  \A x : x \in Marks(L, T) <=> MarkedIn(x, L, T)
<1>1. ASSUME NEW l, l \in T PROVE Tx(l, l \in T) = Tx(l, TRUE)
  <2>1. (l \in T) = TRUE
    BY <1>1, Zenon
  <2> QED  BY <2>1, Zenon
<1>2. ASSUME NEW l, l \notin T PROVE Tx(l, l \in T) = Tx(l, FALSE)
  <2>1. (l \in T) = FALSE
    BY <1>2
  <2> QED  BY <2>1, Zenon
<1>3. ASSUME NEW x
      PROVE  x \in {Tx(l, l \in T) : l \in L} <=>
               \E l \in L : (l \in T /\ x = Tx(l, TRUE)) \/ (l \notin T /\ x = Tx(l, FALSE))
  <2>1. x \in {Tx(l, l \in T) : l \in L} <=> \E l \in L : x = Tx(l, l \in T)
    BY Zenon
  <2> QED  BY <1>1, <1>2, <2>1, Zenon
<1> QED  BY <1>3 DEF Marks, MarkedIn

\* What is under way tells the line of a transaction and whether it was relayed.
LEMMA PlacedTx ==
  ASSUME Handshake, Placed
  PROVE  \A x \in Somewhere :
           /\ x \in Txs /\ x.line \in Lines /\ x.line \in 1..sent /\ x.line \notin finished
           /\ x.line \in transit => x = Tx(x.line, TRUE) /\ x.relayed = TRUE
           /\ x.line \notin transit => x = Tx(x.line, FALSE) /\ x.relayed = FALSE
<1> SUFFICES ASSUME NEW x \in Somewhere
             PROVE  /\ x \in Txs /\ x.line \in Lines /\ x.line \in 1..sent /\ x.line \notin finished
                    /\ x.line \in transit => x = Tx(x.line, TRUE) /\ x.relayed = TRUE
                    /\ x.line \notin transit => x = Tx(x.line, FALSE) /\ x.relayed = FALSE
  OBVIOUS
<1>1. PICK L, T : L = (1..sent) \ finished /\ T = transit
  OBVIOUS
<1>2. x \in Marks(L, T)
  BY <1>1 DEF Placed, Marks
<1>3. PICK l \in L : (l \in T /\ x = Tx(l, TRUE)) \/ (l \notin T /\ x = Tx(l, FALSE))
  <2>1. MarkedIn(x, L, T)
    BY <1>2, Marked
  <2> QED  BY <2>1 DEF MarkedIn
<1>4. l \in Lines
  BY <1>1, InputType DEF Handshake, TypeOK
<1>5. x.line = l /\ x \in Txs /\ (l \in T => x.relayed = TRUE) /\ (l \notin T => x.relayed = FALSE)
  BY <1>3, <1>4, TxsType
<1> QED  BY <1>1, <1>3, <1>4, <1>5

\* The same set in the next state.
LEMMA NextPlaced ==
  ASSUME OneCopy', NEW L, NEW T, T = transit', L = (1..sent') \ finished',
         \A x : x \in Somewhere' <=> MarkedIn(x, L, T),
         transit' \subseteq (1..sent') \ finished', finished' \subseteq 1..sent',
         unbacked' \subseteq transit' \cup finished'
  PROVE  Placed'
<1>1. \A x : x \in Somewhere' <=> x \in Marks(L, T)
  BY Marked
<1>2. Somewhere' = Marks(L, T)
  BY <1>1
<1> QED  BY <1>2 DEF Placed, Marks

\* The supervisor injects the next line.
LEMMA InjectPlaced ==
  ASSUME Handshake, Handshake', Placed, txSending
  PROVE  Placed'
<1>0. OneCopy /\ TypeOK
  BY DEF Placed, Handshake
<1>1. PICK l \in Lines : l = sent + 1 /\ sent \in Nat /\ sent' = l
  BY <1>0, InputType DEF txSending, TypeOK
<1>2. PICK s \in Shards : s = fetchModifiedMap(Input[sent + 1].sender)
  <2>1. epoch \in 0..Len(Maps)
    BY <1>0 DEF TypeOK
  <2> QED  BY <1>1, <2>1, InputType, OwnersType DEF fetchModifiedMap, Owners
<1>3. PICK x \in Txs : x = Tx(l, FALSE) /\ x.line = l /\ x.relayed = FALSE
  BY TxsType
<1>4. PICK m : m = [to |-> s, txs |-> <<x>>]
  OBVIOUS
<1>5. injects' = injects \cup {m}
  BY <1>1, <1>2, <1>3, <1>4 DEF txSending
<1>6. m.txs = <<x>> /\ Range(m.txs) = {x} /\ IsInjective(m.txs)
  <2>1. m.txs = <<x>>
    BY <1>4
  <2>2. DOMAIN <<x>> = {1} /\ <<x>>[1] = x
    OBVIOUS
  <2> QED  BY <2>1, <2>2 DEF Range, IsInjective
<1>7. UNCHANGED <<stage, request, pool, relays, accountMsgs, AccountStateTx, transit, finished, unbacked>>
  BY DEF txSending, chain, clpaData
<1>8. \A t \in Shards : Held(t)' = Held(t)
  BY <1>7 DEF Held
<1>9. \A n : n \in Pending' <=> n \in Pending \/ n = m
  <2>1. \A n : Waits(n)' <=> Waits(n) \/ n = m
    BY <1>5, <1>7 DEF Waits
  <2> QED  BY <2>1, NextMembers, PendingMembers DEF Places
<1>10. x \notin Somewhere
  <2>1. \A y \in Somewhere : y.line \in 1..sent
    BY PlacedTx
  <2>2. l \notin 1..sent
    BY <1>1
  <2> QED  BY <1>3, <2>1, <2>2
<1>11. (\A t \in Shards : x \notin Range(Held(t))) /\ \A n \in Pending : x \notin Range(n.txs)
  BY <1>10, PendingMembers DEF Places, Found
<1>12. OneCopy'
  <2>1. PICK O, N : O = Pending /\ N = {m}
    OBVIOUS
  <2>2. O \subseteq Pending /\ \A n : n \in Pending' <=> n \in O \/ n \in N
    BY <1>9, <2>1
  <2>3. \A t \in Others(s) : t \in Shards /\ Held(t)' = Held(t)
    BY <1>8 DEF Others
  <2>4. \A n \in N : /\ IsInjective(n.txs) /\ Range(n.txs) \cap Range(Held(s)') = {}
                     /\ \A k \in N \ {n} : Range(n.txs) \cap Range(k.txs) = {}
                     /\ \A t \in Others(s) : Range(n.txs) \cap Range(Held(t)) = {}
                     /\ \A k \in O \ N : Range(n.txs) \cap Range(k.txs) = {}
    BY <1>6, <1>8, <1>11, <2>1, <2>3
  <2>5. \A t \in Others(s) : Range(Held(s)') \cap Range(Held(t)) = {}
    BY <1>0, <1>8 DEF OneCopy
  <2>6. \A n \in O \ N : Range(Held(s)') \cap Range(n.txs) = {}
    BY <1>0, <1>8, <2>1 DEF OneCopy
  <2>7. IsInjective(Held(s)')
    BY <1>0, <1>8 DEF OneCopy
  <2>8. Rearranged(s, O, N)
    BY <2>2, <2>3, <2>4, <2>5, <2>6, <2>7 DEF Rearranged
  <2> QED  BY <1>0, <2>8, OneCopyMoved
<1>13. \A y : y \in Somewhere' <=> y \in Somewhere \/ y = x
  <2>1. \A y : Found(y)' <=> Found(y) \/ y = x
    BY <1>6, <1>8, <1>9 DEF Found
  <2> QED  BY <2>1, NextMembers, PendingMembers DEF Places
<1>14. transit \subseteq (1..sent) \ finished /\ finished \subseteq 1..sent /\ unbacked \subseteq transit \cup finished
  BY DEF Placed
<1>15. (1..sent') = (1..sent) \cup {l} /\ l \notin 1..sent
  BY <1>1
<1>16. l \notin transit /\ l \notin finished
  BY <1>14, <1>15
<1>17. PICK L, T, K : T = transit' /\ L = (1..sent') \ finished' /\ K = (1..sent) \ finished
  OBVIOUS
<1>18. \A y : y \in Somewhere <=> MarkedIn(y, K, T)
  <2>1. Somewhere = Marks(K, T)
    BY <1>7, <1>17 DEF Placed, Marks
  <2> QED  BY <2>1, Marked
<1>19. \A k : k \in L <=> k \in K \/ k = l
  BY <1>7, <1>15, <1>16, <1>17
<1>20. l \notin T /\ x = Tx(l, FALSE)
  BY <1>3, <1>7, <1>16, <1>17
<1>21. \A y : y \in Somewhere' <=> MarkedIn(y, L, T)
  BY <1>13, <1>18, <1>19, <1>20 DEF MarkedIn
<1>22. /\ transit' \subseteq (1..sent') \ finished' /\ finished' \subseteq 1..sent'
       /\ unbacked' \subseteq transit' \cup finished'
  BY <1>7, <1>14, <1>15
<1> QED  BY <1>12, <1>17, <1>21, <1>22, NextPlaced

\* The transactions of accounts that move go into the messages of sendAccounts_and_Txs.
LEMMA SendPlaced ==
  ASSUME Handshake, Handshake', Placed, NEW s \in Shards, sendAccounts_and_Txs(s)
  PROVE  Placed'
<1>0. OneCopy /\ TypeOK /\ Indexed
  BY DEF Placed, Handshake
<1>1. /\ stage[s] = "ready" /\ s \in PartitionOn
      /\ stage'[s] = "sent" /\ \A t \in Shards \ {s} : stage'[t] = stage[t]
      /\ accountMsgs' = accountMsgs \cup {AccountMessage(s, t) : t \in Others(s)}
      /\ AccountStateTx' = AccountStateTx
  BY SendFacts
<1>2. UNCHANGED <<request, sent, transit, finished, unbacked, injects, relays>>
  BY DEF sendAccounts_and_Txs, supervisor, chain
<1>3. PICK q, T : /\ q \in Seq(Txs) /\ q = pool[s]
                  /\ T = Range(pool[s]) \ UNION {Going(s, t) : t \in Others(s)}
  BY <1>0 DEF TypeOK
<1>4. PICK rest \in Seq(Txs) : /\ rest = Select(q, T) /\ Range(rest) = Range(q) \cap T
                               /\ IsInjective(q) => IsInjective(rest)
  BY <1>3, SelectProperties
<1>5. pool'[s] = rest /\ \A t \in Shards \ {s} : pool'[t] = pool[t]
  <2>1. pool' = [pool EXCEPT ![s] = rest]
    BY <1>3, <1>4, SendFacts
  <2> QED  BY <1>0, <2>1 DEF TypeOK
<1>6. HeldParts(s) /\ HeldParts(s)'
  BY HeldFacts, NextMembers DEF HeldSplit
<1>7. Held(s) = q /\ Held(s)' = rest
  BY <1>1, <1>3, <1>5, <1>6 DEF HeldParts
<1>8. \A t \in Others(s) : Held(t)' = Held(t)
  BY <1>1, <1>2, <1>5 DEF Held, Others
<1>9. PICK N : N = {AccountMessage(s, t) : t \in Others(s)}
  OBVIOUS
<1>10. \A n : n \in Pending' <=> n \in Pending \/ n \in N
  <2>1. \A n : Waits(n)' <=> Waits(n) \/ n \in N
    BY <1>1, <1>2, <1>9 DEF Waits
  <2> QED  BY <2>1, NextMembers, PendingMembers DEF Places
<1>11. IsInjective(q)
  BY <1>0, <1>7 DEF OneCopy
<1>12. ASSUME NEW t \in Others(s), NEW m, m = AccountMessage(s, t)
       PROVE  IsInjective(m.txs) /\ Range(m.txs) = Going(s, t) /\ Going(s, t) \subseteq Range(q)
  <2>1. m.txs = Select(pool[s], Going(s, t)) /\ Range(m.txs) = Going(s, t)
    BY <1>1, <1>12, AccountMessageFacts
  <2>2. PICK G : G = Going(s, t)
    OBVIOUS
  <2>3. IsInjective(q) => IsInjective(Select(q, G))
    BY <1>3, SelectProperties
  <2>4. Going(s, t) \subseteq Range(q)
    BY <1>3 DEF Going
  <2> QED  BY <1>3, <1>11, <2>1, <2>2, <2>3, <2>4
<1>13. ASSUME NEW t \in Others(s), NEW u \in Others(s), t # u PROVE Going(s, t) \cap Going(s, u) = {}
  <2>1. /\ Going(s, t) = {tx \in Range(pool[s]) : Anchor(tx) \in Leaving(s, t)}
        /\ Going(s, u) = {tx \in Range(pool[s]) : Anchor(tx) \in Leaving(s, u)}
    BY <1>1, AccountMessageFacts
  <2>2. Leaving(s, t) \cap Leaving(s, u) = {}
    BY <1>13 DEF Leaving
  <2> QED  BY <2>1, <2>2
<1>14. \A t \in Others(s) : Going(s, t) \cap Range(rest) = {}
  BY <1>3, <1>4
<1>15. \A m \in N : /\ IsInjective(m.txs) /\ Range(m.txs) \subseteq Range(q)
                    /\ Range(m.txs) \cap Range(rest) = {}
                    /\ \A n \in N \ {m} : Range(m.txs) \cap Range(n.txs) = {}
  <2>1. ASSUME NEW m \in N
        PROVE  /\ IsInjective(m.txs) /\ Range(m.txs) \subseteq Range(q)
               /\ Range(m.txs) \cap Range(rest) = {}
    <3>1. PICK t \in Others(s) : m = AccountMessage(s, t)
      BY <1>9
    <3> QED  BY <1>12, <1>14, <3>1
  <2>2. ASSUME NEW m \in N, NEW n \in N, m # n PROVE Range(m.txs) \cap Range(n.txs) = {}
    <3>1. PICK t \in Others(s) : m = AccountMessage(s, t)
      BY <1>9
    <3>2. PICK u \in Others(s) : n = AccountMessage(s, u)
      BY <1>9
    <3>3. t # u
      BY <2>2, <3>1, <3>2
    <3>4. Range(m.txs) = Going(s, t) /\ Range(n.txs) = Going(s, u)
      BY <1>12, <3>1, <3>2
    <3> QED  BY <1>13, <3>3, <3>4
  <2> QED  BY <2>1, <2>2
<1>16. (\A t \in Others(s) : Range(q) \cap Range(Held(t)) = {}) /\ \A n \in Pending : Range(q) \cap Range(n.txs) = {}
  BY <1>0, <1>7 DEF OneCopy
<1>17. OneCopy'
  <2>1. PICK O : O = Pending
    OBVIOUS
  <2>2. O \subseteq Pending /\ \A n : n \in Pending' <=> n \in O \/ n \in N
    BY <1>10, <2>1
  <2>3. ASSUME NEW m \in N
        PROVE  /\ IsInjective(m.txs) /\ Range(m.txs) \cap Range(Held(s)') = {}
               /\ \A n \in N \ {m} : Range(m.txs) \cap Range(n.txs) = {}
               /\ \A t \in Others(s) : Range(m.txs) \cap Range(Held(t)) = {}
               /\ \A n \in O \ N : Range(m.txs) \cap Range(n.txs) = {}
    <3>1. \A t \in Others(s) : Range(m.txs) \cap Range(Held(t)) = {}
      BY <1>15, <1>16
    <3>2. \A n \in O \ N : Range(m.txs) \cap Range(n.txs) = {}
      BY <1>15, <1>16, <2>1
    <3> QED  BY <1>7, <1>15, <3>1, <3>2
  <2>4. \A t \in Others(s) : Range(Held(s)') \cap Range(Held(t)) = {}
    BY <1>4, <1>7, <1>16
  <2>5. \A n \in O \ N : Range(Held(s)') \cap Range(n.txs) = {}
    BY <1>4, <1>7, <1>16, <2>1
  <2>6. IsInjective(Held(s)')
    BY <1>4, <1>7, <1>11
  <2>7. Rearranged(s, O, N)
    BY <1>8, <2>2, <2>3, <2>4, <2>5, <2>6 DEF Rearranged
  <2> QED  BY <1>0, <2>7, OneCopyMoved
<1>18. ASSUME NEW x PROVE x \in Somewhere' <=> x \in Somewhere
  <2>1. x \in Range(q) <=> x \in Range(rest) \/ \E m \in N : x \in Range(m.txs)
    <3>1. ASSUME x \in Range(q), x \notin Range(rest) PROVE \E m \in N : x \in Range(m.txs)
      <4>1. PICK t \in Others(s) : x \in Going(s, t)
        BY <1>3, <1>4, <3>1
      <4>2. PICK m : m = AccountMessage(s, t)
        OBVIOUS
      <4> QED  BY <1>9, <1>12, <4>1, <4>2
    <3>2. \A m \in N : Range(m.txs) \subseteq Range(q)
      BY <1>15
    <3> QED  BY <1>4, <3>1, <3>2
  <2>2. Found(x)' <=> \/ x \in Range(rest)
                      \/ \E t \in Others(s) : x \in Range(Held(t))
                      \/ \E n \in N : x \in Range(n.txs)
                      \/ \E n \in Pending : x \in Range(n.txs)
    <3>1. Found(x)' <=> \/ x \in Range(Held(s)')
                        \/ \E t \in Others(s) : x \in Range(Held(t)')
                        \/ \E n \in Pending' : x \in Range(n.txs)
      BY DEF Found, Others
    <3>2. (\E n \in Pending' : x \in Range(n.txs)) <=>
            (\E n \in N : x \in Range(n.txs)) \/ \E n \in Pending : x \in Range(n.txs)
      BY <1>10
    <3> QED  BY <1>7, <1>8, <3>1, <3>2
  <2>3. Found(x) <=> \/ x \in Range(q)
                     \/ \E t \in Others(s) : x \in Range(Held(t))
                     \/ \E n \in Pending : x \in Range(n.txs)
    BY <1>7 DEF Found, Others
  <2> QED  BY <2>1, <2>2, <2>3, NextMembers, PendingMembers DEF Places
<1> QED  BY <1>2, <1>17, <1>18, PlacedKept

\* The messages that a shard has collected are put into its pool.
LEMMA ProposePlaced ==
  ASSUME Handshake, Handshake', Shaped, Placed, NEW s \in Shards, proposePartition(s)
  PROVE  Placed'
<1>0. OneCopy /\ TypeOK /\ Indexed /\ AccountsUnderway
  BY DEF Placed, Handshake
<1>1. /\ stage[s] = "sent" /\ stage'[s] = "partition"
      /\ \A t \in Shards \ {s} : stage'[t] = stage[t] /\ request'[t] = request[t]
  BY <1>0, ProposeFacts DEF TypeOK, Indexed
<1>2. UNCHANGED <<sent, transit, finished, unbacked, injects, relays, accountMsgs, AccountStateTx>>
  BY ProposeFacts DEF supervisor, chain, clpaData, network
<1>3. PICK received : Receives(s, received) /\ pool' = [pool EXCEPT ![s] = @ \o received]
  BY ProposeFacts
<1>4. PICK p, q, M : /\ p \in Seq(Txs) /\ q \in Seq(Txs)
                     /\ p = pool[s] /\ q = received /\ M = AccountStateTx[s]
  BY <1>0, <1>3 DEF TypeOK, Receives
<1>5. pool'[s] = p \o q /\ \A t \in Shards \ {s} : pool'[t] = pool[t]
  BY <1>0, <1>3, <1>4 DEF TypeOK
<1>6. HeldParts(s) /\ HeldParts(s)'
  BY HeldFacts, NextMembers DEF HeldSplit
<1>7. Held(s) = p /\ Held(s)' = p \o q
  BY <1>1, <1>4, <1>5, <1>6 DEF HeldParts
<1>8. \A t \in Others(s) : Held(t)' = Held(t)
  BY <1>1, <1>5 DEF Held, Others
<1>9. \A m \in M : Waits(m) /\ m \in Pending
  BY <1>1, <1>4, PendingMembers DEF Waits, Places
<1>10. \A n : n \in Pending' <=> n \in Pending /\ n \notin M
  <2>1. \A m \in M : m \notin injects /\ m \notin relays
    BY <1>4, KindsDiffer DEF AccountMessages
  <2>2. \A m \in M : m \notin accountMsgs /\ \A t \in Shards \ {s} : m \notin AccountStateTx[t]
    BY <1>0, <1>4 DEF AccountsUnderway
  <2>3. \A n : Waits(n)' <=> Waits(n) /\ n \notin M
    <3>1. ASSUME NEW n, Waits(n)' PROVE Waits(n) /\ n \notin M
      BY <1>1, <1>2, <2>1, <2>2, <3>1 DEF Waits
    <3>2. ASSUME NEW n, Waits(n), n \notin M PROVE Waits(n)'
      BY <1>1, <1>2, <1>4, <3>2 DEF Waits
    <3> QED  BY <3>1, <3>2
  <2> QED  BY <2>3, NextMembers, PendingMembers DEF Places
<1>11. \A m \in M : /\ IsInjective(m.txs) /\ Range(m.txs) \cap Range(p) = {}
                    /\ \A n \in Pending \ {m} : Range(m.txs) \cap Range(n.txs) = {}
                    /\ \A t \in Others(s) : Range(m.txs) \cap Range(Held(t)) = {}
  BY <1>0, <1>7, <1>9 DEF OneCopy, Others
<1>12. (\A x : x \in Range(q) <=> \E m \in M : x \in Range(m.txs)) /\ IsInjective(q)
  <2>1. Range(q) = UNION {Range(m.txs) : m \in M}
    BY <1>3, <1>4 DEF Receives
  <2>2. IsInjective(q)
    BY <1>3, <1>4, <1>9, <1>11 DEF Receives
  <2> QED  BY <2>1, <2>2
<1>13. /\ Range(p \o q) = Range(p) \cup Range(q)
       /\ IsInjective(p \o q) <=> IsInjective(p) /\ IsInjective(q) /\ Range(p) \cap Range(q) = {}
  BY <1>4, ConcatRange, ConcatInjective
<1>14. IsInjective(p) /\ Range(p) \cap Range(q) = {}
  <2>1. IsInjective(p)
    BY <1>0, <1>7 DEF OneCopy
  <2> QED  BY <1>11, <1>12, <2>1
<1>15. OneCopy'
  <2>1. PICK O, N : O = Pending' /\ N = {}
    OBVIOUS
  <2>2. O \subseteq Pending /\ \A n : n \in Pending' <=> n \in O \/ n \in N
    BY <1>10, <2>1
  <2>3. \A n \in N : /\ IsInjective(n.txs) /\ Range(n.txs) \cap Range(Held(s)') = {}
                     /\ \A k \in N \ {n} : Range(n.txs) \cap Range(k.txs) = {}
                     /\ \A t \in Others(s) : Range(n.txs) \cap Range(Held(t)) = {}
                     /\ \A k \in O \ N : Range(n.txs) \cap Range(k.txs) = {}
    BY <2>1
  <2>4. \A t \in Others(s) : Range(p) \cap Range(Held(t)) = {} /\ Range(q) \cap Range(Held(t)) = {}
    <3>1. \A t \in Others(s) : Range(p) \cap Range(Held(t)) = {}
      BY <1>0, <1>7 DEF OneCopy
    <3> QED  BY <1>11, <1>12, <3>1
  <2>5. \A n \in O : Range(p) \cap Range(n.txs) = {} /\ Range(q) \cap Range(n.txs) = {}
    <3>1. ASSUME NEW n \in O PROVE Range(p) \cap Range(n.txs) = {}
      <4>1. n \in Pending
        BY <1>10, <2>1
      <4> QED  BY <1>0, <1>7, <4>1 DEF OneCopy
    <3>2. ASSUME NEW n \in O PROVE Range(q) \cap Range(n.txs) = {}
      <4>1. \A m \in M : n \in Pending \ {m}
        BY <1>10, <2>1
      <4>2. \A m \in M : Range(m.txs) \cap Range(n.txs) = {}
        BY <1>11, <4>1
      <4> QED  BY <1>12, <4>2
    <3> QED  BY <3>1, <3>2
  <2>6. \A t \in Others(s) : Range(Held(s)') \cap Range(Held(t)) = {}
    BY <1>7, <1>13, <2>4
  <2>7. \A n \in O \ N : Range(Held(s)') \cap Range(n.txs) = {}
    BY <1>7, <1>13, <2>5
  <2>8. IsInjective(Held(s)')
    BY <1>7, <1>12, <1>13, <1>14
  <2>9. Rearranged(s, O, N)
    BY <1>8, <2>2, <2>3, <2>6, <2>7, <2>8 DEF Rearranged
  <2> QED  BY <1>0, <2>9, OneCopyMoved
<1>16. ASSUME NEW x PROVE x \in Somewhere' <=> x \in Somewhere
  <2>1. Found(x)' <=> \/ x \in Range(Held(s)')
                      \/ \E t \in Others(s) : x \in Range(Held(t)')
                      \/ \E n \in Pending' : x \in Range(n.txs)
    BY DEF Found, Others
  <2>2. Found(x) <=> \/ x \in Range(Held(s))
                     \/ \E t \in Others(s) : x \in Range(Held(t))
                     \/ \E n \in Pending : x \in Range(n.txs)
    BY DEF Found, Others
  <2>3. (\E n \in Pending : x \in Range(n.txs)) <=>
          x \in Range(q) \/ \E n \in Pending' : x \in Range(n.txs)
    BY <1>9, <1>10, <1>12
  <2> QED  BY <1>7, <1>8, <1>13, <2>1, <2>2, <2>3, NextMembers, PendingMembers DEF Places
<1> QED  BY <1>2, <1>15, <1>16, PlacedKept

\* A committed block: the transactions it relays go on as relayed ones, and the
\* others are finished.
LEMMA CommitPlaced ==
  ASSUME Handshake, Handshake', Placed, NEW s \in Shards, commitBlock(s), panicked' = {}
  PROVE  Placed'
<1>0. OneCopy /\ TypeOK /\ Indexed
  BY DEF Placed, Handshake
<1>1. stage[s] = "block" /\ UNCHANGED <<sent, pool, injects, accountMsgs, AccountStateTx>>
  BY DEF commitBlock, supervisor, clpaData
<1>2. PICK body \in Seq(Txs) : body = request[s].body
  BY <1>1, BlockRequest
<1>3. /\ stage'[s] = "idle"
      /\ \A t \in Shards \ {s} : stage'[t] = stage[t] /\ request'[t] = request[t]
  BY <1>0 DEF commitBlock, TypeOK, Indexed
<1>4. PICK all, out, N : /\ all = LinesOf(Range(body)) /\ out = LinesOf(Outgoing(s, body))
                         /\ N = {RelayOf(s, body, t) : t \in Others(s)}
  OBVIOUS
<1>5. /\ relays' = relays \cup N
      /\ transit' = (transit \ all) \cup out
      /\ unbacked' = unbacked \cup (SkippedLines(s, body) \cap out)
      /\ finished' = finished \cup (all \ out)
  <2>1. s \notin panicked'
    OBVIOUS
  <2>2. panicked' # panicked \cup {s}
    BY <2>1
  <2> QED  BY <1>2, <1>4, <2>2, CommitCases
<1>6. HeldParts(s) /\ HeldParts(s)'
  BY HeldFacts, NextMembers DEF HeldSplit
<1>7. PICK p \in Seq(Txs) : p = pool[s] /\ Held(s)' = p
  BY <1>1, <1>3, <1>6 DEF HeldParts
<1>8. /\ Range(Held(s)) = Range(p) \cup Range(body) /\ IsInjective(p) /\ IsInjective(body)
      /\ Range(p) \cap Range(body) = {}
  BY <1>0, <1>1, <1>2, <1>6, <1>7 DEF HeldParts, OneCopy
<1>9. \A t \in Others(s) : Held(t)' = Held(t)
  BY <1>1, <1>3 DEF Held, Others
<1>10. \A n : n \in Pending' <=> n \in Pending \/ n \in N
  <2>1. \A n : Waits(n)' <=> Waits(n) \/ n \in N
    BY <1>1, <1>3, <1>5 DEF Waits
  <2> QED  BY <2>1, NextMembers, PendingMembers DEF Places
<1>11. \A y : y \in Somewhere <=> \/ y \in Range(p) \/ y \in Range(body)
                                  \/ \E t \in Others(s) : y \in Range(Held(t))
                                  \/ \E n \in Pending : y \in Range(n.txs)
  BY <1>8, PendingMembers DEF Places, Found, Others
<1>12. \A tx \in Somewhere :
           /\ tx \in Txs /\ tx.line \in Lines /\ tx.line \in 1..sent /\ tx.line \notin finished
           /\ tx.line \in transit => tx = Tx(tx.line, TRUE) /\ tx.relayed = TRUE
           /\ tx.line \notin transit => tx = Tx(tx.line, FALSE) /\ tx.relayed = FALSE
  BY PlacedTx
<1>13. \A tx \in Range(body) : tx \in Somewhere
  BY <1>11
<1>14. \A x, y \in Somewhere : x.line = y.line => x = y
  BY <1>12
<1>15. \A tx \in Outgoing(s, body) : /\ tx \in Range(body) /\ tx.relayed = FALSE /\ tx.line \notin transit
                                     /\ \E t \in Others(s) : tx \in PaidIn(s, body, t)
  <2>1. \A tx \in Outgoing(s, body) : \E t \in Others(s) : tx \in PaidIn(s, body, t)
    BY DEF Outgoing
  <2>2. \A t : \A tx \in PaidIn(s, body, t) : tx \in Range(body) /\ ~tx.relayed
    BY DEF PaidIn
  <2>3. \A tx \in Range(body) : ~tx.relayed => tx.relayed = FALSE /\ tx.line \notin transit
    BY <1>12, <1>13
  <2> QED  BY <2>1, <2>2, <2>3
<1>16. \A t \in Others(s) : PaidIn(s, body, t) \subseteq Outgoing(s, body)
  BY DEF Outgoing
<1>17. ASSUME NEW tx \in Outgoing(s, body)
       PROVE  /\ Tx(tx.line, TRUE) \notin Somewhere /\ Tx(tx.line, TRUE).line = tx.line
  <2>1. Tx(tx.line, TRUE).line = tx.line /\ Tx(tx.line, TRUE).relayed = TRUE
    BY <1>12, <1>13, <1>15, TxsType
  <2> QED  BY <1>12, <1>15, <2>1
<1>18. ASSUME NEW t \in Others(s), NEW m, m = RelayOf(s, body, t)
       PROVE  /\ IsInjective(m.txs)
              /\ Range(m.txs) = {Tx(tx.line, TRUE) : tx \in PaidIn(s, body, t)}
  <2>1. m.txs = RelayTxs(s, body, t)
    BY <1>18 DEF RelayOf
  <2>2. /\ Range(RelayTxs(s, body, t)) = {Tx(tx.line, TRUE) : tx \in PaidIn(s, body, t)}
        /\ IsInjective(RelayTxs(s, body, t))
    BY <1>8, RelayTxsProperties
  <2> QED  BY <2>1, <2>2
<1>19. \A m \in N : /\ IsInjective(m.txs)
                    /\ \A x \in Range(m.txs) : \E tx \in Outgoing(s, body) : x = Tx(tx.line, TRUE)
                    /\ \A n \in N \ {m} : Range(m.txs) \cap Range(n.txs) = {}
  <2>1. ASSUME NEW m \in N
        PROVE  /\ IsInjective(m.txs)
               /\ \A x \in Range(m.txs) : \E tx \in Outgoing(s, body) : x = Tx(tx.line, TRUE)
    <3>1. PICK t \in Others(s) : m = RelayOf(s, body, t)
      BY <1>4
    <3>2. /\ IsInjective(m.txs)
          /\ Range(m.txs) = {Tx(tx.line, TRUE) : tx \in PaidIn(s, body, t)}
      BY <1>18, <3>1
    <3> QED  BY <1>16, <3>2
  <2>2. ASSUME NEW m \in N, NEW n \in N, m # n, NEW x, x \in Range(m.txs), x \in Range(n.txs)
        PROVE  FALSE
    <3>1. PICK t \in Others(s) : m = RelayOf(s, body, t)
      BY <1>4
    <3>2. PICK u \in Others(s) : n = RelayOf(s, body, u)
      BY <1>4
    <3>3. PICK tx \in PaidIn(s, body, t) : x = Tx(tx.line, TRUE)
      <4>1. Range(m.txs) = {Tx(tx.line, TRUE) : tx \in PaidIn(s, body, t)}
        BY <1>18, <3>1
      <4> QED  BY <2>2, <4>1
    <3>4. PICK ty \in PaidIn(s, body, u) : x = Tx(ty.line, TRUE)
      <4>1. Range(n.txs) = {Tx(k.line, TRUE) : k \in PaidIn(s, body, u)}
        BY <1>18, <3>2
      <4> QED  BY <2>2, <4>1
    <3>5. tx \in Outgoing(s, body) /\ ty \in Outgoing(s, body)
      BY <1>16
    <3>6. tx.line = ty.line
      BY <1>17, <3>3, <3>4, <3>5
    <3>7. tx = ty
      BY <1>13, <1>14, <1>15, <3>5, <3>6
    <3>8. t = u
      BY <3>7 DEF PaidIn
    <3> QED  BY <2>2, <3>1, <3>2, <3>8
  <2>3. \A m \in N : \A n \in N \ {m} : Range(m.txs) \cap Range(n.txs) = {}
    BY <2>2
  <2> QED  BY <2>1, <2>3
<1>20. \A m \in N : \A x \in Range(m.txs) : x \notin Somewhere
  <2>1. ASSUME NEW m \in N, NEW x \in Range(m.txs) PROVE x \notin Somewhere
    <3>1. PICK tx \in Outgoing(s, body) : x = Tx(tx.line, TRUE)
      BY <1>19
    <3> QED  BY <1>17, <3>1
  <2> QED  BY <2>1
<1>21. OneCopy'
  <2>1. PICK O : O = Pending
    OBVIOUS
  <2>2. O \subseteq Pending /\ \A n : n \in Pending' <=> n \in O \/ n \in N
    BY <1>10, <2>1
  <2>3. ASSUME NEW m \in N
        PROVE  /\ IsInjective(m.txs) /\ Range(m.txs) \cap Range(Held(s)') = {}
               /\ \A n \in N \ {m} : Range(m.txs) \cap Range(n.txs) = {}
               /\ \A t \in Others(s) : Range(m.txs) \cap Range(Held(t)) = {}
               /\ \A n \in O \ N : Range(m.txs) \cap Range(n.txs) = {}
    <3>1. \A t \in Others(s) : Range(m.txs) \cap Range(Held(t)) = {}
      BY <1>11, <1>20
    <3>2. \A n \in O \ N : Range(m.txs) \cap Range(n.txs) = {}
      BY <1>11, <1>20, <2>1
    <3>3. Range(m.txs) \cap Range(Held(s)') = {}
      BY <1>7, <1>11, <1>20
    <3> QED  BY <1>19, <3>1, <3>2, <3>3
  <2>4. \A t \in Others(s) : Range(Held(s)) \cap Range(Held(t)) = {}
    BY <1>0 DEF OneCopy
  <2>5. \A n \in Pending : Range(Held(s)) \cap Range(n.txs) = {}
    BY <1>0 DEF OneCopy
  <2>6. \A t \in Others(s) : Range(Held(s)') \cap Range(Held(t)) = {}
    BY <1>7, <1>8, <2>4
  <2>7. \A n \in O \ N : Range(Held(s)') \cap Range(n.txs) = {}
    BY <1>7, <1>8, <2>1, <2>5
  <2>8. Rearranged(s, O, N)
    BY <1>7, <1>8, <1>9, <2>2, <2>3, <2>6, <2>7 DEF Rearranged
  <2> QED  BY <1>0, <2>8, OneCopyMoved
<1>22. ASSUME NEW x
       PROVE  x \in Somewhere' <=>
                \/ x \in Somewhere /\ x \notin Range(body)
                \/ \E tx \in Outgoing(s, body) : x = Tx(tx.line, TRUE)
  <2>1. (\E m \in N : x \in Range(m.txs)) <=> \E tx \in Outgoing(s, body) : x = Tx(tx.line, TRUE)
    <3>1. ASSUME NEW tx \in Outgoing(s, body), x = Tx(tx.line, TRUE) PROVE \E m \in N : x \in Range(m.txs)
      <4>1. PICK t \in Others(s) : tx \in PaidIn(s, body, t)
        BY <1>15
      <4>2. PICK m : m = RelayOf(s, body, t)
        OBVIOUS
      <4> QED  BY <1>4, <1>18, <3>1, <4>1, <4>2
    <3> QED  BY <1>19, <3>1
  <2>2. Found(x)' <=> \/ x \in Range(Held(s)')
                      \/ \E t \in Others(s) : x \in Range(Held(t)')
                      \/ \E n \in Pending' : x \in Range(n.txs)
    BY DEF Found, Others
  <2>3. (\E n \in Pending' : x \in Range(n.txs)) <=>
          (\E m \in N : x \in Range(m.txs)) \/ \E n \in Pending : x \in Range(n.txs)
    BY <1>10
  <2>4. x \in Somewhere /\ x \notin Range(body) <=>
          \/ x \in Range(p)
          \/ \E t \in Others(s) : x \in Range(Held(t))
          \/ \E n \in Pending : x \in Range(n.txs)
    <3>1. \A t \in Others(s) : Range(Held(s)) \cap Range(Held(t)) = {}
      BY <1>0 DEF OneCopy
    <3>2. \A n \in Pending : Range(Held(s)) \cap Range(n.txs) = {}
      BY <1>0 DEF OneCopy
    <3>3. x \in Range(body) => /\ x \notin Range(p)
                               /\ \A t \in Others(s) : x \notin Range(Held(t))
                               /\ \A n \in Pending : x \notin Range(n.txs)
      BY <1>8, <3>1, <3>2
    <3> QED  BY <1>11, <3>3
  <2>5. x \in Somewhere' <=> Found(x)'
    BY NextMembers
  <2> QED  BY <1>7, <1>9, <2>1, <2>2, <2>3, <2>4, <2>5
<1>23. PICK K, L, T, U : /\ K = (1..sent) \ finished /\ L = (1..sent') \ finished'
                         /\ T = transit' /\ U = transit
  OBVIOUS
<1>24. \A l : (l \in all <=> \E tx \in Range(body) : l = tx.line) /\ (l \in out <=> \E tx \in Outgoing(s, body) : l = tx.line)
  BY <1>4 DEF LinesOf
<1>25. /\ \A l \in out : l \in all
       /\ \A l \in all : l \in K /\ l \in 1..sent
  <2>1. \A l \in out : l \in all
    BY <1>15, <1>24
  <2>2. \A tx \in Range(body) : tx.line \in 1..sent /\ tx.line \notin finished
    BY <1>12, <1>13
  <2>3. \A l \in all : l \in 1..sent /\ l \notin finished
    BY <1>24, <2>2
  <2> QED  BY <1>23, <2>1, <2>3
<1>26. /\ \A l : l \in L <=> l \in K /\ (l \notin all \/ l \in out)
       /\ \A l : l \in T <=> (l \in U /\ l \notin all) \/ l \in out
  <2>1. sent' = sent
    BY <1>1
  <2> QED  BY <1>5, <1>23, <1>25, <2>1
<1>27. \A x : x \in Somewhere <=> MarkedIn(x, K, U)
  <2>1. Somewhere = Marks(K, U)
    BY <1>23 DEF Placed, Marks
  <2> QED  BY <2>1, Marked
<1>28. ASSUME NEW x, x \in Somewhere, x \notin Range(body) PROVE MarkedIn(x, L, T)
  <2>1. PICK l \in K : (l \in U /\ x = Tx(l, TRUE)) \/ (l \notin U /\ x = Tx(l, FALSE))
    BY <1>27, <1>28 DEF MarkedIn
  <2>2. x.line \notin all
    BY <1>13, <1>14, <1>24, <1>28
  <2>3. l \in Lines
    BY <1>0, <1>23, InputType DEF TypeOK
  <2>4. x.line = l
    BY <2>1, <2>3, TxsType
  <2>5. l \in L /\ (l \in T <=> l \in U)
    BY <1>25, <1>26, <2>2, <2>4
  <2> QED  BY <2>1, <2>5 DEF MarkedIn
<1>29. ASSUME NEW tx \in Outgoing(s, body) PROVE MarkedIn(Tx(tx.line, TRUE), L, T)
  <2>1. tx.line \in out /\ tx.line \in L /\ tx.line \in T
    BY <1>24, <1>25, <1>26
  <2> QED  BY <2>1 DEF MarkedIn
<1>30. ASSUME NEW x, MarkedIn(x, L, T) PROVE x \in Somewhere'
  <2>1. PICK l \in L : (l \in T /\ x = Tx(l, TRUE)) \/ (l \notin T /\ x = Tx(l, FALSE))
    BY <1>30 DEF MarkedIn
  <2>2. CASE l \in out
    <3>1. PICK tx \in Outgoing(s, body) : l = tx.line
      BY <1>24, <2>2
    <3>2. x = Tx(tx.line, TRUE)
      BY <1>26, <2>1, <2>2, <3>1
    <3> QED  BY <1>22, <3>2
  <2>3. CASE l \notin out
    <3>1. l \in K /\ l \notin all /\ (l \in T <=> l \in U)
      BY <1>26, <2>3
    <3>2. x \in Somewhere
      <4>1. MarkedIn(x, K, U)
        BY <2>1, <3>1 DEF MarkedIn
      <4> QED  BY <1>27, <4>1
    <3>3. l \in Lines
      BY <1>0, <1>23, <3>1, InputType DEF TypeOK
    <3>4. x.line = l
      BY <2>1, <3>3, TxsType
    <3>5. x \notin Range(body)
      BY <1>24, <3>1, <3>4
    <3> QED  BY <1>22, <3>2, <3>5
  <2> QED  BY <2>2, <2>3
<1>31. \A x : x \in Somewhere' <=> MarkedIn(x, L, T)
  BY <1>22, <1>28, <1>29, <1>30
<1>32. /\ transit' \subseteq (1..sent') \ finished' /\ finished' \subseteq 1..sent'
       /\ unbacked' \subseteq transit' \cup finished'
  <2>1. transit \subseteq K /\ finished \subseteq 1..sent /\ unbacked \subseteq transit \cup finished
    BY <1>23 DEF Placed
  <2>2. transit' \subseteq L
    BY <1>23, <1>25, <1>26, <2>1
  <2>3. finished' \subseteq 1..sent'
    BY <1>1, <1>5, <1>25, <2>1
  <2>4. unbacked' \subseteq transit' \cup finished'
    BY <1>5, <2>1
  <2> QED  BY <1>23, <2>2, <2>3, <2>4
<1> QED  BY <1>21, <1>23, <1>31, <1>32, NextPlaced

\* No main node recovers from a panic.
LEMMA PanickedStep == Handshake /\ [Next]_vars => panicked \subseteq panicked'
<1> SUFFICES ASSUME Handshake, [Next]_vars PROVE panicked \subseteq panicked'
  OBVIOUS
<1>1. ASSUME NEW s \in Shards, commitBlock(s) PROVE panicked \subseteq panicked'
  BY <1>1, CommitCases
<1>2. ASSUME NEW s \in Shards, proposePartition(s) PROVE panicked \subseteq panicked'
  BY <1>2, ProposeFacts DEF flags
<1>3. ASSUME NEW s \in Shards, GenerateBlock(s) \/ sendPartitionReady(s) \/ sendAccounts_and_Txs(s)
                               \/ accountTransfer_do(s)
      PROVE  panicked \subseteq panicked'
  BY <1>3 DEF GenerateBlock, sendPartitionReady, sendAccounts_and_Txs, accountTransfer_do, flags
<1>4. CASE txSending \/ clpaMapSend \/ UNCHANGED vars
  BY <1>4 DEF txSending, clpaMapSend, vars, flags
<1>5. CASE \/ (\E m \in injects : handleInjectTx(m)) \/ (\E m \in relays : handleRelay(m))
           \/ (\E m \in mapMsgs : handlePartitionMsg(m)) \/ (\E m \in readyMsgs : handlePartitionReady(m))
           \/ (\E m \in accountMsgs : handleAccountStateAndTxMsg(m))
  BY <1>5 DEF handleInjectTx, handleRelay, handlePartitionMsg, handlePartitionReady,
              handleAccountStateAndTxMsg, flags
<1> QED  BY <1>1, <1>2, <1>3, <1>4, <1>5 DEF Next

\* Every step keeps each transaction in one place, unless a main node panics.
LEMMA TrackedStep == Handshake /\ Handshake' /\ Shaped /\ Tracked /\ [Next]_vars => Tracked'
<1> SUFFICES ASSUME Handshake, Handshake', Shaped, Tracked, [Next]_vars, panicked' = {} PROVE Placed'
  BY DEF Tracked
<1>0. Placed /\ TypeOK /\ Indexed
  <2>1. panicked = {}
    BY PanickedStep
  <2> QED  BY <2>1 DEF Tracked, Handshake
<1>1. CASE txSending
  BY <1>0, <1>1, InjectPlaced
<1>2. ASSUME UNCHANGED <<stage, request, pool, injects, relays, accountMsgs, AccountStateTx, sent,
                         transit, finished, unbacked>>
      PROVE  Placed'
  <2>1. \A m : Waits(m)' <=> Waits(m)
    BY <1>2 DEF Waits
  <2>2. \A s \in Shards : Held(s)' = Held(s)
    BY <1>2 DEF Held
  <2> QED  BY <1>0, <1>2, <2>1, <2>2, UnmovedPlaced
<1>3. CASE clpaMapSend \/ (\E m \in mapMsgs : handlePartitionMsg(m))
             \/ (\E m \in readyMsgs : handlePartitionReady(m)) \/ UNCHANGED vars
  BY <1>2, <1>3 DEF clpaMapSend, handlePartitionMsg, handlePartitionReady, vars, supervisor, chain,
                    clpaData, network
<1>4. ASSUME NEW m \in injects, handleInjectTx(m) PROVE Placed'
  <2>1. m \notin relays /\ m.to \in Shards
    BY <1>0, KindsDiffer DEF TypeOK
  <2>2. /\ injects' = injects \ {m} /\ relays' = relays \ {m}
        /\ pool' = [pool EXCEPT ![m.to] = AddTxs2Pool(@, m.txs)]
        /\ UNCHANGED <<stage, request, accountMsgs, AccountStateTx, sent, transit, finished, unbacked>>
    BY <1>4, <2>1 DEF handleInjectTx, supervisor, chain, clpaData
  <2> QED  BY <1>0, <2>1, <2>2, ArrivalPlaced
<1>5. ASSUME NEW m \in relays, handleRelay(m) PROVE Placed'
  <2>1. m \notin injects /\ m.to \in Shards
    BY <1>0, KindsDiffer DEF TypeOK
  <2>2. /\ injects' = injects \ {m} /\ relays' = relays \ {m}
        /\ pool' = [pool EXCEPT ![m.to] = AddTxs2Pool(@, m.txs)]
        /\ UNCHANGED <<stage, request, accountMsgs, AccountStateTx, sent, transit, finished, unbacked>>
    BY <1>5, <2>1 DEF handleRelay, supervisor, chain, clpaData
  <2> QED  BY <1>0, <2>1, <2>2, ArrivalPlaced
<1>6. ASSUME NEW m \in accountMsgs, handleAccountStateAndTxMsg(m) PROVE Placed'
  <2>1. /\ m.to \in Shards /\ stage[m.to] # "partition"
        /\ AccountStateTx' = [AccountStateTx EXCEPT ![m.to] = AccountStateTx[m.to] \cup {m}]
        /\ accountMsgs' = accountMsgs \ {m}
        /\ UNCHANGED <<stage, request, pool, sent, transit, finished, unbacked, injects, relays>>
    BY <1>6, CollectFacts
  <2>2. /\ AccountStateTx'[m.to] = AccountStateTx[m.to] \cup {m}
        /\ \A t \in Shards \ {m.to} : AccountStateTx'[t] = AccountStateTx[t]
    BY <1>0, <2>1 DEF Indexed
  <2>3. ASSUME NEW n, Waits(n) PROVE Waits(n)'
    BY <2>1, <2>2, <2>3 DEF Waits
  <2>4. ASSUME NEW n, Waits(n)' PROVE Waits(n)
    BY <2>1, <2>2, <2>4 DEF Waits
  <2>5. \A s \in Shards : Held(s)' = Held(s)
    BY <2>1 DEF Held
  <2> QED  BY <1>0, <2>1, <2>3, <2>4, <2>5, UnmovedPlaced
<1>7. ASSUME NEW s \in Shards, accountTransfer_do(s) PROVE Placed'
  <2>1. /\ stage[s] = "partition" /\ stage' = [stage EXCEPT ![s] = "idle"]
        /\ request' = [request EXCEPT ![s] = NoRequest]
        /\ AccountStateTx' = [AccountStateTx EXCEPT ![s] = {}]
        /\ UNCHANGED <<pool, sent, transit, finished, unbacked, injects, relays, accountMsgs>>
    BY <1>7, DoFacts DEF supervisor, network
  <2>2. /\ stage'[s] = "idle" /\ AccountStateTx'[s] = {}
        /\ \A t \in Shards \ {s} : stage'[t] = stage[t] /\ request'[t] = request[t]
                                   /\ AccountStateTx'[t] = AccountStateTx[t]
    BY <1>0, <2>1 DEF Indexed, TypeOK
  <2>3. \A n : Waits(n)' <=> Waits(n)
    BY <2>1, <2>2 DEF Waits
  <2>4. ASSUME NEW t \in Shards PROVE Held(t)' = Held(t)
    <3>1. CASE t = s
      BY <2>1, <2>2, <3>1 DEF Held
    <3>2. CASE t # s
      <4>1. stage'[t] = stage[t] /\ request'[t] = request[t] /\ pool'[t] = pool[t]
        BY <2>1, <2>2, <3>2
      <4> QED  BY <4>1 DEF Held
    <3> QED  BY <3>1, <3>2
  <2> QED  BY <1>0, <2>1, <2>3, <2>4, UnmovedPlaced
<1>8. ASSUME NEW s \in Shards, sendPartitionReady(s) PROVE Placed'
  <2>1. /\ stage[s] = "idle" /\ stage' = [stage EXCEPT ![s] = "ready"]
        /\ UNCHANGED <<request, pool, sent, transit, finished, unbacked, injects, relays, accountMsgs, AccountStateTx>>
    BY <1>8 DEF sendPartitionReady, supervisor, chain
  <2>2. stage'[s] = "ready" /\ \A t \in Shards \ {s} : stage'[t] = stage[t]
    BY <1>0, <2>1 DEF TypeOK
  <2>3. \A n : Waits(n)' <=> Waits(n)
    BY <2>1, <2>2 DEF Waits
  <2>4. \A t \in Shards : Held(t)' = Held(t)
    BY <2>1, <2>2 DEF Held
  <2> QED  BY <1>0, <2>1, <2>3, <2>4, UnmovedPlaced
<1>9. ASSUME NEW s \in Shards, GenerateBlock(s) PROVE Placed'
  BY <1>0, <1>9, GeneratePlaced
<1>10. ASSUME NEW s \in Shards, sendAccounts_and_Txs(s) PROVE Placed'
  BY <1>0, <1>10, SendPlaced
<1>11. ASSUME NEW s \in Shards, proposePartition(s) PROVE Placed'
  BY <1>0, <1>11, ProposePlaced
<1>12. ASSUME NEW s \in Shards, commitBlock(s) PROVE Placed'
  BY <1>0, <1>12, CommitPlaced
<1> QED  BY <1>1, <1>3, <1>4, <1>5, <1>6, <1>7, <1>8, <1>9, <1>10, <1>11, <1>12 DEF Next

-----------------------------------------------------------------------------
(***************************************************************************)
(* The balances.                                                           *)
(***************************************************************************)

\* Every account has an owner.
LEMMA OwnerFacts ==
  ASSUME Handshake, NEW a \in Accounts
  PROVE  /\ Owners(epoch)[a] \in Shards /\ Owner(a) \in Shards
         /\ Owned[a] = balance[Owner(a)][a] /\ Owned[a] \in Int
         /\ AccountTransferRound[Owners(epoch)[a]] = epoch => Owner(a) = Owners(epoch)[a]
         /\ AccountTransferRound[Owners(epoch)[a]] # epoch =>
              Owner(a) = Owners(epoch - 1)[a] /\ epoch - 1 \in Nat
<1>1. TypeOK
  BY DEF Handshake
<1>2. epoch \in Nat /\ epoch \in 0..Len(Maps)
  BY <1>1, MapsType DEF TypeOK
<1>3. PICK t \in Shards : t = Owners(epoch)[a]
  BY <1>2, OwnersType
<1>4. AccountTransferRound[t] # epoch => epoch - 1 \in 0..Len(Maps) /\ epoch - 1 \in Nat
  BY <1>2, RoundNumbers, MapsType
<1>5. AccountTransferRound[t] # epoch => Owners(epoch - 1)[a] \in Shards
  BY <1>4, OwnersType
<1>6. Owner(a) = IF AccountTransferRound[t] = epoch THEN t ELSE Owners(epoch - 1)[a]
  BY <1>3 DEF Owner
<1>7. Owner(a) \in Shards
  BY <1>5, <1>6
<1>8. Owned[a] = balance[Owner(a)][a]
  BY DEF Owned
<1>9. PICK u \in Shards : u = Owner(a)
  BY <1>7
<1>10. balance[u][a] \in Int
  BY <1>1 DEF TypeOK
<1> QED  BY <1>3, <1>4, <1>6, <1>7, <1>8, <1>9, <1>10

\* An account of a shard that is about to commit a block is its own.
LEMMA BlockOwner ==
  ASSUME Handshake, NEW s \in Shards, stage[s] = "block", NEW a \in Accounts, PartitionMap[s][a] = s
  PROVE  Owner(a) = s
<1>1. PartitionMap[s] = Owners(AccountTransferRound[s])
  BY DEF Handshake, Round
<1>2. /\ epoch \in Nat /\ AccountTransferRound[s] \in Nat
      /\ AccountTransferRound[s] = epoch \/ AccountTransferRound[s] + 1 = epoch
  BY RoundNumbers
<1>3. CASE AccountTransferRound[s] = epoch
  BY <1>1, <1>3, OwnerFacts
<1>4. CASE AccountTransferRound[s] # epoch
  <2>1. AccountTransferRound[s] = epoch - 1
    BY <1>2, <1>4
  <2>2. PICK t \in Shards : t = Owners(epoch)[a]
    BY OwnerFacts
  <2>3. AccountTransferRound[t] # epoch
    BY <1>4 DEF Handshake, AccountsUnderway, HasSent
  <2> QED  BY <1>1, <2>1, <2>2, <2>3, OwnerFacts
<1> QED  BY <1>3, <1>4

\* The supervisor's next map changes no owner yet.
LEMMA MapSendOwned ==
  ASSUME Handshake, Handshake', clpaMapSend
  PROVE  Owned' = Owned
<1>1. /\ epoch' = epoch + 1 /\ epoch \in Nat
      /\ \A s \in Shards : AccountTransferRound[s] = epoch /\ AccountTransferRound'[s] = epoch
      /\ balance' = balance
  BY DEF clpaMapSend, PeriodOver, Settled, chain, clpaData, Handshake, TypeOK
<1>2. epoch' - 1 = epoch /\ epoch' # epoch
  BY <1>1
<1>3. ASSUME NEW a \in Accounts PROVE Owner(a)' = Owner(a)
  <2>1. Owner(a) = Owners(epoch)[a] /\ Owners(epoch)[a] \in Shards
    BY <1>1, OwnerFacts
  <2>2. PICK t : t = Owners(epoch')[a]
    OBVIOUS
  <2>3. t \in Shards
    <3>1. epoch' \in 0..Len(Maps)
      BY DEF Handshake, TypeOK
    <3> QED  BY <2>2, <3>1, OwnersType
  <2>4. AccountTransferRound'[t] # epoch'
    BY <1>1, <1>2, <2>3
  <2>5. Owner(a)' = Owners(epoch' - 1)[a]
    BY <2>2, <2>4 DEF Owner
  <2> QED  BY <1>2, <2>1, <2>5
<1> QED  BY <1>1, <1>3 DEF Owned

\* A shard that carries out the map gets every new account with the balance it has
\* at its old owner.
LEMMA DoOwned ==
  ASSUME Handshake, TransferredStateCurrent, NEW s \in Shards, accountTransfer_do(s)
  PROVE  Owned' = Owned
<1>0. TypeOK /\ AccountsUnderway
  BY DEF Handshake
<1>1. PICK acc : acc = ReceivedNewAccountState(AccountStateTx[s])
  OBVIOUS
<1>2. /\ s \in CollectOver /\ s \in PartitionOn
      /\ balance' = [balance EXCEPT ![s] = AddAccounts(balance[s], Owners(epoch), s, acc)]
      /\ AccountTransferRound' = [AccountTransferRound EXCEPT ![s] = epoch] /\ epoch' = epoch
  BY <1>1, DoFacts DEF supervisor
<1>3. /\ \A a \in Accounts : balance'[s][a] = IF a \in DOMAIN acc /\ Owners(epoch)[a] = s
                                               THEN acc[a] ELSE balance[s][a]
      /\ \A t \in Shards \ {s} : balance'[t] = balance[t]
  <2>1. balance \in [Shards -> [Accounts -> Int]]
    BY <1>0 DEF TypeOK
  <2>2. balance'[s] = AddAccounts(balance[s], Owners(epoch), s, acc)
    BY <1>2, <2>1
  <2> QED  BY <1>2, <2>1, <2>2 DEF AddAccounts
<1>4. AccountTransferRound'[s] = epoch /\ \A t \in Shards \ {s} : AccountTransferRound'[t] = AccountTransferRound[t]
  BY <1>0, <1>2 DEF TypeOK
<1>5. AccountTransferRound[s] # epoch
  BY <1>2, RoundNumbers
<1>6. /\ DOMAIN acc = UNION {DOMAIN m.accounts : m \in AccountStateTx[s]}
      /\ \A a \in DOMAIN acc : ArrivedAs(s, acc, a)
  BY <1>1, ReceivedAccounts
<1>7. ASSUME NEW a \in DOMAIN acc
      PROVE  /\ Owners(epoch)[a] = s /\ Owners(epoch - 1)[a] # s
             /\ acc[a] = balance[Owners(epoch - 1)[a]][a]
  <2>1. PICK m \in AccountStateTx[s] : a \in DOMAIN m.accounts /\ acc[a] = m.accounts[a]
    BY <1>6 DEF ArrivedAs
  <2>2. m \in AccountMessages /\ m.to = s
    BY <1>0, <2>1 DEF AccountMessages, AccountsUnderway
  <2>3. Owners(epoch)[a] = m.to /\ Owners(epoch - 1)[a] = m.from /\ m.to # m.from
    BY <2>1, <2>2, MessageAccounts
  <2>4. m.accounts[a] = balance[m.from][a]
    BY <2>1, <2>2 DEF TransferredStateCurrent
  <2> QED  BY <2>1, <2>2, <2>3, <2>4
<1>8. ASSUME NEW a \in Accounts, Owners(epoch)[a] = s, Owners(epoch - 1)[a] # s,
             Owners(epoch - 1)[a] \in Shards
      PROVE  a \in DOMAIN acc
  <2>1. PICK r \in Others(s) : r = Owners(epoch - 1)[a]
    BY <1>8 DEF Others
  <2>2. PICK m \in AccountStateTx[s] : m.from = r
    BY <1>0, <1>2 DEF AccountsUnderway
  <2>3. m.to = s /\ m \in AccountMessages
    BY <1>0 DEF AccountsUnderway, AccountMessages
  <2>4. DOMAIN m.accounts = Leaving(r, s)
    BY <1>0, <2>2, <2>3 DEF AccountsUnderway
  <2>5. a \in DOMAIN m.accounts
    BY <1>8, <2>1, <2>4 DEF Leaving
  <2> QED  BY <1>6, <2>5
<1>9. ASSUME NEW a \in Accounts PROVE balance'[Owner(a)'][a] = balance[Owner(a)][a]
  <2>1. PICK t \in Shards : t = Owners(epoch)[a]
    BY OwnerFacts
  <2>2. Owner(a)' = IF AccountTransferRound'[t] = epoch THEN t ELSE Owners(epoch - 1)[a]
    BY <1>2, <2>1 DEF Owner
  <2>3. Owner(a) = IF AccountTransferRound[t] = epoch THEN t ELSE Owners(epoch - 1)[a]
    BY <2>1 DEF Owner
  <2>4. CASE t # s
    <3>1. Owner(a)' = Owner(a)
      BY <1>4, <2>2, <2>3, <2>4
    <3>2. PICK u \in Shards : u = Owner(a)
      BY OwnerFacts
    <3>3. balance'[u][a] = balance[u][a]
      BY <1>3, <2>1, <2>4
    <3> QED  BY <3>1, <3>2, <3>3
  <2>5. CASE t = s
    <3>1. Owner(a)' = s
      BY <1>4, <2>2, <2>5
    <3>2. PICK r \in Shards : r = Owner(a) /\ r = Owners(epoch - 1)[a]
      BY <1>5, <2>1, <2>5, OwnerFacts
    <3>3. CASE r = s
      <4>1. a \notin DOMAIN acc
        BY <1>7, <3>2, <3>3
      <4> QED  BY <1>3, <3>1, <3>2, <3>3, <4>1
    <3>4. CASE r # s
      <4>1. a \in DOMAIN acc
        BY <1>8, <2>1, <2>5, <3>2, <3>4
      <4>2. acc[a] = balance[r][a]
        BY <1>7, <3>2, <4>1
      <4> QED  BY <1>3, <2>1, <2>5, <3>1, <3>2, <4>1, <4>2
    <3> QED  BY <3>3, <3>4
  <2> QED  BY <2>4, <2>5
<1> QED  BY <1>9 DEF Owned

\* The places of a block are finitely many.
LEMMA PlacesFinite ==
  ASSUME NEW S, NEW q \in Seq(S)
  PROVE  IsFiniteSet(1..Len(q))
<1>1. PICK n \in Int : n = Len(q)
  BY LenProperties
<1>2. IsFiniteSet(1..n)
  BY FS_Interval
<1> QED  BY <1>1, <1>2

\* What the transactions of a block at home do to the value in its shard.
LEMMA HomeEffects ==
  ASSUME NEW st \in Trie(Accounts), NEW pm, NEW s, NEW body \in Seq(Txs), NEW i \in 1..Len(body),
         pm[Anchor(body[i])] = s, NEW tx, tx = body[i],
         NEW K, K = Skipped(st, pm, s, Fields(body)),
         NEW e, e = Effects(st, pm, s, Fields(body))
  PROVE  /\ tx.relayed => e[i] = Input[tx.line].value
         /\ ~tx.relayed /\ pm[Input[tx.line].recipient] # s /\ i \notin K => e[i] = -Input[tx.line].value
         /\ ~tx.relayed /\ (pm[Input[tx.line].recipient] = s \/ i \in K) => e[i] = 0
<1>1. PICK txs : txs = Fields(body)
  OBVIOUS
<1>2. PICK b, f : b = Tries(st, pm, s, txs)[i - 1] /\ f = txs[i]
  OBVIOUS
<1>3. /\ f.sender = Input[tx.line].sender /\ f.recipient = Input[tx.line].recipient
      /\ f.value = Input[tx.line].value /\ f.relayed = tx.relayed /\ ~f.hasBroker
      /\ Len(txs) = Len(body) /\ DOMAIN txs = 1..Len(body)
  <2>1. f = [sender |-> Input[tx.line].sender, recipient |-> Input[tx.line].recipient,
             value |-> Input[tx.line].value, relayed |-> tx.relayed, hasBroker |-> FALSE]
    BY <1>1, <1>2, FieldsType
  <2>2. Len(txs) = Len(body) /\ DOMAIN txs = 1..Len(body)
    BY <1>1, FieldsType
  <2> QED  BY <2>1, <2>2
<1>4. e[i] = Effect(b, pm, s, f)
  BY <1>1, <1>2, <1>3 DEF Effects
<1>5. i \in K <=> Insufficient(b, pm, s, f)
  BY <1>1, <1>2, <1>3 DEF Skipped
<1>6. tx \in Txs
  BY ElementOfSeq
<1>7. f.value \in Nat /\ f.relayed \in BOOLEAN
  BY <1>3, <1>6, TxsType, InputType
<1>8. Debits(pm, s, f) <=> ~f.relayed
  BY <1>3 DEF Debits, Local, Anchor
<1>9. f.relayed => Local(pm, s, f.recipient, f)
  BY <1>3 DEF Local, Anchor
<1>10. Local(pm, s, f.recipient, f) <=> pm[f.recipient] = s
  BY <1>3 DEF Local
<1>11. Insufficient(b, pm, s, f) => ~f.relayed
  BY <1>8 DEF Insufficient
<1>12. CASE tx.relayed
  <2>1. e[i] = f.value
    BY <1>3, <1>4, <1>7, <1>8, <1>9, <1>11, <1>12 DEF Effect
  <2> QED  BY <1>3, <1>12, <2>1
<1>13. CASE ~tx.relayed
  <2>1. pm[f.recipient] # s /\ i \notin K => e[i] = -f.value
    BY <1>3, <1>4, <1>5, <1>7, <1>8, <1>10, <1>13 DEF Effect
  <2>2. pm[f.recipient] = s \/ i \in K => e[i] = 0
    BY <1>3, <1>4, <1>5, <1>7, <1>8, <1>10, <1>13 DEF Effect
  <2> QED  BY <1>3, <1>13, <2>1, <2>2
<1> QED  BY <1>12, <1>13

\* A block changes what the owners have by its effects.
LEMMA CommitOwned ==
  ASSUME Handshake, NEW s \in Shards, commitBlock(s), NEW body \in Seq(Txs), body = request[s].body,
         NEW e, e = Effects(balance[s], PartitionMap[s], s, Fields(body))
  PROVE  /\ \A i \in 1..Len(body) : e[i] \in Int
         /\ SumFunctionOnSet(Owned', Accounts)
              = SumFunctionOnSet(Owned, Accounts) + SumFunctionOnSet(e, 1..Len(body))
<1>0. TypeOK /\ stage[s] = "block"
  BY DEF Handshake, commitBlock
<1>1. PICK A, pm, b, D : /\ A = Accounts /\ pm = PartitionMap[s] /\ b = balance[s]
                         /\ D = {a \in Accounts : PartitionMap[s][a] = s}
  OBVIOUS
<1>2. IsFiniteSet(D) /\ D \in SUBSET Accounts /\ IsFiniteSet(Accounts)
  BY <1>1, ShardingAssumption, FS_Subset
<1>3. PICK txs : txs = Fields(body)
  OBVIOUS
<1>4. Len(txs) = Len(body) /\ txs \in Seq(TxOver(A))
  BY <1>1, <1>3, FieldsType
<1>5. Fits(A, D, pm, s, txs)
  <2>1. ASSUME NEW i \in 1..Len(txs) PROVE Touches(D, pm, s, txs[i])
    <3>1. PICK tx : tx = txs[i]
      OBVIOUS
    <3>2. tx = [sender |-> Input[body[i].line].sender,
                recipient |-> Input[body[i].line].recipient,
                value |-> Input[body[i].line].value, relayed |-> body[i].relayed,
                hasBroker |-> FALSE]
      BY <1>3, <1>4, <3>1, FieldsType
    <3>3. tx \in TxOver(A)
      BY <1>4, <3>1, ElementOfSeq
    <3>4. ~tx.hasBroker /\ tx.sender \in Accounts /\ tx.recipient \in Accounts
      BY <1>1, <3>2, <3>3 DEF TxOver
    <3>5. Touches(D, pm, s, tx)
      BY <1>1, <3>4 DEF Touches, Debits, Local
    <3> QED  BY <3>1, <3>5
  <2> QED  BY <1>1, <1>2, <1>4, <2>1 DEF Fits
<1>6. b \in Trie(A) /\ e = Effects(b, pm, s, txs)
  BY <1>0, <1>1, <1>3 DEF Trie, TypeOK
<1>7. PICK c : c = GetUpdateStatusTrie(b, pm, s, txs)
  OBVIOUS
<1>8. /\ \A i \in 1..Len(txs) : e[i] \in Int
      /\ c \in Trie(A)
      /\ SumFunctionOnSet(c, D) = SumFunctionOnSet(b, D) + SumFunctionOnSet(e, 1..Len(txs))
  BY <1>2, <1>5, <1>6, <1>7, BlockValue
<1>9. PICK f, g : f = Owned /\ g = Owned'
  OBVIOUS
<1>10. /\ request[s].state = c
       /\ \A a \in Accounts : PartitionMap[s][a] # s => c[a] = b[a]
  <2>1. request[s].state = GetUpdateStatusTrie(balance[s], PartitionMap[s], s, Fields(request[s].body))
    BY <1>0, BlockRequest
  <2>2. request[s].state = c
    BY <1>1, <1>3, <1>7, <2>1
  <2> QED  BY <1>0, <1>1, <2>2, BlockRequest
<1>11. balance'[s] = c /\ \A u \in Shards \ {s} : balance'[u] = balance[u]
  <2>1. balance' = [balance EXCEPT ![s] = c]
    BY <1>10 DEF commitBlock
  <2>2. balance \in [Shards -> [Accounts -> Int]]
    BY <1>0 DEF TypeOK
  <2> QED  BY <2>1, <2>2
<1>12. ASSUME NEW a \in Accounts
       PROVE  /\ Owner(a) \in Shards /\ f[a] = balance[Owner(a)][a] /\ f[a] \in Int
              /\ g[a] = balance'[Owner(a)][a]
  <2>1. epoch' = epoch /\ AccountTransferRound' = AccountTransferRound
    BY DEF commitBlock, supervisor, clpaData
  <2>2. Owner(a)' = Owner(a)
    BY <2>1 DEF Owner
  <2>3. Owned'[a] = balance'[Owner(a)'][a]
    BY DEF Owned
  <2> QED  BY <1>9, <2>2, <2>3, OwnerFacts
<1>13. \A a \in D : a \in Accounts /\ Owner(a) = s
  BY <1>0, <1>1, BlockOwner
<1>14. \A a \in Accounts : b[a] \in Int /\ c[a] \in Int
  BY <1>1, <1>6, <1>8 DEF Trie
<1>15. \A a \in D : f[a] = b[a] /\ g[a] = c[a]
  BY <1>1, <1>11, <1>12, <1>13
<1>16. ASSUME NEW a \in Accounts \ D PROVE g[a] = f[a]
  <2>1. PICK u \in Shards : u = Owner(a) /\ f[a] = balance[u][a] /\ g[a] = balance'[u][a]
    BY <1>12
  <2>2. c[a] = b[a]
    BY <1>1, <1>10
  <2> QED  BY <1>1, <1>11, <2>1, <2>2
<1>17. \A a \in Accounts : f[a] \in Int /\ g[a] \in Int
  BY <1>12, <1>14, <1>15, <1>16
<1>18. SumFunctionOnSet(f, D) = SumFunctionOnSet(b, D) /\ SumFunctionOnSet(g, D) = SumFunctionOnSet(c, D)
  BY <1>2, <1>14, <1>15, SumSame
<1>19. SumFunctionOnSet(g, Accounts)
         = SumFunctionOnSet(f, Accounts) - SumFunctionOnSet(f, D) + SumFunctionOnSet(g, D)
  BY <1>2, <1>16, <1>17, SumChangeIn
<1>20. SumFunctionOnSet(f, Accounts) \in Int /\ SumFunctionOnSet(b, D) \in Int
  BY <1>2, <1>14, <1>17, SumType
<1>21. SumFunctionOnSet(e, 1..Len(txs)) \in Int
  <2>1. IsFiniteSet(1..Len(txs))
    BY <1>4, PlacesFinite
  <2> QED  BY <1>8, <2>1, SumType
<1>22. SumFunctionOnSet(g, Accounts)
         = SumFunctionOnSet(f, Accounts) + SumFunctionOnSet(e, 1..Len(txs))
  BY <1>8, <1>18, <1>19, <1>20, <1>21
<1> QED  BY <1>4, <1>8, <1>9, <1>22

\* What each line adds to what the owners have, until it is credited.
Net ==
  [l \in Lines |-> (IF l \in transit THEN Input[l].value ELSE 0)
                     - (IF l \in unbacked THEN Input[l].value ELSE 0)]
NetTotal ==
  /\ IsFiniteSet(Lines) /\ \A l \in Lines : Net[l] \in Int
  /\ SumFunctionOnSet(Values, transit) \in Int /\ SumFunctionOnSet(Values, unbacked) \in Int
  /\ SumFunctionOnSet(Net, Lines)
       = SumFunctionOnSet(Values, transit) - SumFunctionOnSet(Values, unbacked)

\* A sum over some lines is one over all.
LEMMA PartSum ==
  ASSUME NEW T \in SUBSET Lines, NEW f, \A l \in Lines : f[l] = IF l \in T THEN Input[l].value ELSE 0
  PROVE  /\ IsFiniteSet(Lines) /\ SumFunctionOnSet(Values, T) \in Int
         /\ SumFunctionOnSet(f, Lines) = SumFunctionOnSet(Values, T)
<1>1. IsFiniteSet(Lines)
  <2>1. PICK n \in Int : Lines = 1..n
    BY InputType
  <2> QED  BY <2>1, FS_Interval
<1>2. IsFiniteSet(T)
  BY <1>1, FS_Subset
<1>3. \A l \in T : f[l] \in Int /\ Values[l] = f[l]
  BY InputType DEF Values
<1>4. SumFunctionOnSet(f, Lines) = SumFunctionOnSet(f, T)
  BY <1>1, <1>3, SumWhere
<1>5. SumFunctionOnSet(Values, T) = SumFunctionOnSet(f, T) /\ SumFunctionOnSet(f, T) \in Int
  BY <1>2, <1>3, SumSame, SumType
<1> QED  BY <1>1, <1>4, <1>5

\* The sum of Net.
LEMMA NetSum == TypeOK => NetTotal
<1> SUFFICES ASSUME TypeOK PROVE NetTotal
  OBVIOUS
<1>1. PICK T \in SUBSET Lines, U \in SUBSET Lines : T = transit /\ U = unbacked
  BY DEF TypeOK
<1>2. PICK f, g, h, n : /\ f = [l \in Lines |-> IF l \in T THEN Input[l].value ELSE 0]
                        /\ g = [l \in Lines |-> IF l \in U THEN Input[l].value ELSE 0]
                        /\ h = [l \in Lines |-> -g[l]]
                        /\ n = Net
  OBVIOUS
<1>3. /\ \A l \in Lines : f[l] = IF l \in T THEN Input[l].value ELSE 0
      /\ \A l \in Lines : g[l] = IF l \in U THEN Input[l].value ELSE 0
  BY <1>2
<1>4. \A l \in Lines : f[l] \in Int /\ g[l] \in Int
  BY <1>3, InputType
<1>5. \A l \in Lines : n[l] = f[l] - g[l]
  BY <1>1, <1>2, <1>3 DEF Net
<1>6. \A l \in Lines : n[l] \in Int /\ g[l] \in Int /\ f[l] = n[l] + g[l]
  BY <1>4, <1>5
<1>7. /\ IsFiniteSet(Lines) /\ SumFunctionOnSet(Values, T) \in Int
      /\ SumFunctionOnSet(f, Lines) = SumFunctionOnSet(Values, T)
  BY <1>3, PartSum
<1>8. /\ SumFunctionOnSet(Values, U) \in Int
      /\ SumFunctionOnSet(g, Lines) = SumFunctionOnSet(Values, U)
  BY <1>3, PartSum
<1>9. SumFunctionOnSet(f, Lines) = SumFunctionOnSet(n, Lines) + SumFunctionOnSet(g, Lines)
  BY <1>6, <1>7, SumPlus
<1>10. SumFunctionOnSet(n, Lines) \in Int
  BY <1>6, <1>7, SumType
<1>11. SumFunctionOnSet(n, Lines) = SumFunctionOnSet(Values, T) - SumFunctionOnSet(Values, U)
  BY <1>7, <1>8, <1>9, <1>10
<1> QED  BY <1>1, <1>2, <1>6, <1>7, <1>8, <1>11 DEF NetTotal

\* A line of a block: what its transaction adds at the owners, it takes from Net.
LEMMA CommitLine ==
  ASSUME Handshake, Placed, NEW s \in Shards, commitBlock(s), panicked' = {},
         NEW body \in Seq(Txs), body = request[s].body, NEW i \in 1..Len(body),
         NEW e, e = Effects(balance[s], PartitionMap[s], s, Fields(body)),
         NEW l, l = body[i].line
  PROVE  l \in Lines /\ Net[l] - Net'[l] = e[i]
<1>0. OneCopy /\ TypeOK /\ stage[s] = "block"
  BY DEF Placed, Handshake, commitBlock
<1>1. PICK all, out, skl : /\ all = LinesOf(Range(body)) /\ out = LinesOf(Outgoing(s, body))
                           /\ skl = SkippedLines(s, body)
  OBVIOUS
<1>2. /\ \A tx \in Range(body) : PartitionMap[s][Anchor(tx)] = s
      /\ transit' = (transit \ all) \cup out
      /\ unbacked' = unbacked \cup (skl \cap out)
  <2>1. panicked' # panicked \cup {s}
    OBVIOUS
  <2> QED  BY <1>1, <2>1, CommitCases
<1>3. PICK tx : tx = body[i] /\ tx \in Range(body) /\ tx \in Txs
  <2>1. body[i] \in Txs /\ body[i] \in Range(body)
    BY ElementOfSeq DEF Range
  <2> QED  BY <2>1
<1>4. IsInjective(body) /\ \A x \in Range(body) : x \in Somewhere
  <2>1. HeldParts(s)
    BY HeldFacts DEF HeldSplit
  <2>2. IsInjective(body) /\ \A x \in Range(body) : x \in Range(Held(s))
    BY <1>0, <2>1 DEF HeldParts, OneCopy
  <2> QED  BY <2>2, PendingMembers DEF Places, Found
<1>5. \A x \in Somewhere :
           /\ x \in Txs /\ x.line \in Lines /\ x.line \in 1..sent /\ x.line \notin finished
           /\ x.line \in transit => x = Tx(x.line, TRUE) /\ x.relayed = TRUE
           /\ x.line \notin transit => x = Tx(x.line, FALSE) /\ x.relayed = FALSE
  BY PlacedTx
<1>6. \A x \in Range(body) : x.line = l => x = tx
  BY <1>3, <1>4, <1>5
<1>7. /\ l \in Lines /\ l \notin finished /\ l \in all
      /\ l \in transit <=> tx.relayed
  <2>1. l \in all
    BY <1>1, <1>3 DEF LinesOf
  <2> QED  BY <1>3, <1>4, <1>5, <2>1
<1>8. l \notin transit => l \notin unbacked
  BY <1>7 DEF Placed
<1>9. PICK pm, b, K : pm = PartitionMap[s] /\ b = balance[s] /\ K = Skipped(b, pm, s, Fields(body))
  OBVIOUS
<1>10. pm[Input[l].recipient] \in Shards
  <2>1. Input[l].recipient \in Accounts
    BY <1>7, InputType
  <2>2. pm \in [Accounts -> Shards]
    BY <1>0, <1>9 DEF TypeOK
  <2> QED  BY <2>1, <2>2
<1>11. l \in out <=> ~tx.relayed /\ pm[Input[l].recipient] # s
  <2>1. \A x : x \in Outgoing(s, body) <=> \E t \in Others(s) : x \in PaidIn(s, body, t)
    BY DEF Outgoing
  <2>2. l \in out <=> tx \in Outgoing(s, body)
    <3>1. l \in out <=> \E x \in Outgoing(s, body) : l = x.line
      BY <1>1 DEF LinesOf
    <3>2. \A x \in Outgoing(s, body) : x \in Range(body)
      BY <2>1 DEF PaidIn
    <3> QED  BY <1>3, <1>6, <3>1, <3>2
  <2>3. tx \in Outgoing(s, body) <=> ~tx.relayed /\ pm[Input[tx.line].recipient] \in Others(s)
    BY <1>3, <1>9, <2>1 DEF PaidIn
  <2> QED  BY <1>3, <1>10, <2>2, <2>3 DEF Others
<1>12. l \in skl <=> i \in K
  <2>1. DOMAIN Fields(body) = 1..Len(body) /\ DOMAIN body = 1..Len(body)
    BY FieldsType
  <2>2. K \subseteq 1..Len(body)
    BY <1>9, <2>1 DEF Skipped
  <2>3. l \in skl <=> \E j \in K : l = body[j].line
    BY <1>1, <1>9 DEF SkippedLines
  <2>4. ASSUME NEW j \in K, l = body[j].line PROVE j = i
    <3>1. j \in DOMAIN body /\ body[j] \in Range(body)
      BY <2>1, <2>2 DEF Range
    <3>2. body[j] = body[i]
      BY <1>3, <1>6, <2>4, <3>1
    <3> QED  BY <1>4, <2>1, <3>1, <3>2 DEF IsInjective
  <2> QED  BY <2>3, <2>4
<1>13. PICK v \in Nat : v = Input[l].value
  BY <1>7, InputType
<1>14. /\ tx.relayed => e[i] = v
       /\ ~tx.relayed /\ pm[Input[l].recipient] # s /\ i \notin K => e[i] = -v
       /\ ~tx.relayed /\ (pm[Input[l].recipient] = s \/ i \in K) => e[i] = 0
  <2>1. /\ b \in Trie(Accounts) /\ pm[Anchor(body[i])] = s /\ tx = body[i]
        /\ K = Skipped(b, pm, s, Fields(body)) /\ e = Effects(b, pm, s, Fields(body))
    BY <1>0, <1>2, <1>3, <1>9 DEF TypeOK, Trie
  <2>2. /\ tx.relayed => e[i] = Input[tx.line].value
        /\ ~tx.relayed /\ pm[Input[tx.line].recipient] # s /\ i \notin K => e[i] = -Input[tx.line].value
        /\ ~tx.relayed /\ (pm[Input[tx.line].recipient] = s \/ i \in K) => e[i] = 0
    BY <2>1, HomeEffects
  <2>3. tx.line = l
    BY <1>3
  <2> QED  BY <1>13, <2>2, <2>3
<1>15. /\ Net[l] = (IF l \in transit THEN v ELSE 0) - (IF l \in unbacked THEN v ELSE 0)
       /\ Net'[l] = (IF l \in transit' THEN v ELSE 0) - (IF l \in unbacked' THEN v ELSE 0)
  BY <1>7, <1>13 DEF Net
<1>16. CASE tx.relayed
  <2>1. l \in transit /\ l \notin transit' /\ (l \in unbacked' <=> l \in unbacked)
    BY <1>2, <1>7, <1>11, <1>16
  <2> QED  BY <1>7, <1>14, <1>15, <1>16, <2>1
<1>17. CASE ~tx.relayed
  <2>1. /\ l \notin transit /\ l \notin unbacked /\ (l \in transit' <=> l \in out)
        /\ l \in unbacked' <=> l \in out /\ i \in K
    BY <1>2, <1>7, <1>8, <1>12, <1>17
  <2>2. Net[l] = 0
    BY <1>15, <2>1
  <2>3. CASE l \in out /\ i \notin K
    BY <1>7, <1>11, <1>14, <1>15, <1>17, <2>1, <2>2, <2>3
  <2>4. CASE l \notin out \/ i \in K
    BY <1>7, <1>11, <1>14, <1>15, <1>17, <2>1, <2>2, <2>4
  <2> QED  BY <2>3, <2>4
<1> QED  BY <1>16, <1>17

\* A block takes from Net what it adds at the owners.
LEMMA CommitNet ==
  ASSUME Handshake, Handshake', Placed, NEW s \in Shards, commitBlock(s), panicked' = {},
         NEW body \in Seq(Txs), body = request[s].body,
         NEW e, e = Effects(balance[s], PartitionMap[s], s, Fields(body))
  PROVE  /\ SumFunctionOnSet(e, 1..Len(body)) \in Int /\ NetTotal /\ NetTotal'
         /\ SumFunctionOnSet(Net, Lines)
              = SumFunctionOnSet(Net', Lines) + SumFunctionOnSet(e, 1..Len(body))
<1>0. OneCopy /\ TypeOK /\ TypeOK' /\ stage[s] = "block"
  BY DEF Placed, Handshake, commitBlock
<1>1. NetTotal /\ NetTotal'
  <2>1. TypeOK' => NetTotal'
    BY NetSum, PTL
  <2> QED  BY <1>0, <2>1, NetSum
<1>2. PICK n, p : n = Net /\ p = Net'
  OBVIOUS
<1>3. IsFiniteSet(Lines) /\ \A l \in Lines : n[l] \in Int /\ p[l] \in Int
  BY <1>1, <1>2 DEF NetTotal
<1>4. PICK d, h, I : /\ d = [l \in Lines |-> n[l] - p[l]] /\ I = 1..Len(body)
                     /\ h = [i \in 1..Len(body) |-> body[i].line]
  OBVIOUS
<1>5. \A l \in Lines : d[l] \in Int /\ n[l] = p[l] + d[l]
  BY <1>3, <1>4
<1>6. \A i \in I : h[i] = body[i].line /\ h[i] \in Lines /\ d[h[i]] \in Int /\ e[i] = d[h[i]]
  <2>1. ASSUME NEW i \in 1..Len(body)
        PROVE  h[i] = body[i].line /\ h[i] \in Lines /\ d[h[i]] \in Int /\ e[i] = d[h[i]]
    <3>1. PICK l : l = body[i].line
      OBVIOUS
    <3>2. l \in Lines /\ Net[l] - Net'[l] = e[i]
      BY <3>1, CommitLine
    <3> QED  BY <1>2, <1>4, <1>5, <3>1, <3>2
  <2> QED  BY <1>4, <2>1
<1>7. \A i, j \in I : h[i] = h[j] => i = j
  <2>1. HeldParts(s)
    BY HeldFacts DEF HeldSplit
  <2>2. IsInjective(body) /\ \A x \in Range(body) : x \in Range(Held(s))
    BY <1>0, <2>1 DEF HeldParts, OneCopy
  <2>3. \A x \in Range(body) : x \in Somewhere
    BY <2>2, PendingMembers DEF Places, Found
  <2>4. \A x, y \in Somewhere : x.line = y.line => x = y
    BY PlacedTx
  <2>5. DOMAIN body = I /\ \A i \in I : body[i] \in Range(body)
    BY <1>4 DEF Range
  <2>6. \A i, j \in I : body[i].line = body[j].line => body[i] = body[j]
    BY <2>3, <2>4, <2>5
  <2> QED  BY <1>6, <2>2, <2>5, <2>6 DEF IsInjective
<1>8. IsFiniteSet(I)
  BY <1>4, PlacesFinite
<1>9. PICK all : all = {h[i] : i \in I}
  OBVIOUS
<1>10. SumFunctionOnSet(d, all) = SumFunctionOnSet(e, I)
  BY <1>6, <1>7, <1>8, <1>9, SumReindex
<1>11. all \in SUBSET Lines
  BY <1>6, <1>9
<1>12. \A l \in Lines \ all : d[l] = 0
  <2>1. \A l : l \in LinesOf(Range(body)) <=> l \in all
    <3>1. \A l : l \in LinesOf(Range(body)) <=> \E x \in Range(body) : l = x.line
      BY DEF LinesOf
    <3>2. \A x : x \in Range(body) <=> \E i \in I : x = body[i]
      BY <1>4 DEF Range
    <3>3. \A l : l \in all <=> \E i \in I : l = body[i].line
      BY <1>6, <1>9
    <3> QED  BY <3>1, <3>2, <3>3
  <2>2. /\ transit' = (transit \ LinesOf(Range(body))) \cup LinesOf(Outgoing(s, body))
        /\ unbacked' = unbacked \cup (SkippedLines(s, body) \cap LinesOf(Outgoing(s, body)))
    <3>1. panicked' # panicked \cup {s}
      OBVIOUS
    <3> QED  BY <3>1, CommitCases
  <2>3. \A l \in LinesOf(Outgoing(s, body)) : l \in LinesOf(Range(body))
    BY DEF LinesOf, Outgoing, PaidIn
  <2>4. \A l \in Lines \ all : (l \in transit' <=> l \in transit) /\ (l \in unbacked' <=> l \in unbacked)
    BY <2>1, <2>2, <2>3
  <2>5. \A l \in Lines \ all : n[l] = p[l]
    BY <1>2, <2>4 DEF Net
  <2> QED  BY <1>3, <1>4, <2>5
<1>13. SumFunctionOnSet(d, Lines) = SumFunctionOnSet(d, all)
  <2>1. \A l \in all : d[l] \in Int
    BY <1>5, <1>11
  <2> QED  BY <1>3, <1>11, <1>12, <2>1, SumWhere
<1>14. SumFunctionOnSet(n, Lines) = SumFunctionOnSet(p, Lines) + SumFunctionOnSet(d, Lines)
  BY <1>3, <1>5, SumPlus
<1>15. SumFunctionOnSet(e, I) \in Int
  <2>1. \A i \in I : e[i] \in Int
    BY <1>6
  <2> QED  BY <1>8, <2>1, SumType
<1> QED  BY <1>1, <1>2, <1>4, <1>10, <1>13, <1>14, <1>15

\* A block keeps the balance.
LEMMA CommitBalanced ==
  ASSUME Handshake, Handshake', Placed, Balanced, panicked = {}, NEW s \in Shards, commitBlock(s),
         panicked' = {}
  PROVE  Balanced'
<1>1. PICK body \in Seq(Txs) : body = request[s].body
  <2>1. stage[s] = "block"
    BY DEF commitBlock
  <2> QED  BY <2>1, BlockRequest
<1>2. PICK e : e = Effects(balance[s], PartitionMap[s], s, Fields(body))
  OBVIOUS
<1>3. PICK x : x = SumFunctionOnSet(e, 1..Len(body))
  OBVIOUS
<1>4. SumFunctionOnSet(Owned', Accounts) = SumFunctionOnSet(Owned, Accounts) + x
  BY <1>1, <1>2, <1>3, CommitOwned
<1>5. /\ x \in Int /\ NetTotal /\ NetTotal'
      /\ SumFunctionOnSet(Net, Lines) = SumFunctionOnSet(Net', Lines) + x
  BY <1>1, <1>2, <1>3, CommitNet
<1>6. PICK t \in Int, u \in Int : t = SumFunctionOnSet(Values, transit) /\ u = SumFunctionOnSet(Values, unbacked)
  BY <1>5 DEF NetTotal
<1>7. PICK t1 \in Int, u1 \in Int : /\ t1 = SumFunctionOnSet(Values, transit')
                                    /\ u1 = SumFunctionOnSet(Values, unbacked')
  BY <1>5 DEF NetTotal
<1>8. t - u = (t1 - u1) + x
  <2>1. SumFunctionOnSet(Net, Lines) = t - u
    BY <1>5, <1>6 DEF NetTotal
  <2>2. SumFunctionOnSet(Net', Lines) = t1 - u1
    BY <1>5, <1>7 DEF NetTotal
  <2> QED  BY <1>5, <2>1, <2>2
<1>9. PICK w \in Int : w = SumFunctionOnSet(Owned, Accounts)
  <2>1. PICK f : f = Owned
    OBVIOUS
  <2>2. \A a \in Accounts : f[a] \in Int
    BY <2>1, OwnerFacts
  <2> QED  BY <2>1, <2>2, ShardingAssumption, SumType
<1>10. PICK z \in Int : z = Cardinality(Accounts) * Init_Balance
  <2>1. Cardinality(Accounts) \in Nat /\ Init_Balance \in Nat
    BY ShardingAssumption, ClpaAssumption, FS_CardinalityType
  <2> QED  BY <2>1
<1>11. w + t = z + u
  BY <1>6, <1>9, <1>10 DEF Balanced
<1>12. (w + x) + t1 = z + u1
  BY <1>5, <1>8, <1>11
<1> QED  BY <1>4, <1>7, <1>9, <1>10, <1>12 DEF Balanced

\* Every step keeps the balance, unless a main node panics.
LEMMA BalancedStep ==
  Handshake /\ Handshake' /\ TransferredStateCurrent /\ Tracked /\ Balanced /\ [Next]_vars => Balanced'
<1> SUFFICES ASSUME Handshake, Handshake', TransferredStateCurrent, Tracked, Balanced, [Next]_vars,
                    panicked' = {}
             PROVE  Balanced'
  BY DEF Balanced
<1>0. panicked = {} /\ Placed
  <2>1. panicked = {}
    BY PanickedStep
  <2> QED  BY <2>1 DEF Tracked
<1>1. ASSUME Owned' = Owned, UNCHANGED <<transit, unbacked>> PROVE Balanced'
  BY <1>0, <1>1 DEF Balanced, Values
<1>2. ASSUME UNCHANGED <<epoch, balance, AccountTransferRound, transit, unbacked>> PROVE Balanced'
  BY <1>1, <1>2 DEF Owned, Owner
<1>3. CASE clpaMapSend
  BY <1>1, <1>3, MapSendOwned DEF clpaMapSend, chain
<1>4. ASSUME NEW s \in Shards, accountTransfer_do(s) PROVE Balanced'
  BY <1>1, <1>4, DoOwned, DoFacts
<1>5. ASSUME NEW s \in Shards, commitBlock(s) PROVE Balanced'
  BY <1>0, <1>5, CommitBalanced
<1>6. ASSUME NEW s \in Shards, GenerateBlock(s) \/ sendPartitionReady(s) \/ sendAccounts_and_Txs(s)
      PROVE  Balanced'
  BY <1>2, <1>6 DEF GenerateBlock, sendPartitionReady, sendAccounts_and_Txs, supervisor, chain, clpaData
<1>7. ASSUME NEW s \in Shards, proposePartition(s) PROVE Balanced'
  BY <1>2, <1>7, ProposeFacts DEF supervisor, chain, clpaData
<1>8. CASE txSending \/ UNCHANGED vars
  BY <1>2, <1>8 DEF txSending, vars, supervisor, chain, clpaData
<1>9. CASE \/ (\E m \in injects : handleInjectTx(m)) \/ (\E m \in relays : handleRelay(m))
           \/ (\E m \in mapMsgs : handlePartitionMsg(m)) \/ (\E m \in readyMsgs : handlePartitionReady(m))
           \/ (\E m \in accountMsgs : handleAccountStateAndTxMsg(m))
  BY <1>2, <1>9 DEF handleInjectTx, handleRelay, handlePartitionMsg, handlePartitionReady,
                    handleAccountStateAndTxMsg, supervisor, chain, clpaData
<1> QED  BY <1>3, <1>4, <1>5, <1>6, <1>7, <1>8, <1>9 DEF Next

-----------------------------------------------------------------------------
(***************************************************************************)
(* The initial state, and the theorems.                                    *)
(***************************************************************************)

\* At the beginning nothing is under way.
LEMMA ClpaInit == Init => Shaped /\ TransferredStateCurrent /\ AtHome /\ Tracked
<1> SUFFICES ASSUME Init PROVE Shaped /\ TransferredStateCurrent /\ AtHome /\ Tracked
  OBVIOUS
<1>1. Handshake
  BY HandshakeInit
<1>2. /\ accountMsgs = {} /\ injects = {} /\ relays = {} /\ panicked = {}
      /\ sent = 0 /\ transit = {} /\ finished = {} /\ unbacked = {}
      /\ \A s \in Shards : AccountStateTx[s] = {} /\ pool[s] = <<>> /\ stage[s] = "idle"
  BY DEF Init
<1>3. AccountMessages = {}
  BY <1>2 DEF AccountMessages
<1>4. \A m : m \notin Pending
  BY <1>2, PendingMembers DEF Places, Waits
<1>5. PICK e : e = <<>> /\ Range(e) = {} /\ IsInjective(e)
  BY DEF Range, IsInjective
<1>6. \A s \in Shards : Held(s) = e /\ Range(pool[s]) = {}
  <2>1. \A s \in Shards : HeldParts(s)
    BY <1>1, HeldFacts DEF HeldSplit
  <2> QED  BY <1>2, <1>5, <2>1 DEF HeldParts
<1>7. Homes
  BY <1>2, <1>6 DEF Homes
<1>8. Placed
  <2>1. OneCopy
    BY <1>4, <1>5, <1>6 DEF OneCopy, Others
  <2>2. \A x : x \notin Somewhere
    BY <1>4, <1>5, <1>6, PendingMembers DEF Places, Found
  <2>3. (1..sent) \ finished = {}
    BY <1>2
  <2>4. \A x : x \notin {Tx(l, l \in transit) : l \in (1..sent) \ finished}
    BY <2>3
  <2>5. Somewhere = {Tx(l, l \in transit) : l \in (1..sent) \ finished}
    BY <2>2, <2>4
  <2> QED  BY <1>2, <2>1, <2>5 DEF Placed
<1> QED  BY <1>1, <1>3, <1>7, <1>8, HomesFacts DEF Shaped, TransferredStateCurrent, Tracked

\* At the beginning all owners have Init_Balance.
LEMMA BalancedInit == Init => Balanced
<1> SUFFICES ASSUME Init PROVE Balanced
  OBVIOUS
<1>1. Handshake
  BY HandshakeInit
<1>2. PICK f : f = Owned
  OBVIOUS
<1>3. PICK c \in Int : c = Init_Balance
  BY ClpaAssumption
<1>4. ASSUME NEW a \in Accounts PROVE f[a] = c
  <2>1. PICK u \in Shards : f[a] = balance[u][a]
    BY <1>1, <1>2, OwnerFacts
  <2> QED  BY <1>3, <2>1 DEF Init
<1>5. SumFunctionOnSet(f, Accounts) = Cardinality(Accounts) * c
  BY <1>4, ShardingAssumption, SumConstant
<1>6. PICK z \in Int : z = Cardinality(Accounts) * c
  <2>1. Cardinality(Accounts) \in Nat
    BY ShardingAssumption, FS_CardinalityType
  <2> QED  BY <2>1
<1>7. PICK E, v : E = {} /\ v = Values
  OBVIOUS
<1>8. SumFunctionOnSet(v, E) = 0
  <2>1. IsFiniteSet(E) /\ \A x \in E : v[x] \in Int
    BY <1>7, FS_EmptySet
  <2> QED  BY <1>7, <2>1, SumType
<1>9. transit = E /\ unbacked = E
  BY <1>7 DEF Init
<1>10. z + 0 = z
  OBVIOUS
<1> QED  BY <1>2, <1>3, <1>5, <1>6, <1>7, <1>8, <1>9, <1>10 DEF Balanced

\* The inductive invariant of the re-partitioning handshake: each of its six parts
\* holds at the beginning, and every step of every handler keeps it.
THEOREM ClpaInvariant == Spec => []IInv
<1>1. Init => IInv
  BY HandshakeInit, ClpaInit, BalancedInit DEF IInv
<1>2. IInv /\ [Next]_vars => IInv'
  BY HandshakeStep, ShapedStep, CurrentStep, AtHomeStep, TrackedStep, BalancedStep DEF IInv
<1> QED  BY <1>1, <1>2, PTL DEF Spec

\* The variables have the types that the Go declarations give them.
THEOREM ClpaTypes == Spec => []TypeOK
<1>1. IInv => TypeOK
  BY DEF IInv, Handshake
<1> QED  BY <1>1, ClpaInvariant, PTL

\* The state that FetchAccounts took of an account is its current one until the new
\* shard adds it: no block of the old shard changes it in between.
THEOREM ClpaStateCurrent == Spec => []TransferredStateCurrent
<1>1. IInv => TransferredStateCurrent
  BY DEF IInv
<1> QED  BY <1>1, ClpaInvariant, PTL

\* HandleinCommit and proposePartition panic over a misplaced transaction only after
\* one arrived that was sent under another map than the one it met.
THEOREM ClpaLatePanics == Spec => []OnlyLateTxPanics
<1>1. IInv => OnlyLateTxPanics
  BY DEF IInv, AtHome, OnlyLateTxPanics
<1> QED  BY <1>1, ClpaInvariant, PTL

\* Through pools, relays and the exchange of pools, an injected transaction is in
\* exactly one place until it is finished, unless a main node panics.
THEOREM ClpaNoTxLost == Spec => []NoTxLostOrDoubled
<1>1. IInv => NoTxLostOrDoubled
  BY DEF IInv, Handshake, Tracked, Placed, NoTxLostOrDoubled
<1> QED  BY <1>1, ClpaInvariant, PTL

\* Between re-partitions all shards agree who owns which account, and moving accounts
\* has lost no block's effect and made no value.
THEOREM ClpaValueConserved == Spec => []ValueConserved
<1>1. IInv => ValueConserved
  <2> SUFFICES ASSUME IInv, Settled, panicked = {}, NEW pm, pm = UpdatedUpTo(Addr2Shard, epoch)
               PROVE  /\ \A s \in Shards : PartitionMap[s] = pm
                      /\ SumFunctionOnSet([a \in Accounts |-> balance[pm[a]][a]], Accounts)
                           + SumFunctionOnSet(Values, transit)
                         = Cardinality(Accounts) * Init_Balance + SumFunctionOnSet(Values, unbacked)
    BY DEF ValueConserved
  <2>1. Handshake /\ Balanced /\ pm = Owners(epoch) /\ \A s \in Shards : AccountTransferRound[s] = epoch
    BY DEF IInv, Settled, Owners
  <2>2. \A s \in Shards : PartitionMap[s] = pm
    BY <2>1 DEF Handshake, Round
  <2>3. \A a \in Accounts : Owner(a) = pm[a]
    BY <2>1, OwnerFacts
  <2>4. Owned = [a \in Accounts |-> balance[pm[a]][a]]
    BY <2>3 DEF Owned
  <2> QED  BY <2>1, <2>2, <2>4 DEF Balanced
<1> QED  BY <1>1, ClpaInvariant, PTL
=============================================================================
