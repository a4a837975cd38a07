--------------------------- MODULE ClpaPartition ---------------------------
(***************************************************************************)
(* The partition algorithm of the CLPA supervisor: the graph of executed   *)
(* transfers that AdjustByBlockInfos builds, CLPA_Partition on it with its *)
(* counters that are updated move by move, and clpaReset, which carries    *)
(* the map over to the graph of the next epoch.                            *)
(*                                                                         *)
(* CLPA_Partition holds clpaLock, so no edge is added while it runs.  It   *)
(* visits vertices in the order of a Go map, which is any order.  No edge  *)
(* joins a vertex with itself: data2tx drops such transfers.               *)
(***************************************************************************)
EXTENDS Sharding, Integers, FiniteSetsExt, Functions

CONSTANTS
  MaxIterations,    \* 100 in clpaReset
  UpdateThreshold,  \* moves of a vertex in one run of the algorithm (50)
  MaxEdges,         \* bound: edges of a graph
  MaxEpochs         \* bound: runs of the algorithm

ASSUME ClpaPartitionAssumption ==
  {MaxIterations, UpdateThreshold, MaxEdges, MaxEpochs} \subseteq Nat

VARIABLES
  modifiedMap,       \* of the supervisor: the changed entries of all epochs
  EdgeSet,           \* pair of accounts -> number of edges between them
  VertexSet,
  graphMap,          \* PartitionMap of the graph
  VertexsNumInShard,
  Edges2Shard,
  MinEdges2Shard,
  CrossShardEdgeNum,
  res,               \* result of the run: moved account -> its new shard
  updateTreshold,    \* account -> moves in this run
  iter,              \* iterations done, or Building if no run is going on
  todo,              \* vertices not yet visited in this iteration
  runs               \* of the algorithm that ended

counters == <<Edges2Shard, MinEdges2Shard, CrossShardEdgeNum>>
partitionVars ==
  <<modifiedMap, EdgeSet, VertexSet, graphMap, VertexsNumInShard, counters, res,
    updateTreshold, iter, todo, runs>>

Building == -1
Pairs == {e \in SUBSET Accounts : Cardinality(e) = 2}
Empty == [a \in {} |-> 0]

\* fetchModifiedMap, and AddVertex: the shard of an account.
ShardOf(map, a) == IF a \in DOMAIN map THEN map[a] ELSE Addr2Shard[a]

Edges(u, v) == IF u = v THEN 0 ELSE EdgeSet[{u, v}]
EdgesOf(v) == [u \in Accounts |-> Edges(u, v)]
Degree(v) == SumFunctionOnSet(EdgesOf(v), Accounts)

Init_CLPAState ==
  /\ modifiedMap = Empty
  /\ EdgeSet = [e \in Pairs |-> 0] /\ VertexSet = {}
  /\ graphMap = Addr2Shard
  /\ VertexsNumInShard = [s \in Shards |-> 0]
  /\ Edges2Shard = [s \in Shards |-> 0] /\ MinEdges2Shard = 0 /\ CrossShardEdgeNum = 0
  /\ res = Empty /\ updateTreshold = [a \in Accounts |-> 0]
  /\ iter = Building /\ todo = {} /\ runs = 0

-----------------------------------------------------------------------------
\* AdjustByBlockInfos with one executed transfer: AddEdge, and AddVertex for an
\* end that the graph does not have yet.
AddEdge(u, v) ==
  LET new == {u, v} \ VertexSet IN
  /\ iter = Building /\ u # v
  /\ SumFunctionOnSet(EdgeSet, Pairs) < MaxEdges
  /\ EdgeSet' = [EdgeSet EXCEPT ![{u, v}] = @ + 1]
  /\ VertexSet' = VertexSet \cup {u, v}
  /\ VertexsNumInShard' =
       [s \in Shards |-> VertexsNumInShard[s] + Cardinality({x \in new : graphMap[x] = s})]
  /\ UNCHANGED <<modifiedMap, graphMap, counters, res, updateTreshold, iter, todo, runs>>

(***************************************************************************)
(* ComputeEdges2Shard counts over the ends of the edges: an edge between   *)
(* shards once for each, an edge inside a shard twice, hence the halves.   *)
(***************************************************************************)
Ends == [p \in Accounts \X Accounts |-> Edges(p[1], p[2])]
CrossPairs(s) == {p \in DOMAIN Ends : graphMap[p[1]] # s /\ graphMap[p[2]] = s}
InterPairs(s) == {p \in DOMAIN Ends : graphMap[p[1]] = s /\ graphMap[p[2]] = s}

CrossEnds == [s \in Shards |-> SumFunctionOnSet(Ends, CrossPairs(s))]
InterEnds == [s \in Shards |-> SumFunctionOnSet(Ends, InterPairs(s))]

ComputeEdges2Shard ==
  /\ Edges2Shard' = [s \in Shards |-> CrossEnds[s] + InterEnds[s] \div 2]
  /\ CrossShardEdgeNum' = SumFunctionOnSet(CrossEnds, Shards) \div 2
  /\ MinEdges2Shard' = Min(Range(Edges2Shard'))

CLPA_Partition ==
  /\ iter = Building /\ runs < MaxEpochs
  /\ ComputeEdges2Shard
  /\ res' = Empty /\ updateTreshold' = [a \in Accounts |-> 0]
  /\ iter' = 0 /\ todo' = VertexSet
  /\ UNCHANGED <<modifiedMap, EdgeSet, VertexSet, graphMap, VertexsNumInShard, runs>>

(***************************************************************************)
(* getShard_score, multiplied by the degree of v and 2 * MinEdges2Shard    *)
(* (the penalty is 0.5), against max_score, which starts at -9999.  If     *)
(* MinEdges2Shard is 0 the quotient is infinite or not a number; here its  *)
(* numerator is at most 0, and no shard is above the starting value        *)
(* either.  Scores that are equal may differ after rounding: any of them   *)
(* can win.                                                                *)
(***************************************************************************)
EdgesTo(v, s) == SumFunctionOnSet(EdgesOf(v), {u \in Accounts : graphMap[u] = s})
score(v, s) == EdgesTo(v, s) * (2 * MinEdges2Shard - Edges2Shard[s])
max_score(v) == -9999 * Degree(v) * 2 * MinEdges2Shard

NeighborShards(v) == {s \in Shards : EdgesTo(v, s) > 0}
BestShards(v) ==
  LET above == {s \in NeighborShards(v) : score(v, s) > max_score(v)} IN
  IF above = {} THEN {graphMap[v]}
  ELSE {s \in above : \A t \in above : score(v, t) <= score(v, s)}

\* changeShardRecompute: v moves from old to new.
RecomputeNoOther(v, old, new) ==  \* mutant
  /\ Edges2Shard' = [Edges2Shard EXCEPT ![new] = @ + EdgesTo(v, old), ![old] = @ - EdgesTo(v, new)]
  /\ CrossShardEdgeNum' = CrossShardEdgeNum + EdgesTo(v, old) - EdgesTo(v, new)
  /\ MinEdges2Shard' = Min(Range(Edges2Shard'))
changeShardRecompute(v, old, new) ==
  LET others == Degree(v) - EdgesTo(v, old) - EdgesTo(v, new) IN
  /\ Edges2Shard' = [Edges2Shard EXCEPT ![new] = @ + others + EdgesTo(v, old),
                                        ![old] = @ - others - EdgesTo(v, new)]
  /\ CrossShardEdgeNum' = CrossShardEdgeNum + EdgesTo(v, old) - EdgesTo(v, new)
  /\ MinEdges2Shard' = Min(Range(Edges2Shard'))

\* A shard keeps its last vertex.
MayLeaveAlways(v) == TRUE  \* mutant
MayLeave(v) == VertexsNumInShard[graphMap[v]] > 1

visit(v) ==
  /\ iter \in 0..(MaxIterations - 1) /\ v \in todo
  /\ todo' = todo \ {v}
  /\ UNCHANGED <<modifiedMap, EdgeSet, VertexSet, iter, runs>>

moveVertex(v, new) ==
  LET old == graphMap[v] IN
  /\ visit(v)
  /\ updateTreshold[v] < UpdateThreshold
  /\ new \in BestShards(v) /\ new # old /\ MayLeave(v)
  /\ graphMap' = [graphMap EXCEPT ![v] = new]
  /\ res' = [a \in DOMAIN res \cup {v} |-> IF a = v THEN new ELSE res[a]]
  /\ updateTreshold' = [updateTreshold EXCEPT ![v] = @ + 1]
  /\ VertexsNumInShard' = [VertexsNumInShard EXCEPT ![old] = @ - 1, ![new] = @ + 1]
  /\ changeShardRecompute(v, old, new)

leaveVertex(v) ==
  /\ visit(v)
  /\ \/ updateTreshold[v] >= UpdateThreshold
     \/ graphMap[v] \in BestShards(v)
     \/ ~MayLeave(v)
  /\ UNCHANGED <<graphMap, res, updateTreshold, VertexsNumInShard, counters>>

nextIteration ==
  /\ iter \in 0..(MaxIterations - 1) /\ todo = {}
  /\ iter' = iter + 1 /\ todo' = VertexSet
  /\ UNCHANGED <<modifiedMap, EdgeSet, VertexSet, graphMap, VertexsNumInShard, counters,
                 res, updateTreshold, runs>>

(***************************************************************************)
(* The end of the run: the supervisor sends res to the shards, merges it   *)
(* into modifiedMap and makes a new graph with the merged map.             *)
(***************************************************************************)
Merged == [a \in DOMAIN modifiedMap \cup DOMAIN res |->
             IF a \in DOMAIN res THEN res[a] ELSE modifiedMap[a]]

ResetMapResOnly == [a \in Accounts |-> ShardOf(res, a)]  \* mutant
ResetMap == [a \in Accounts |-> ShardOf(Merged, a)]

clpaReset ==
  /\ iter = MaxIterations
  /\ modifiedMap' = Merged
  /\ graphMap' = ResetMap
  /\ EdgeSet' = [e \in Pairs |-> 0] /\ VertexSet' = {}
  /\ VertexsNumInShard' = [s \in Shards |-> 0]
  /\ Edges2Shard' = [s \in Shards |-> 0] /\ MinEdges2Shard' = 0 /\ CrossShardEdgeNum' = 0
  /\ res' = Empty /\ updateTreshold' = [a \in Accounts |-> 0]
  /\ iter' = Building /\ todo' = {} /\ runs' = runs + 1

PartitionNext ==
  \/ \E u, v \in Accounts : AddEdge(u, v)
  \/ CLPA_Partition
  \/ \E v \in Accounts : leaveVertex(v) \/ \E s \in Shards : moveVertex(v, s)
  \/ nextIteration \/ clpaReset

PartitionSpec == Init_CLPAState /\ [][PartitionNext]_partitionVars

-----------------------------------------------------------------------------
(***************************************************************************)
(* Properties.                                                             *)
(***************************************************************************)

\* The variables have the types that the Go declarations give them.
PartitionTypeOK ==
  /\ DOMAIN modifiedMap \subseteq Accounts /\ Range(modifiedMap) \subseteq Shards
  /\ DOMAIN res \subseteq VertexSet /\ VertexSet \subseteq Accounts
  /\ EdgeSet \in [Pairs -> 0..MaxEdges]
  /\ graphMap \in [Accounts -> Shards]
  /\ VertexsNumInShard \in [Shards -> Nat] /\ Edges2Shard \in [Shards -> Nat]
  /\ updateTreshold \in [Accounts -> 0..UpdateThreshold]
  /\ iter \in Building..MaxIterations /\ todo \subseteq VertexSet

\* The pairs with an end in shard s, and those with ends in two shards.
Touching(s) == {e \in Pairs : \E v \in e : graphMap[v] = s}
Crossing == {e \in Pairs : \E u, v \in e : graphMap[u] # graphMap[v]}

\* The counters that changeShardRecompute and the moves adjust are, after every
\* move and in whatever order vertices are visited, what counting afresh gives:
\* the edges that touch a shard, the edges between shards, the least of the
\* former, and the vertices of a shard.
CountersExact ==
  /\ PartitionTypeOK
  /\ \A s \in Shards :
       VertexsNumInShard[s] = Cardinality({v \in VertexSet : graphMap[v] = s})
  /\ iter # Building =>
       /\ \A s \in Shards : Edges2Shard[s] = SumFunctionOnSet(EdgeSet, Touching(s))
       /\ CrossShardEdgeNum = SumFunctionOnSet(EdgeSet, Crossing)
       /\ MinEdges2Shard = Min(Range(Edges2Shard))

\* A run of the algorithm never takes the last vertex of a shard away, however
\* attractive the other shards are.
NoShardEmptied ==
  [][\A s \in Shards :
       (\E v \in VertexSet : graphMap[v] = s) /\ iter # MaxIterations
         => \E v \in VertexSet' : graphMap'[v] = s]_partitionVars

\* The graph and the map with which the supervisor routes transfers agree in every
\* epoch: what the algorithm believes of an account is the entry of this run's
\* result, or else of an earlier one, or else the default.
MapsAgree == \A a \in Accounts : graphMap[a] = ShardOf(Merged, a)
=============================================================================
