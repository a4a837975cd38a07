------------------------------- MODULE MCPbft -------------------------------
(***************************************************************************)
(* Model checking of Pbft.                                                 *)
(***************************************************************************)
EXTENDS Pbft, TLC

\* The nodes other than the main node are interchangeable.
ReplicaSymmetry == Permutations(Nodes \ {Leader})

(***************************************************************************)
(* A Commit for a digest that is answered, and a Prepare for one whose     *)
(* Commit went out, only raise a counter nobody reads again.  Such a step  *)
(* commutes with every other, so it is enough to explore the behaviours    *)
(* that take it, or lose its message, as soon as that can happen.          *)
(***************************************************************************)
Idle(n, d) ==
  /\ ~hung[n]
  /\ \/ commits[n][d] > 0 /\ d \in isReply[n]
     \/ prepares[n][d] > 0 /\ d \in isCommitBordcast[n]

IdleFirst ==
  (\E n \in Nodes, d \in Digests : Idle(n, d)) =>
    \E n \in Nodes, d \in Digests :
      /\ Idle(n, d)
      /\ commits'[n][d] < commits[n][d] \/ prepares'[n][d] < prepares[n][d]

(***************************************************************************)
(* One schedule: the nodes other than the main node handle a Commit only   *)
(* when there is nothing else to do.                                       *)
(***************************************************************************)
CommitsLast ==
  (\E n \in Nodes \ {Leader} : cntCommitConfirm'[n] # cntCommitConfirm[n]) =>
    /\ sequenceLock \/ Len(requests) = MaxHeight
    /\ \A n \in Nodes : prePrepares[n] = {}
    /\ \A n \in Nodes, d \in Digests : prepares[n][d] = 0
    /\ \A d \in Digests : commits[Leader][d] = 0
=============================================================================
