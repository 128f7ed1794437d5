--------------------------- MODULE MCClusterLeader --------------------------
(* ClusterLeader on a cluster of three nodes. *)
EXTENDS ClusterLeader, TLC

\* Nodes are interchangeable: no action names one.
NodeSymmetry == Permutations(Nodes)

\* Bound: a node has at most one health check waiting.
OneCheckWaits == \A n \in Nodes : Len(healthCheck[n]) <= 1

\* The node that stands first, in place of the symmetry that liveness rules out.
First == CHOOSE n \in Nodes : TRUE

\* Bound: an election starts when nobody waits for votes and no request for one
\* is on its way.  Whether the vote is won, lost or cut short is left open, and
\* health checks of an earlier leader may still come.
InTurn ==
    \A n \in Nodes : ~electing[n] /\ electing'[n] =>
        /\ voteReq = {} /\ \A m \in Nodes : ~electing[m]
        /\ ballots = {} => n = First

FairInTurn == Init /\ [][Next /\ InTurn]_vars /\ Fairness
=============================================================================
