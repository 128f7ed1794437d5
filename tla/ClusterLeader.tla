--------------------------- MODULE ClusterLeader ---------------------------
(***************************************************************************)
(* Leader election and failover of the cluster                             *)
(* (server/cluster_leader.go, with rehash and gcProxySessions of           *)
(* server/cluster.go).                                                     *)
(*                                                                         *)
(* Every node runs one goroutine (Cluster.run) that selects between its    *)
(* heartbeat ticker, health checks from a leader and vote requests.  A     *)
(* node that leads sends health checks on every tick; a node that misses   *)
(* voteTimeout of them starts an election and blocks in electLeader until  *)
(* it has a majority, hears of a higher term or times out.                 *)
(*                                                                         *)
(* Abstractions: a consistent-hash ring is the set of nodes it was built   *)
(* from, so two ring signatures are equal exactly when these sets are; the *)
(* count of favourable votes is the set of voters (each node is asked once *)
(* per election); time is not modelled, a ticker may fire at any moment.   *)
(***************************************************************************)
EXTENDS Integers, Sequences, FiniteSets

CONSTANTS
    Nodes,          \* all configured nodes: c.nodes plus c.thisNodeName
    NoNode,         \* the empty string: no leader known
    VoteAfter,      \* voteTimeout and the capacity of the healthCheck channel
    NodeFailAfter,  \* nodeFailCountLimit
    MaxTerm,        \* bound: no election is started past this term
    MaxFaults       \* bound: crashes, failed calls to live nodes, lost votes

ASSUME NodesAssumption == IsFiniteSet(Nodes) /\ Cardinality(Nodes) >= 3
ASSUME NoNodeAssumption == NoNode \notin Nodes
ASSUME LimitsAssumption ==
    /\ VoteAfter \in Nat \ {0}
    /\ NodeFailAfter \in Nat \ {0}
    /\ MaxTerm \in Nat
    /\ MaxFaults \in Nat

VARIABLES
    up,         \* the process is running
    term,       \* fo.term
    leader,     \* fo.leader
    missed,     \* health checks missed in a row (local of run)
    rehashSkipped, \* the last mismatched health check was let pass (local of run)
    ring,       \* nodes of c.ring
    activeNodes,   \* fo.activeNodes
    failCount,  \* node.failCount of every peer, counted up to NodeFailAfter + 1
    electing,   \* blocked in electLeader
    voters,     \* nodes whose votes voteCount stands for
    healthCheck,   \* the healthCheck channel
    voteReq,    \* Vote calls on their way to, or queued at, a voter
    voteResp,   \* answers on their way to the candidate
    ballots,    \* history: <<voter, term, candidate>> of every vote cast
    elected,    \* history: <<term, node>> of every election won
    faults      \* number of faults so far

vars == <<up, term, leader, missed, rehashSkipped, ring, activeNodes, failCount,
          electing, voters, healthCheck, voteReq, voteResp, ballots, elected, faults>>

Others(n) == Nodes \ {n}

\* Number of votes needed to elect the leader: more than half of all nodes.
ExpectVotes == (Cardinality(Nodes) \div 2) + 1

HealthMsg == [Leader : Nodes, Term : Nat, Signature : SUBSET Nodes, Nodes : SUBSET Nodes]
VoteReqMsg == [cand : Nodes, to : Nodes, term : Nat, live : BOOLEAN]
VoteRespMsg == [cand : Nodes, from : Nodes, term : Nat, result : BOOLEAN, vterm : Nat]

-----------------------------------------------------------------------------
\* failoverInit: every node assumes that all nodes are alive and well.
Init ==
    /\ up = [n \in Nodes |-> TRUE]
    /\ term = [n \in Nodes |-> 0]
    /\ leader = [n \in Nodes |-> NoNode]
    /\ missed = [n \in Nodes |-> 0]
    /\ rehashSkipped = [n \in Nodes |-> FALSE]
    /\ ring = [n \in Nodes |-> Nodes]
    /\ activeNodes = [n \in Nodes |-> Nodes]
    /\ failCount = [n \in Nodes |-> [m \in Nodes |-> 0]]
    /\ electing = [n \in Nodes |-> FALSE]
    /\ voters = [n \in Nodes |-> {}]
    /\ healthCheck = [n \in Nodes |-> <<>>]
    /\ voteReq = {}
    /\ voteResp = {}
    /\ ballots = {}
    /\ elected = {}
    /\ faults = 0

\* The select loop of run() is ready to take its next event.
Looping(n) == up[n] /\ ~electing[n]

-----------------------------------------------------------------------------
\* Health(): called on the follower; a health check that finds the channel
\* full is dropped and the caller still sees success.
Health(ch, msg) == IF Len(ch) < VoteAfter THEN Append(ch, msg) ELSE ch

\* node.failCount after one round in which the calls to `failed` returned an
\* error.  Counts past the limit are all alike, they saturate at limit + 1.
NextFailCount(n, failed) ==
    [m \in Nodes |->
        IF m \in failed
        THEN IF failCount[n][m] > NodeFailAfter THEN failCount[n][m]
                                                ELSE failCount[n][m] + 1
        ELSE 0]

\* A peer has just reached the limit, or one past the limit has answered.
NeedRehash(n, failed) ==
    \E m \in Others(n) :
        \/ m \in failed /\ failCount[n][m] + 1 = NodeFailAfter
        \/ m \notin failed /\ failCount[n][m] >= NodeFailAfter

\* One round of sendHealthChecks.  The call reaches the nodes in `got`; it
\* returns an error for the nodes in `failed`.  A call to a live node may fail
\* before or after it was delivered.
HealthRound(n, got, failed) ==
    LET alive == {m \in Others(n) : up[m]}
        msg == [Leader |-> n, Term |-> term[n], Signature |-> ring[n],
                Nodes |-> activeNodes[n]]
        fc == NextFailCount(n, failed)
        live == {n} \cup {m \in Others(n) : fc[m] < NodeFailAfter}
    IN  /\ got \subseteq alive
        /\ Others(n) \ failed \subseteq got
        /\ faults + Cardinality(failed \cap alive) <= MaxFaults
        /\ faults' = faults + Cardinality(failed \cap alive)
        /\ healthCheck' = [m \in Nodes |->
               IF m \in got THEN Health(healthCheck[m], msg) ELSE healthCheck[m]]
        /\ failCount' = [failCount EXCEPT ![n] = fc]
        /\ activeNodes' = IF NeedRehash(n, failed) THEN [activeNodes EXCEPT ![n] = live]
                                                  ELSE activeNodes
        /\ ring' = IF NeedRehash(n, failed) THEN [ring EXCEPT ![n] = live] ELSE ring

\* The ticker fires on the leader.
SendHealthChecks(n) ==
    /\ Looping(n)
    /\ leader[n] = n
    /\ \E got, failed \in SUBSET Others(n) : HealthRound(n, got, failed)
    /\ UNCHANGED <<up, term, leader, missed, rehashSkipped, electing, voters,
                   voteReq, voteResp, ballots, elected>>

\* The ticker fires on a node that does not lead, and it keeps waiting.
MissHealthCheck(n) ==
    /\ Looping(n)
    /\ leader[n] # n
    /\ missed[n] + 1 < VoteAfter
    /\ missed' = [missed EXCEPT ![n] = @ + 1]
    /\ UNCHANGED <<up, term, leader, rehashSkipped, ring, activeNodes, failCount, electing,
                   voters, healthCheck, voteReq, voteResp, ballots, elected, faults>>

\* The ticker fires once too often: the first half of electLeader, up to the
\* loop that waits for votes.  Calls to nodes that are down fail at once.
ElectLeader(n) ==
    /\ Looping(n)
    /\ leader[n] # n
    /\ missed[n] + 1 >= VoteAfter
    /\ term[n] < MaxTerm
    /\ missed' = [missed EXCEPT ![n] = 0]
    /\ term' = [term EXCEPT ![n] = @ + 1]
    /\ leader' = [leader EXCEPT ![n] = NoNode]
    /\ electing' = [electing EXCEPT ![n] = TRUE]
    /\ voters' = [voters EXCEPT ![n] = {n}]
    /\ ballots' = ballots \cup {<<n, term[n] + 1, n>>}
    /\ voteReq' = voteReq \cup
          {[cand |-> n, to |-> m, term |-> term[n] + 1, live |-> TRUE] :
              m \in {k \in Others(n) : up[k]}}
    /\ UNCHANGED <<up, rehashSkipped, ring, activeNodes, failCount, healthCheck, voteResp,
                   elected, faults>>

\* The wait for votes is over: answers that arrive later go to a channel
\* nobody reads.
EndElection(n) ==
    /\ electing' = [electing EXCEPT ![n] = FALSE]
    /\ voters' = [voters EXCEPT ![n] = {}]
    /\ voteResp' = {r \in voteResp : r.cand # n}

\* electLeader: answer r arrives while the candidate waits.  Enough votes: it
\* leads.  A refusal with a higher term: it abandons the vote, keeping its own
\* term.
CountVote(n, r) ==
    LET got == voters[n] \cup {r.from} IN
    \/ /\ r.result
       /\ Cardinality(got) < ExpectVotes
       /\ voters' = [voters EXCEPT ![n] = got]
       /\ voteResp' = voteResp \ {r}
       /\ UNCHANGED <<leader, electing, elected>>
    \/ /\ r.result
       /\ Cardinality(got) >= ExpectVotes
       /\ EndElection(n)
       /\ leader' = [leader EXCEPT ![n] = n]
       /\ elected' = elected \cup {<<term[n], n>>}
    \/ /\ ~r.result
       /\ term[n] < r.vterm
       /\ EndElection(n)
       /\ UNCHANGED <<leader, elected>>
    \/ /\ ~r.result
       /\ term[n] >= r.vterm
       /\ voteResp' = voteResp \ {r}
       /\ UNCHANGED <<leader, electing, voters, elected>>

TakeVote(n) ==
    /\ up[n] /\ electing[n]
    /\ \E r \in voteResp : r.cand = n /\ CountVote(n, r)
    /\ UNCHANGED <<up, term, missed, rehashSkipped, ring, activeNodes, failCount,
                   healthCheck, voteReq, ballots, faults>>

\* electLeader: all nodes have answered, or the timer fires, without a majority.
ElectionTimeout(n) ==
    /\ up[n] /\ electing[n]
    /\ EndElection(n)
    /\ UNCHANGED <<up, term, leader, missed, rehashSkipped, ring, activeNodes, failCount,
                   healthCheck, voteReq, ballots, elected, faults>>

-----------------------------------------------------------------------------
\* Mutated: votes for a second candidate of the term it is in.
GrantsVoteTwice(n, q) == term[n] <= q.term

\* "This is a new election. This node has not voted yet."
GrantsVote(n, q) == term[n] < q.term

\* Mutated: a vote leaves the leader of the previous term in place.
KeepLeader(n) == leader[n]

\* "Election means these is no leader yet."
LeaderAfterVote(n) == NoNode

\* The electionVote case of run(): a node votes in a term at most once because
\* its own term then becomes that term.  The answer is of use only to the
\* election that asked for it.
AnswerVote(n, q) ==
    LET yes == GrantsVote(n, q)
        t == IF yes THEN q.term ELSE term[n]
        awaited == q.live /\ electing[q.cand] /\ term[q.cand] = q.term
        answer == [cand |-> q.cand, from |-> n, term |-> q.term, result |-> yes, vterm |-> t]
    IN  /\ voteReq' = voteReq \ {q}
        /\ term' = [term EXCEPT ![n] = t]
        /\ leader' = IF yes THEN [leader EXCEPT ![n] = LeaderAfterVote(n)] ELSE leader
        /\ ballots' = IF yes THEN ballots \cup {<<n, q.term, q.cand>>} ELSE ballots
        /\ voteResp' = IF awaited THEN voteResp \cup {answer} ELSE voteResp

\* Vote() hands a request to run() through the electionVote channel.
HandleVote(n) ==
    /\ Looping(n)
    /\ \E q \in voteReq : q.to = n /\ AnswerVote(n, q)
    /\ UNCHANGED <<up, missed, rehashSkipped, ring, activeNodes, failCount, electing,
                   voters, healthCheck, elected, faults>>

\* Vote calls that survive the death of process n: those queued at it die with
\* it, those it sent may still be answered, to nobody.
WithoutProcess(n) ==
    {IF q.cand = n THEN [q EXCEPT !.live = FALSE] ELSE q : q \in {p \in voteReq : p.to # n}}

\* Mutated: no health check is stale.
AcceptsAnyTerm(n, h) == FALSE

\* "This is a health check from a stale leader. Ignore."
StaleHealth(n, h) == h.Term < term[n]

\* Mutated: rehashes with its own list instead of the leader's.
OwnActiveNodes(n, h) == activeNodes[n]

\* The list a follower rehashes with.
RehashNodes(n, h) == h.Nodes

\* A health check that is not stale.  A signature that differs is let pass
\* once; the next one makes the node rehash.  gcProxySessions looks up every
\* node the list leaves out in c.nodes, which does not hold the node itself: a
\* list without this node crashes it.
FollowLeader(n, h) ==
    LET differs == h.Signature # ring[n]
        rehash == differs /\ rehashSkipped[n]
        panics == rehash /\ n \notin RehashNodes(n, h)
    IN  /\ term' = [term EXCEPT ![n] = h.Term]
        /\ leader' = [leader EXCEPT ![n] = h.Leader]
        /\ missed' = [missed EXCEPT ![n] = 0]
        /\ rehashSkipped' = [rehashSkipped EXCEPT ![n] = IF differs THEN ~@ ELSE @]
        /\ ring' = IF rehash THEN [ring EXCEPT ![n] = RehashNodes(n, h)] ELSE ring
        /\ up' = [up EXCEPT ![n] = ~panics]
        /\ healthCheck' = [healthCheck EXCEPT ![n] = IF panics THEN <<>> ELSE Tail(@)]
        /\ voteReq' = IF panics THEN WithoutProcess(n) ELSE voteReq

\* The healthCheck case of run().
HandleHealth(n) ==
    /\ Looping(n)
    /\ healthCheck[n] # <<>>
    /\ LET h == Head(healthCheck[n]) IN
       \/ /\ StaleHealth(n, h)
          /\ healthCheck' = [healthCheck EXCEPT ![n] = Tail(@)]
          /\ UNCHANGED <<up, term, leader, missed, rehashSkipped, ring, voteReq>>
       \/ /\ ~StaleHealth(n, h)
          /\ FollowLeader(n, h)
    /\ UNCHANGED <<activeNodes, failCount, electing, voters, voteResp, ballots, elected,
                   faults>>

-----------------------------------------------------------------------------
\* The network loses a vote request or its answer (the call returns an error).
LoseVote ==
    /\ faults < MaxFaults
    /\ faults' = faults + 1
    /\ \/ \E q \in voteReq : voteReq' = voteReq \ {q} /\ UNCHANGED voteResp
       \/ \E r \in voteResp : voteResp' = voteResp \ {r} /\ UNCHANGED voteReq
    /\ UNCHANGED <<up, term, leader, missed, rehashSkipped, ring, activeNodes, failCount,
                   electing, voters, healthCheck, ballots, elected>>

\* The process dies.
Crash(n) ==
    /\ up[n]
    /\ faults < MaxFaults
    /\ faults' = faults + 1
    /\ up' = [up EXCEPT ![n] = FALSE]
    /\ EndElection(n)
    /\ healthCheck' = [healthCheck EXCEPT ![n] = <<>>]
    /\ voteReq' = WithoutProcess(n)
    /\ UNCHANGED <<term, leader, missed, rehashSkipped, ring, activeNodes, failCount,
                   ballots, elected>>

\* failoverInit on a restarted process: nothing of the failover state is kept
\* on disk, the term starts from zero again.
Restart(n) ==
    /\ ~up[n]
    /\ up' = [up EXCEPT ![n] = TRUE]
    /\ term' = [term EXCEPT ![n] = 0]
    /\ leader' = [leader EXCEPT ![n] = NoNode]
    /\ missed' = [missed EXCEPT ![n] = 0]
    /\ rehashSkipped' = [rehashSkipped EXCEPT ![n] = FALSE]
    /\ ring' = [ring EXCEPT ![n] = Nodes]
    /\ activeNodes' = [activeNodes EXCEPT ![n] = Nodes]
    /\ failCount' = [failCount EXCEPT ![n] = [m \in Nodes |-> 0]]
    /\ UNCHANGED <<electing, voters, healthCheck, voteReq, voteResp, ballots, elected,
                   faults>>

-----------------------------------------------------------------------------
Step(n) ==
    \/ SendHealthChecks(n)
    \/ MissHealthCheck(n)
    \/ ElectLeader(n)
    \/ TakeVote(n)
    \/ ElectionTimeout(n)
    \/ HandleVote(n)
    \/ HandleHealth(n)
    \/ Crash(n)

Next == LoseVote \/ \E n \in Nodes : Step(n)

Spec == Init /\ [][Next]_vars

\* The same cluster with processes that come back after a crash.
SpecRestart == Init /\ [][Next \/ \E n \in Nodes : Restart(n)]_vars

\* The run goroutine is always ready to take its next event, and the runtime's
\* select is fair: a live leader keeps ticking, a live node keeps taking health
\* checks, an election ends.
Fairness ==
    \A n \in Nodes :
        /\ WF_vars(SendHealthChecks(n))
        /\ WF_vars(HandleHealth(n))
        /\ WF_vars(ElectionTimeout(n) \/ TakeVote(n))

FairSpec == Spec /\ Fairness

-----------------------------------------------------------------------------
(* The failover state of every node and the calls between them have their
   types. *)
TypeOK ==
    /\ up \in [Nodes -> BOOLEAN]
    /\ term \in [Nodes -> Nat]
    /\ leader \in [Nodes -> Nodes \cup {NoNode}]
    /\ missed \in [Nodes -> Nat]
    /\ rehashSkipped \in [Nodes -> BOOLEAN]
    /\ ring \in [Nodes -> SUBSET Nodes]
    /\ activeNodes \in [Nodes -> SUBSET Nodes]
    /\ failCount \in [Nodes -> [Nodes -> Nat]]
    /\ electing \in [Nodes -> BOOLEAN]
    /\ voters \in [Nodes -> SUBSET Nodes]
    /\ healthCheck \in [Nodes -> Seq(HealthMsg)]
    /\ voteReq \in SUBSET VoteReqMsg
    /\ voteResp \in SUBSET VoteRespMsg
    /\ ballots \in SUBSET (Nodes \X Nat \X Nodes)
    /\ elected \in SUBSET (Nat \X Nodes)
    /\ faults \in Nat

(* A term has at most one leader, however the elections of several candidates,
   late votes and lost calls interleave: electLeader needs more than half of
   the nodes, and a node votes once in a term. *)
OneLeaderPerTerm ==
    \A e, f \in elected : e[1] = f[1] => e[2] = f[2]

(* The branch of run() marked "Wrong leader. It's a bug, should never happen!"
   is never taken: no node has a health check of its own term waiting from a
   node other than the leader it knows. *)
NeverWrongLeader ==
    \A n \in Nodes : \A i \in DOMAIN healthCheck[n] :
        LET h == healthCheck[n][i] IN
        h.Term = term[n] /\ leader[n] # NoNode => h.Leader = leader[n]

(* A live leader loses leadership only to a later term: by voting in one, or by
   a health check of one, never by a message of its own term. *)
DeposedByHigherTerm ==
    [][\A n \in Nodes : leader[n] = n /\ leader'[n] # n => term'[n] > term[n]]_vars

\* The live node l is the leader of every live node.
Leads(l) == up[l] /\ \A n \in Nodes : up[n] => leader[n] = l

(* Once a leader lasts, through whatever elections it came, no live node keeps
   a ring of an earlier one ("communicates the new list of nodes to followers.
   They in turn do their rehashing using the new list"): every ring becomes, and
   stays, the ring the leader signs its health checks with or the list it
   announces in them.  These are two sets only if the leader has rehashed as a
   follower of an earlier one, which leaves its own list as it was. *)
RingsConverge ==
    \A l \in Nodes :
        <>[]Leads(l) =>
            <>[](\A n \in Nodes : up[n] => ring[n] \in {ring[l], activeNodes[l]})
=============================================================================
