------------------------ MODULE ClusterLeaderProofs -------------------------
(***************************************************************************)
(* Proofs about ClusterLeader for any cluster of at least three nodes, any *)
(* thresholds and any number of elections and faults, as long as processes *)
(* that die stay dead (Spec, not SpecRestart).                             *)
(*                                                                         *)
(* The argument is Raft's.  A vote raises the voter's term to the term of  *)
(* the election, so a node casts one vote per term (BallotsBounded,        *)
(* OneBallotPerTerm).  A candidate does not move while it counts, so what  *)
(* it counts are votes of its own term (AnswersBacked, VotersBacked).  Two *)
(* majorities share a node (ElectedByMajority), hence one leader per term, *)
(* and every leader a node knows or hears of was elected (LeaderElected,   *)
(* HealthFromElected).                                                     *)
(***************************************************************************)
EXTENDS ClusterLeader, FiniteSetTheorems, SequenceTheorems, TLAPS

BallotsBounded == \A b \in ballots : b[2] <= term[b[1]]

OneBallotPerTerm == \A b, c \in ballots : b[1] = c[1] /\ b[2] = c[2] => b[3] = c[3]

AnswersBacked ==
    \A r \in voteResp :
        /\ electing[r.cand]
        /\ r.term = term[r.cand]
        /\ r.result => <<r.from, r.term, r.cand>> \in ballots

VotersBacked ==
    \A n \in Nodes : electing[n] =>
        \A v \in voters[n] : <<v, term[n], n>> \in ballots

\* Sets of nodes with enough votes to elect a leader.
Majorities == {q \in SUBSET Nodes : Cardinality(q) >= ExpectVotes}

ElectedByMajority ==
    \A e \in elected : \E q \in Majorities : \A v \in q : <<v, e[1], e[2]>> \in ballots

HealthFromElected ==
    \A n \in Nodes : \A i \in DOMAIN healthCheck[n] :
        <<healthCheck[n][i].Term, healthCheck[n][i].Leader>> \in elected

LeaderElected ==
    \A n \in Nodes : leader[n] # NoNode => <<term[n], leader[n]>> \in elected

(* The inductive invariant: OneLeaderPerTerm and NeverWrongLeader follow from
   it but are not preserved by Next on their own. *)
ElectionInv ==
    /\ TypeOK
    /\ BallotsBounded
    /\ OneBallotPerTerm
    /\ AnswersBacked
    /\ VotersBacked
    /\ ElectedByMajority
    /\ HealthFromElected
    /\ LeaderElected

-----------------------------------------------------------------------------
(* Two majorities of the nodes have a node in common: ExpectVotes is more than
   half of len(c.nodes) + 1. *)
LEMMA MajoritiesShareNode ==
    ASSUME NEW q \in Majorities, NEW r \in Majorities
    PROVE  q \cap r # {}
<1>1. IsFiniteSet(Nodes) /\ q \subseteq Nodes /\ r \subseteq Nodes
  BY NodesAssumption DEF Majorities
<1>2. Cardinality(Nodes) \in Nat
  BY <1>1, FS_CardinalityType
<1>3. /\ Cardinality(q) \in Nat /\ Cardinality(r) \in Nat
  BY <1>1, FS_Subset, FS_CardinalityType
<1>4. Cardinality(q) + Cardinality(r) > Cardinality(Nodes)
  BY <1>2, <1>3 DEF Majorities, ExpectVotes
<1> QED BY <1>1, <1>4, FS_MajoritiesIntersect

(* The number of live nodes whose health call fails is a number. *)
LEMMA SubsetCardinality ==
    ASSUME NEW S \in SUBSET Nodes
    PROVE  Cardinality(S) \in Nat
BY NodesAssumption, FS_Subset, FS_CardinalityType

(* The vote requests that outlive a process are vote requests. *)
LEMMA WithoutProcessType ==
    ASSUME NEW n \in Nodes, voteReq \in SUBSET VoteReqMsg
    PROVE  WithoutProcess(n) \in SUBSET VoteReqMsg
<1>1. \A q \in VoteReqMsg : [q EXCEPT !.live = FALSE] \in VoteReqMsg
  BY Zenon DEF VoteReqMsg
<1> QED BY <1>1 DEF WithoutProcess

(* Two leaders of a term would share a voter, who would have voted twice. *)
LEMMA ElectedUnique ==
    ASSUME ElectionInv
    PROVE  OneLeaderPerTerm
<1> SUFFICES ASSUME NEW e \in elected, NEW f \in elected, e[1] = f[1]
             PROVE  e[2] = f[2]
  BY DEF OneLeaderPerTerm
<1>1. PICK q \in Majorities : \A v \in q : <<v, e[1], e[2]>> \in ballots
  BY DEF ElectionInv, ElectedByMajority
<1>2. PICK r \in Majorities : \A v \in r : <<v, f[1], f[2]>> \in ballots
  BY DEF ElectionInv, ElectedByMajority
<1>3. PICK v : v \in q \cap r
  BY MajoritiesShareNode
<1>4. <<v, e[1], e[2]>> \in ballots /\ <<v, f[1], f[2]>> \in ballots
  BY <1>1, <1>2, <1>3
<1> QED BY <1>4 DEF ElectionInv, OneBallotPerTerm

(* No health check of a node's term comes from a leader it does not know. *)
LEMMA WrongLeaderImpossible ==
    ASSUME ElectionInv
    PROVE  NeverWrongLeader
<1> SUFFICES ASSUME NEW n \in Nodes, NEW i \in DOMAIN healthCheck[n],
                    healthCheck[n][i].Term = term[n], leader[n] # NoNode
             PROVE  healthCheck[n][i].Leader = leader[n]
  BY DEF NeverWrongLeader
<1>1. <<term[n], healthCheck[n][i].Leader>> \in elected
  BY DEF ElectionInv, HealthFromElected
<1>2. <<term[n], leader[n]>> \in elected
  BY DEF ElectionInv, LeaderElected
<1> QED BY <1>1, <1>2, ElectedUnique DEF OneLeaderPerTerm

(* What the healthCheck case of run does to terms, leaders and its channel. *)
LEMMA HealthHandled ==
    ASSUME NEW n \in Nodes, HandleHealth(n)
    PROVE  LET h == Head(healthCheck[n]) IN
           /\ healthCheck[n] # <<>>
           /\ \/ UNCHANGED <<term, leader>>
              \/ /\ ~(h.Term < term[n])
                 /\ term' = [term EXCEPT ![n] = h.Term]
                 /\ leader' = [leader EXCEPT ![n] = h.Leader]
           /\ \/ healthCheck' = [healthCheck EXCEPT ![n] = <<>>]
              \/ healthCheck' = [healthCheck EXCEPT ![n] = Tail(healthCheck[n])]
<1> DEFINE h == Head(healthCheck[n])
<1>1. ASSUME NEW g, FollowLeader(n, g)
      PROVE  /\ term' = [term EXCEPT ![n] = g.Term]
             /\ leader' = [leader EXCEPT ![n] = g.Leader]
             /\ \/ healthCheck' = [healthCheck EXCEPT ![n] = <<>>]
                \/ healthCheck' = [healthCheck EXCEPT ![n] = Tail(healthCheck[n])]
  BY ONLY <1>1, Zenon DEF FollowLeader
<1>2. /\ healthCheck[n] # <<>>
      /\ \/ /\ healthCheck' = [healthCheck EXCEPT ![n] = Tail(healthCheck[n])]
            /\ UNCHANGED <<term, leader>>
         \/ ~StaleHealth(n, h) /\ FollowLeader(n, h)
  BY DEF HandleHealth
<1>3. ~StaleHealth(n, h) => ~(h.Term < term[n])
  BY ONLY DEF StaleHealth
<1> HIDE DEF h
<1>4. /\ healthCheck[n] # <<>>
      /\ \/ UNCHANGED <<term, leader>>
         \/ /\ ~(h.Term < term[n])
            /\ term' = [term EXCEPT ![n] = h.Term]
            /\ leader' = [leader EXCEPT ![n] = h.Leader]
      /\ \/ healthCheck' = [healthCheck EXCEPT ![n] = <<>>]
         \/ healthCheck' = [healthCheck EXCEPT ![n] = Tail(healthCheck[n])]
  BY ONLY <1>1, <1>2, <1>3
<1> QED BY ONLY <1>4 DEF h

-----------------------------------------------------------------------------
(* All nodes start in term zero with no leader and nothing in flight. *)
LEMMA InitInv == Init => ElectionInv
BY DEF Init, ElectionInv, TypeOK, BallotsBounded, OneBallotPerTerm, AnswersBacked,
       VotersBacked, ElectedByMajority, HealthFromElected, LeaderElected, HealthMsg

-----------------------------------------------------------------------------
(* Type correctness, one action at a time. *)
LEMMA TypeStep == TypeOK /\ [Next]_vars => TypeOK'
<1> SUFFICES ASSUME TypeOK, [Next]_vars PROVE TypeOK'
  OBVIOUS
<1> USE DEF TypeOK
<1>1. ASSUME NEW n \in Nodes, SendHealthChecks(n) PROVE TypeOK'
  <2>1. PICK got \in SUBSET Others(n), failed \in SUBSET Others(n) :
          HealthRound(n, got, failed)
    BY <1>1, Zenon DEF SendHealthChecks
  <2>2. faults' \in Nat
    <3>1. failed \cap {m \in Others(n) : up[m]} \in SUBSET Nodes
      BY DEF Others
    <3>2. Cardinality(failed \cap {m \in Others(n) : up[m]}) \in Nat
      BY <3>1, SubsetCardinality
    <3>3. faults' = faults + Cardinality(failed \cap {m \in Others(n) : up[m]})
      BY <2>1 DEF HealthRound
    <3> QED BY <3>2, <3>3
  <2>3. healthCheck' \in [Nodes -> Seq(HealthMsg)]
    <3> DEFINE msg == [Leader |-> n, Term |-> term[n], Signature |-> ring[n],
                       Nodes |-> activeNodes[n]]
    <3>1. msg \in HealthMsg
      BY <1>1 DEF HealthMsg
    <3>2. \A m \in Nodes : Health(healthCheck[m], msg) \in Seq(HealthMsg)
      BY <3>1 DEF Health
    <3>3. healthCheck' = [m \in Nodes |->
              IF m \in got THEN Health(healthCheck[m], msg) ELSE healthCheck[m]]
      BY <2>1 DEF HealthRound
    <3> QED BY <3>2, <3>3
  <2>4. failCount' \in [Nodes -> [Nodes -> Nat]]
    <3>1. NextFailCount(n, failed) \in [Nodes -> Nat]
      BY <1>1 DEF NextFailCount
    <3> QED BY <2>1, <3>1, Zenon DEF HealthRound
  <2>5. activeNodes' \in [Nodes -> SUBSET Nodes] /\ ring' \in [Nodes -> SUBSET Nodes]
    BY <1>1, <2>1 DEF Others, HealthRound
  <2> QED BY <1>1, <2>2, <2>3, <2>4, <2>5, Zenon DEF SendHealthChecks
<1>2. ASSUME NEW n \in Nodes, MissHealthCheck(n) PROVE TypeOK'
  BY <1>2 DEF MissHealthCheck
<1>3. ASSUME NEW n \in Nodes, ElectLeader(n) PROVE TypeOK'
  <2>1. \A m \in Nodes :
          [cand |-> n, to |-> m, term |-> term[n] + 1, live |-> TRUE] \in VoteReqMsg
    BY DEF VoteReqMsg
  <2>2. voteReq' \in SUBSET VoteReqMsg
    BY <1>3, <2>1 DEF ElectLeader, Others
  <2> QED BY <1>3, <2>2 DEF ElectLeader
<1>4. ASSUME NEW n \in Nodes, TakeVote(n) PROVE TypeOK'
  <2>1. PICK r \in voteResp : r.cand = n /\ CountVote(n, r)
    BY <1>4 DEF TakeVote
  <2>2. r.from \in Nodes
    BY DEF VoteRespMsg
  <2>3. voters' \in [Nodes -> SUBSET Nodes]
    <3>1. \/ voters' = [voters EXCEPT ![n] = voters[n] \cup {r.from}]
          \/ voters' = [voters EXCEPT ![n] = {}]
          \/ voters' = voters
      BY <2>1 DEF CountVote, EndElection
    <3>2. voters \in [Nodes -> SUBSET Nodes]
      OBVIOUS
    <3>3. voters[n] \cup {r.from} \in SUBSET Nodes
      BY ONLY <2>2, <3>2, n \in Nodes
    <3>4. \A vs \in SUBSET Nodes : [voters EXCEPT ![n] = vs] \in [Nodes -> SUBSET Nodes]
      BY ONLY <3>2
    <3>5. {} \in SUBSET Nodes
      OBVIOUS
    <3> QED BY ONLY <3>1, <3>2, <3>3, <3>4, <3>5
  <2>6. electing' \in [Nodes -> BOOLEAN]
    <3>1. electing' = [electing EXCEPT ![n] = FALSE] \/ electing' = electing
      BY <2>1, Zenon DEF CountVote, EndElection
    <3> QED BY <3>1, Zenon
  <2>4. voteResp' \in SUBSET VoteRespMsg
    <3>1. voteResp' \subseteq voteResp
      BY <2>1 DEF CountVote, EndElection
    <3> QED BY <3>1
  <2>5. leader' \in [Nodes -> Nodes \cup {NoNode}] /\ elected' \in SUBSET (Nat \X Nodes)
    <3>1. /\ leader' = [leader EXCEPT ![n] = n] \/ leader' = leader
          /\ elected' = elected \cup {<<term[n], n>>} \/ elected' = elected
      BY <2>1 DEF CountVote
    <3>2. <<term[n], n>> \in Nat \X Nodes
      OBVIOUS
    <3>3. elected' \in SUBSET (Nat \X Nodes)
      BY <3>1, <3>2
    <3>4. leader' \in [Nodes -> Nodes \cup {NoNode}]
      <4>1. n \in Nodes \cup {NoNode}
        OBVIOUS
      <4>2. [leader EXCEPT ![n] = n] \in [Nodes -> Nodes \cup {NoNode}]
        BY <4>1
      <4> QED BY <3>1, <4>2, Zenon
    <3> QED BY <3>3, <3>4
  <2> QED BY <1>4, <2>3, <2>4, <2>5, <2>6, Zenon DEF TakeVote
<1>5. ASSUME NEW n \in Nodes, ElectionTimeout(n) PROVE TypeOK'
  BY <1>5 DEF ElectionTimeout, EndElection
<1>6. ASSUME NEW n \in Nodes, HandleVote(n) PROVE TypeOK'
  <2>1. PICK q \in voteReq : q.to = n /\ AnswerVote(n, q)
    BY <1>6 DEF HandleVote
  <2>2. q.cand \in Nodes /\ q.term \in Nat
    BY Zenon DEF VoteReqMsg
  <2>3. GrantsVote(n, q) \in BOOLEAN
    BY <2>2 DEF GrantsVote
  <2>4. voteResp' \in SUBSET VoteRespMsg
    BY <2>1, <2>2, <2>3 DEF VoteRespMsg, AnswerVote
  <2>5. term' \in [Nodes -> Nat] /\ leader' \in [Nodes -> Nodes \cup {NoNode}]
    BY <2>1, <2>2, Zenon DEF AnswerVote, LeaderAfterVote
  <2>6. ballots' \in SUBSET (Nodes \X Nat \X Nodes)
    BY <2>1, <2>2 DEF AnswerVote
  <2>7. voteReq' \in SUBSET VoteReqMsg
    BY <2>1 DEF AnswerVote
  <2> QED BY <1>6, <2>4, <2>5, <2>6, <2>7, Zenon DEF HandleVote
<1>7. ASSUME NEW n \in Nodes, HandleHealth(n) PROVE TypeOK'
  <2> DEFINE h == Head(healthCheck[n])
  <2>1. h \in HealthMsg /\ Tail(healthCheck[n]) \in Seq(HealthMsg)
    BY <1>7 DEF HandleHealth
  <2>2. h.Term \in Nat /\ h.Leader \in Nodes /\ h.Nodes \in SUBSET Nodes
    BY <2>1, Zenon DEF HealthMsg
  <2>3. WithoutProcess(n) \in SUBSET VoteReqMsg
    BY WithoutProcessType, Zenon
  <2>4. CASE StaleHealth(n, h)
    BY <1>7, <2>1, <2>4, ZenonT(30) DEF HandleHealth
  <2>5. CASE ~StaleHealth(n, h)
    <3>1. FollowLeader(n, h)
      BY <1>7, <2>5 DEF HandleHealth
    <3>2. up' \in [Nodes -> BOOLEAN] /\ rehashSkipped' \in [Nodes -> BOOLEAN]
      BY <3>1, Zenon DEF FollowLeader
    <3>3. healthCheck' \in [Nodes -> Seq(HealthMsg)]
      BY <2>1, <3>1 DEF FollowLeader
    <3> QED BY <1>7, <2>2, <2>3, <3>1, <3>2, <3>3, ZenonT(30)
        DEF HandleHealth, FollowLeader, RehashNodes
  <2> QED BY <2>4, <2>5, Zenon
<1>8. ASSUME NEW n \in Nodes, Crash(n) PROVE TypeOK'
  <2>1. WithoutProcess(n) \in SUBSET VoteReqMsg
    BY WithoutProcessType, Zenon
  <2> QED BY <1>8, <2>1 DEF Crash, EndElection
<1>9. CASE LoseVote
  <2>1. voteReq' \subseteq voteReq /\ voteResp' \subseteq voteResp /\ faults' \in Nat
    BY <1>9 DEF LoseVote
  <2>2. voteReq' \in SUBSET VoteReqMsg /\ voteResp' \in SUBSET VoteRespMsg
    BY <2>1
  <2> QED BY <1>9, <2>1, <2>2, Zenon DEF LoseVote
<1>10. CASE UNCHANGED vars
  BY <1>10, Zenon DEF vars
<1> QED
  BY <1>1, <1>2, <1>3, <1>4, <1>5, <1>6, <1>7, <1>8, <1>9, <1>10, Zenon DEF Next, Step

-----------------------------------------------------------------------------
(* The inductive step for the actions that leave terms, votes and leaders
   alone: heartbeats, missed heartbeats and lost votes. *)
LEMMA QuietStep ==
    ASSUME ElectionInv, TypeOK',
           UNCHANGED <<term, leader, electing, voters, ballots, elected>>,
           voteResp' \subseteq voteResp, HealthFromElected'
    PROVE  ElectionInv'
<1> USE DEF ElectionInv
<1>1. BallotsBounded' /\ OneBallotPerTerm'
  BY DEF BallotsBounded, OneBallotPerTerm
<1>2. AnswersBacked'
  BY DEF AnswersBacked
<1>3. VotersBacked'
  BY DEF VotersBacked
<1>4. ElectedByMajority' /\ LeaderElected'
  BY DEF ElectedByMajority, Majorities, LeaderElected
<1> QED BY <1>1, <1>2, <1>3, <1>4

(* sendHealthChecks: only a node that was elected sends health checks. *)
LEMMA SendHealthChecksInv ==
    ASSUME ElectionInv, TypeOK', NEW n \in Nodes, SendHealthChecks(n)
    PROVE  ElectionInv'
<1>1. PICK got \in SUBSET Others(n), failed \in SUBSET Others(n) :
        HealthRound(n, got, failed)
  BY DEF SendHealthChecks
<1>2. <<term[n], n>> \in elected
  BY NoNodeAssumption DEF SendHealthChecks, ElectionInv, LeaderElected
<1>3. HealthFromElected'
  <2> DEFINE msg == [Leader |-> n, Term |-> term[n], Signature |-> ring[n],
                     Nodes |-> activeNodes[n]]
  <2> SUFFICES ASSUME NEW m \in Nodes, NEW i \in DOMAIN healthCheck'[m]
               PROVE  <<healthCheck'[m][i].Term, healthCheck'[m][i].Leader>> \in elected
    BY DEF HealthFromElected, SendHealthChecks
  <2>1. healthCheck'[m] = healthCheck[m] \/ healthCheck'[m] = Append(healthCheck[m], msg)
    BY <1>1 DEF HealthRound, Health
  <2>2. healthCheck[m] \in Seq(HealthMsg)
    BY DEF ElectionInv, TypeOK
  <2>3. \/ i \in DOMAIN healthCheck[m] /\ healthCheck'[m][i] = healthCheck[m][i]
        \/ healthCheck'[m][i] = msg
    <3>1. msg \in HealthMsg
      BY ZenonT(30) DEF ElectionInv, TypeOK, HealthMsg
    <3> HIDE DEF msg
    <3>2. CASE healthCheck'[m] = healthCheck[m]
      BY ONLY <3>2, i \in DOMAIN healthCheck'[m]
    <3>3. CASE healthCheck'[m] = Append(healthCheck[m], msg)
      BY ONLY <2>2, <3>1, <3>3, i \in DOMAIN healthCheck'[m]
    <3> QED BY ONLY <2>1, <3>2, <3>3
  <2> QED BY <1>2, <2>3 DEF ElectionInv, HealthFromElected
<1> QED BY <1>3, QuietStep DEF SendHealthChecks

(* electLeader starts: the candidate's vote for itself is its first in a term
   it has not been in. *)
LEMMA ElectLeaderInv ==
    ASSUME ElectionInv, TypeOK', NEW n \in Nodes, ElectLeader(n)
    PROVE  ElectionInv'
<1> DEFINE b == <<n, term[n] + 1, n>>
<1> USE DEF ElectionInv
<1>1. /\ term' = [term EXCEPT ![n] = term[n] + 1]
      /\ leader' = [leader EXCEPT ![n] = NoNode]
      /\ electing' = [electing EXCEPT ![n] = TRUE]
      /\ voters' = [voters EXCEPT ![n] = {n}]
      /\ ballots' = ballots \cup {b}
      /\ UNCHANGED <<healthCheck, voteResp, elected>>
      /\ ~electing[n]
  BY DEF ElectLeader, Looping
<1>2. \A m \in Nodes : term[m] \in Nat
  BY DEF TypeOK
<1>3. \A c \in ballots : c[1] \in Nodes /\ c[2] \in Nat /\ c[2] <= term[c[1]]
  BY DEF TypeOK, BallotsBounded
<1>4. /\ term'[n] = term[n] + 1
      /\ \A m \in Nodes : m # n => term'[m] = term[m]
  BY <1>1 DEF TypeOK
<1>5. BallotsBounded'
  <2> SUFFICES ASSUME NEW c \in ballots'
               PROVE  c[2] <= term'[c[1]]
    BY DEF BallotsBounded
  <2>1. CASE c \in ballots
    BY <1>2, <1>3, <1>4, <2>1
  <2>2. CASE c = b
    BY <1>2, <1>4, <2>2
  <2> QED BY <1>1, <2>1, <2>2
<1>6. OneBallotPerTerm'
  <2>1. \A c \in ballots : ~(c[1] = b[1] /\ c[2] = b[2])
    BY <1>2, <1>3
  <2> QED BY <1>1, <2>1 DEF OneBallotPerTerm
<1>7. AnswersBacked'
  <2> SUFFICES ASSUME NEW r \in voteResp
               PROVE  /\ electing'[r.cand]
                      /\ r.term = term'[r.cand]
                      /\ r.result => <<r.from, r.term, r.cand>> \in ballots'
    BY <1>1 DEF AnswersBacked
  <2>1. r.cand \in Nodes
    BY DEF TypeOK, VoteRespMsg
  <2>2. /\ electing[r.cand] /\ r.term = term[r.cand]
        /\ r.result => <<r.from, r.term, r.cand>> \in ballots
    BY DEF AnswersBacked
  <2>3. r.cand # n
    BY ONLY <1>1, <2>2, SMTT(30)
  <2>4. electing'[r.cand] = electing[r.cand]
    BY <1>1, <2>1, <2>3 DEF TypeOK
  <2>5. term'[r.cand] = term[r.cand]
    BY ONLY <1>4, <2>1, <2>3
  <2> HIDE DEF b
  <2> QED BY ONLY <1>1, <2>2, <2>4, <2>5
<1>8. VotersBacked'
  <2> SUFFICES ASSUME NEW m \in Nodes, electing'[m], NEW v \in voters'[m]
               PROVE  <<v, term'[m], m>> \in ballots'
    BY SMTT(30) DEF VotersBacked
  <2>1. CASE m = n
    BY <1>1, <2>1, SMTT(30) DEF TypeOK
  <2>2. CASE m # n
    BY <1>1, <1>4, <2>2 DEF TypeOK, VotersBacked
  <2> QED BY <2>1, <2>2
<1>9. ElectedByMajority'
  BY <1>1 DEF ElectedByMajority, Majorities
<1>10. HealthFromElected'
  BY <1>1, SMTT(30) DEF HealthFromElected
<1>11. LeaderElected'
  BY <1>1, <1>4 DEF LeaderElected, TypeOK
<1> QED BY <1>5, <1>6, <1>7, <1>8, <1>9, <1>10, <1>11

(* The wait for votes ends without a leader: a timeout, or a crash. *)
LEMMA EndElectionInv ==
    ASSUME ElectionInv, TypeOK', NEW n \in Nodes, EndElection(n), HealthFromElected',
           UNCHANGED <<term, leader, ballots, elected>>
    PROVE  ElectionInv'
<1> USE DEF ElectionInv
<1>1. BallotsBounded' /\ OneBallotPerTerm'
  BY DEF BallotsBounded, OneBallotPerTerm
<1>2. AnswersBacked'
  <2> SUFFICES ASSUME NEW r \in voteResp'
               PROVE  /\ electing'[r.cand]
                      /\ r.term = term[r.cand]
                      /\ r.result => <<r.from, r.term, r.cand>> \in ballots
    BY DEF AnswersBacked
  <2>1. r \in voteResp /\ r.cand # n
    BY DEF EndElection
  <2>2. r.cand \in Nodes
    BY <2>1 DEF TypeOK, VoteRespMsg
  <2> QED BY <2>1, <2>2, ZenonT(30) DEF AnswersBacked, EndElection, TypeOK
<1>3. VotersBacked'
  BY DEF VotersBacked, EndElection, TypeOK
<1>4. ElectedByMajority' /\ LeaderElected'
  BY DEF ElectedByMajority, Majorities, LeaderElected
<1> QED BY <1>1, <1>2, <1>3, <1>4

(* electLeader counts an answer: with a majority of votes of its term the
   candidate becomes the leader that this majority elected. *)
LEMMA TakeVoteInv ==
    ASSUME ElectionInv, TypeOK', NEW n \in Nodes, TakeVote(n)
    PROVE  ElectionInv'
<1> USE DEF ElectionInv
<1>1. PICK r \in voteResp : r.cand = n /\ CountVote(n, r)
  BY DEF TakeVote
<1> DEFINE got == voters[n] \cup {r.from}
<1>2. UNCHANGED <<term, healthCheck, ballots>> /\ electing[n]
  BY DEF TakeVote
<1>3. BallotsBounded' /\ OneBallotPerTerm'
  BY <1>2 DEF BallotsBounded, OneBallotPerTerm
<1>4. r.result => \A v \in got : <<v, term[n], n>> \in ballots
  BY <1>1, <1>2, Zenon DEF AnswersBacked, VotersBacked
<1>5. r.from \in Nodes /\ got \subseteq Nodes
  BY ZenonT(30) DEF TypeOK, VoteRespMsg
<1>6. CASE /\ r.result
           /\ voters' = [voters EXCEPT ![n] = got]
           /\ voteResp' = voteResp \ {r}
           /\ UNCHANGED <<leader, electing, elected>>
  <2>1. VotersBacked'
    <3> SUFFICES ASSUME NEW m \in Nodes, electing[m], NEW v \in voters'[m]
                 PROVE  <<v, term[m], m>> \in ballots
      BY <1>2, <1>6 DEF VotersBacked
    <3>1. voters'[m] = IF m = n THEN got ELSE voters[m]
      BY <1>6 DEF TypeOK
    <3>2. CASE m = n
      BY <1>4, <1>6, <3>1, <3>2, SMTT(30)
    <3>3. CASE m # n
      BY <3>1, <3>3 DEF VotersBacked
    <3> QED BY <3>2, <3>3
  <2>2. AnswersBacked'
    BY <1>2, <1>6 DEF AnswersBacked
  <2>3. ElectedByMajority' /\ HealthFromElected' /\ LeaderElected'
    BY <1>2, <1>6 DEF ElectedByMajority, Majorities, HealthFromElected, LeaderElected
  <2> QED BY <1>3, <2>1, <2>2, <2>3
<1>7. CASE /\ r.result
           /\ Cardinality(got) >= ExpectVotes
           /\ EndElection(n)
           /\ leader' = [leader EXCEPT ![n] = n]
           /\ elected' = elected \cup {<<term[n], n>>}
  <2>1. got \in Majorities
    BY <1>5, <1>7 DEF Majorities
  <2>2. ElectedByMajority'
    BY <1>2, <1>4, <1>7, <2>1, SMTT(30) DEF ElectedByMajority, Majorities
  <2>3. HealthFromElected' /\ LeaderElected'
    BY <1>2, <1>7, ZenonT(30) DEF HealthFromElected, LeaderElected, TypeOK
  <2>4. VotersBacked'
    BY <1>2, <1>7 DEF VotersBacked, EndElection, TypeOK
  <2>5. AnswersBacked'
    <3> SUFFICES ASSUME NEW s \in voteResp'
                 PROVE  /\ electing'[s.cand]
                        /\ s.term = term[s.cand]
                        /\ s.result => <<s.from, s.term, s.cand>> \in ballots
      BY <1>2 DEF AnswersBacked
    <3>1. s \in voteResp /\ s.cand # n
      BY <1>7 DEF EndElection
    <3>2. s.cand \in Nodes
      BY <3>1 DEF TypeOK, VoteRespMsg
    <3> QED BY <1>7, <3>1, <3>2, ZenonT(30) DEF AnswersBacked, EndElection, TypeOK
  <2> QED BY <1>3, <2>2, <2>3, <2>4, <2>5
<1>8. CASE EndElection(n) /\ UNCHANGED <<leader, elected>>
  <2>1. HealthFromElected'
    BY <1>2, <1>8 DEF HealthFromElected
  <2> QED BY <1>2, <1>8, <2>1, EndElectionInv, SMTT(30)
<1>9. CASE voteResp' = voteResp \ {r} /\ UNCHANGED <<leader, electing, voters, elected>>
  <2>1. HealthFromElected'
    BY <1>2, <1>9 DEF HealthFromElected
  <2> QED BY <1>2, <1>9, <2>1, QuietStep
<1> QED BY <1>1, <1>6, <1>7, <1>8, <1>9 DEF CountVote

(* run() answers a vote request: a vote is cast only for a term above the
   voter's, so it is the voter's first in that term. *)
LEMMA HandleVoteInv ==
    ASSUME ElectionInv, TypeOK', NEW n \in Nodes, HandleVote(n)
    PROVE  ElectionInv'
<1> USE DEF ElectionInv
<1>1. PICK q \in voteReq : q.to = n /\ AnswerVote(n, q)
  BY DEF HandleVote
<1> DEFINE b == <<n, q.term, q.cand>>
           yes == GrantsVote(n, q)
           answer == [cand |-> q.cand, from |-> n, term |-> q.term, result |-> yes,
                      vterm |-> IF yes THEN q.term ELSE term[n]]
<1>2. UNCHANGED <<electing, voters, healthCheck, elected>> /\ ~electing[n]
  BY DEF HandleVote, Looping
<1>3. q.term \in Nat /\ q.cand \in Nodes /\ \A m \in Nodes : term[m] \in Nat
  BY Zenon DEF TypeOK, VoteReqMsg
<1>4. /\ \A m \in Nodes : m # n => term'[m] = term[m] /\ leader'[m] = leader[m]
      /\ yes => term'[n] = q.term /\ term[n] < q.term /\ leader'[n] = NoNode
      /\ ~yes => term'[n] = term[n] /\ leader'[n] = leader[n]
  BY <1>1, ZenonT(30) DEF AnswerVote, GrantsVote, LeaderAfterVote, TypeOK
<1>5. ballots' = IF yes THEN ballots \cup {b} ELSE ballots
  BY <1>1, ZenonT(30) DEF AnswerVote
<1>6. \A c \in ballots : c[1] \in Nodes /\ c[2] \in Nat /\ c[2] <= term[c[1]]
  BY DEF TypeOK, BallotsBounded
<1>7. BallotsBounded'
  <2> SUFFICES ASSUME NEW c \in ballots'
               PROVE  c[2] <= term'[c[1]]
    BY DEF BallotsBounded
  <2>1. CASE c \in ballots
    BY <1>3, <1>4, <1>6, <2>1
  <2>2. CASE yes /\ c = b
    BY <1>3, <1>4, <2>2
  <2> QED BY <1>5, <2>1, <2>2
<1>8. OneBallotPerTerm'
  <2>1. ASSUME yes, NEW c \in ballots
        PROVE  ~(c[1] = b[1] /\ c[2] = b[2])
    <3>1. c[1] = n => c[2] <= term[n]
      BY ONLY <1>6, <2>1
    <3>2. term[n] \in Nat /\ c[2] \in Nat /\ q.term \in Nat /\ term[n] < q.term
      BY <1>3, <1>4, <1>6, <2>1
    <3>3. c[1] = n => c[2] # q.term
      BY ONLY <3>1, <3>2
    <3>4. b[1] = n /\ b[2] = q.term
      BY SMTT(30)
    <3> HIDE DEF b
    <3> QED BY ONLY <3>3, <3>4
  <2> QED BY <1>5, <2>1 DEF OneBallotPerTerm
<1>9. AnswersBacked'
  <2> SUFFICES ASSUME NEW r \in voteResp'
               PROVE  /\ electing[r.cand]
                      /\ r.term = term'[r.cand]
                      /\ r.result => <<r.from, r.term, r.cand>> \in ballots'
    BY <1>2 DEF AnswersBacked
  <2>1. CASE r \in voteResp
    <3>1. r.cand \in Nodes
      BY <2>1 DEF TypeOK, VoteRespMsg
    <3>2. r.cand # n
      BY <1>2, <2>1, ZenonT(30) DEF AnswersBacked
    <3> QED BY <1>4, <1>5, <2>1, <3>1, <3>2 DEF AnswersBacked
  <2>2. CASE r = answer /\ electing[q.cand] /\ term[q.cand] = q.term
    <3>1. q.cand # n
      BY <1>2, <2>2
    <3> QED BY <1>3, <1>4, <1>5, <2>2, <3>1
  <2> QED BY <1>1, <2>1, <2>2, SMTT(30) DEF AnswerVote
<1>10. VotersBacked'
  BY <1>2, <1>4, <1>5 DEF VotersBacked
<1>11. ElectedByMajority'
  BY <1>2, <1>5 DEF ElectedByMajority, Majorities
<1>12. HealthFromElected'
  BY <1>2 DEF HealthFromElected
<1>13. LeaderElected'
  BY <1>2, <1>4 DEF LeaderElected
<1> QED BY <1>7, <1>8, <1>9, <1>10, <1>11, <1>12, <1>13

(* run() takes a health check: what it believes afterwards is what an elected
   leader said, and its term does not go down. *)
LEMMA HandleHealthInv ==
    ASSUME ElectionInv, TypeOK', NEW n \in Nodes, HandleHealth(n)
    PROVE  ElectionInv'
<1> USE DEF ElectionInv
<1> DEFINE h == Head(healthCheck[n])
<1>1. /\ UNCHANGED <<electing, voters, voteResp, ballots, elected>>
      /\ ~electing[n] /\ healthCheck[n] # <<>>
      /\ healthCheck[n] \in Seq(HealthMsg)
  BY DEF HandleHealth, Looping, TypeOK
<1>2. /\ h = healthCheck[n][1] /\ 1 \in DOMAIN healthCheck[n]
      /\ h \in HealthMsg
  BY <1>1, SMTT(30)
<1>3. <<h.Term, h.Leader>> \in elected
  BY <1>2, SMTT(30) DEF HealthFromElected
<1>4. /\ \A m \in Nodes : m # n => healthCheck'[m] = healthCheck[m]
      /\ healthCheck'[n] = <<>> \/ healthCheck'[n] = Tail(healthCheck[n])
  <2>1. healthCheck \in [Nodes -> Seq(HealthMsg)]
    BY DEF TypeOK
  <2>2. \/ healthCheck' = [healthCheck EXCEPT ![n] = <<>>]
        \/ healthCheck' = [healthCheck EXCEPT ![n] = Tail(healthCheck[n])]
    BY ONLY HealthHandled, n \in Nodes, HandleHealth(n)
  <2> QED BY ONLY <2>1, <2>2, n \in Nodes
<1>5. HealthFromElected'
  <2> SUFFICES ASSUME NEW m \in Nodes, NEW i \in DOMAIN healthCheck'[m]
               PROVE  <<healthCheck'[m][i].Term, healthCheck'[m][i].Leader>> \in elected
    BY <1>1 DEF HealthFromElected
  <2>1. CASE m # n
    BY <1>4, <2>1 DEF HealthFromElected
  <2>2. CASE m = n
    <3>1. healthCheck'[n] = Tail(healthCheck[n])
      BY <1>4, <2>2
    <3>2. /\ i + 1 \in DOMAIN healthCheck[n]
          /\ healthCheck'[n][i] = healthCheck[n][i + 1]
      BY <1>1, <2>2, <3>1
    <3> QED BY <2>2, <3>2 DEF HealthFromElected
  <2> QED BY <2>1, <2>2
<1>6. CASE UNCHANGED <<term, leader>>
  BY <1>1, <1>5, <1>6, QuietStep
<1>7. CASE ~StaleHealth(n, h) /\ FollowLeader(n, h)
  <2>1. h.Term \in Nat /\ term[n] \in Nat
    BY <1>2 DEF TypeOK, HealthMsg
  <2>2. /\ \A m \in Nodes : m # n => term'[m] = term[m] /\ leader'[m] = leader[m]
        /\ term'[n] = h.Term /\ leader'[n] = h.Leader /\ term[n] <= term'[n]
    <3>1. /\ term' = [term EXCEPT ![n] = h.Term]
          /\ leader' = [leader EXCEPT ![n] = h.Leader]
      BY <1>7 DEF FollowLeader
    <3>2. term[n] <= h.Term
      BY <1>7, <2>1 DEF StaleHealth
    <3>3. term \in [Nodes -> Nat] /\ leader \in [Nodes -> Nodes \cup {NoNode}]
      BY DEF TypeOK
    <3> HIDE DEF h
    <3> QED BY ONLY <3>1, <3>2, <3>3, n \in Nodes, SMTT(30)
  <2>3. BallotsBounded'
    <3> SUFFICES ASSUME NEW c \in ballots
                 PROVE  c[2] <= term'[c[1]]
      BY <1>1 DEF BallotsBounded
    <3>1. c[1] \in Nodes /\ c[2] \in Nat /\ c[2] <= term[c[1]]
      BY DEF TypeOK, BallotsBounded
    <3>2. CASE c[1] = n
      <4>1. c[2] <= term[n] /\ term[n] <= term'[n] /\ term'[n] \in Nat
        BY <2>1, <2>2, <3>1, <3>2
      <4> QED BY ONLY <2>1, <3>1, <3>2, <4>1
    <3>3. CASE c[1] # n
      BY ONLY <2>2, <3>1, <3>3
    <3> QED BY ONLY <3>2, <3>3
  <2>4. OneBallotPerTerm' /\ ElectedByMajority'
    BY <1>1, SMTT(30) DEF OneBallotPerTerm, ElectedByMajority, Majorities
  <2>5. AnswersBacked'
    <3> SUFFICES ASSUME NEW r \in voteResp
                 PROVE  /\ electing[r.cand]
                        /\ r.term = term'[r.cand]
                        /\ r.result => <<r.from, r.term, r.cand>> \in ballots
      BY <1>1, ZenonT(30) DEF AnswersBacked
    <3>1. r.cand \in Nodes /\ r.cand # n
      BY <1>1, ZenonT(30) DEF TypeOK, VoteRespMsg, AnswersBacked
    <3> QED BY <2>2, <3>1, SMTT(30) DEF AnswersBacked
  <2>6. VotersBacked'
    BY <1>1, <2>2, Zenon DEF VotersBacked
  <2>7. LeaderElected'
    BY <1>1, <1>3, <2>2, SMTT(30) DEF LeaderElected
  <2> QED BY <1>5, <2>3, <2>4, <2>5, <2>6, <2>7, SMTT(30)
<1> QED BY <1>6, <1>7, SMTT(30) DEF HandleHealth

(* A process dies: an election it was counting ends. *)
LEMMA CrashInv ==
    ASSUME ElectionInv, TypeOK', NEW n \in Nodes, Crash(n)
    PROVE  ElectionInv'
<1>1. HealthFromElected'
  <2>1. /\ healthCheck' = [healthCheck EXCEPT ![n] = <<>>]
        /\ elected' = elected
    BY DEF Crash
  <2>2. healthCheck \in [Nodes -> Seq(HealthMsg)] /\ HealthFromElected
    BY DEF ElectionInv, TypeOK
  <2>3. \A m \in Nodes : healthCheck'[m] = <<>> \/ healthCheck'[m] = healthCheck[m]
    BY ONLY <2>1, <2>2
  <2>4. DOMAIN <<>> = {}
    OBVIOUS
  <2> QED BY ONLY <2>1, <2>2, <2>3, <2>4 DEF HealthFromElected
<1> QED BY <1>1, EndElectionInv DEF Crash

(* Every step of the cluster preserves the inductive invariant. *)
LEMMA InvStep ==
    ElectionInv /\ [Next]_vars => ElectionInv'
<1> SUFFICES ASSUME ElectionInv, [Next]_vars
             PROVE  ElectionInv'
  OBVIOUS
<1>1. TypeOK'
  BY TypeStep DEF ElectionInv
<1>2. CASE UNCHANGED vars
  <2>1. HealthFromElected'
    BY <1>2 DEF vars, ElectionInv, HealthFromElected
  <2> QED BY <1>1, <1>2, <2>1, QuietStep DEF vars
<1>3. CASE LoseVote
  <2>1. HealthFromElected'
    BY <1>3 DEF LoseVote, ElectionInv, HealthFromElected
  <2> QED BY <1>1, <1>3, <2>1, QuietStep DEF LoseVote
<1>4. ASSUME NEW n \in Nodes, Step(n)
      PROVE  ElectionInv'
  <2>1. CASE SendHealthChecks(n)
    BY <1>1, <2>1, SendHealthChecksInv
  <2>2. CASE MissHealthCheck(n)
    <3>1. HealthFromElected'
      BY <2>2, ZenonT(30) DEF MissHealthCheck, ElectionInv, HealthFromElected
    <3> QED BY <1>1, <2>2, <3>1, QuietStep, SMTT(30) DEF MissHealthCheck
  <2>3. CASE ElectLeader(n)
    BY <1>1, <2>3, ElectLeaderInv
  <2>4. CASE TakeVote(n)
    BY <1>1, <2>4, TakeVoteInv
  <2>5. CASE ElectionTimeout(n)
    <3>1. HealthFromElected'
      BY <2>5, SMTT(30) DEF ElectionTimeout, ElectionInv, HealthFromElected
    <3> QED BY <1>1, <2>5, <3>1, EndElectionInv, ZenonT(30) DEF ElectionTimeout
  <2>6. CASE HandleVote(n)
    BY <1>1, <2>6, HandleVoteInv
  <2>7. CASE HandleHealth(n)
    BY <1>1, <2>7, HandleHealthInv
  <2>8. CASE Crash(n)
    BY <1>1, <2>8, CrashInv
  <2> QED BY <1>4, <2>1, <2>2, <2>3, <2>4, <2>5, <2>6, <2>7, <2>8 DEF Step
<1> QED BY <1>2, <1>3, <1>4 DEF Next

-----------------------------------------------------------------------------
Deposed(n) == leader[n] = n /\ leader'[n] # n => term'[n] > term[n]

(* A step that takes leadership from a node raises its term. *)
LEMMA DeposedStep ==
    ASSUME ElectionInv, Next
    PROVE  \A n \in Nodes : Deposed(n)
<1> SUFFICES ASSUME NEW n \in Nodes, leader[n] = n, leader'[n] # n
             PROVE  term'[n] > term[n]
  BY DEF Deposed
<1> USE DEF ElectionInv
<1>1. CASE LoseVote
  BY <1>1, SMTT(30) DEF LoseVote
<1>2. ASSUME NEW m \in Nodes, Step(m)
      PROVE  term'[n] > term[n]
  <2>1. CASE SendHealthChecks(m) \/ MissHealthCheck(m) \/ ElectionTimeout(m) \/ Crash(m)
    BY <2>1, SMTT(30) DEF SendHealthChecks, MissHealthCheck, ElectionTimeout, Crash
  <2>2. CASE ElectLeader(m)
    BY <2>2 DEF ElectLeader, TypeOK
  <2>3. CASE TakeVote(m)
    <3>1. leader' = leader \/ leader' = [leader EXCEPT ![m] = m]
      BY <2>3 DEF TakeVote, CountVote
    <3> QED BY <3>1, SMTT(30) DEF TypeOK
  <2>4. CASE HandleVote(m)
    <3>1. PICK q \in voteReq : q.to = m /\ AnswerVote(m, q)
      BY <2>4 DEF HandleVote
    <3>2. q.term \in Nat /\ term[n] \in Nat
      BY SMTT(30) DEF TypeOK, VoteReqMsg
    <3>3. GrantsVote(m, q) /\ m = n /\ term'[n] = q.term
      BY <3>1 DEF AnswerVote, TypeOK
    <3> QED BY <3>2, <3>3, SMTT(30) DEF GrantsVote
  <2>5. CASE HandleHealth(m)
    <3> DEFINE h == Head(healthCheck[m])
    <3>1. /\ healthCheck[m] # <<>>
          /\ ~(h.Term < term[m])
          /\ term' = [term EXCEPT ![m] = h.Term]
          /\ leader' = [leader EXCEPT ![m] = h.Leader]
      BY ONLY <2>5, HealthHandled, m \in Nodes, leader[n] = n, leader'[n] # n
    <3>2. /\ term \in [Nodes -> Nat] /\ leader \in [Nodes -> Nodes \cup {NoNode}]
          /\ healthCheck[m] \in Seq(HealthMsg)
      BY DEF TypeOK
    <3>3. h = healthCheck[m][1] /\ 1 \in DOMAIN healthCheck[m] /\ h \in HealthMsg
      BY ONLY <3>1, <3>2
    <3> HIDE DEF h
    <3>4. m = n /\ term'[n] = h.Term /\ leader'[n] = h.Leader
      BY ONLY <3>1, <3>2, n \in Nodes, m \in Nodes, leader[n] = n, leader'[n] # n
    <3>5. h.Term # term[n]
      <4>1. NeverWrongLeader
        BY WrongLeaderImpossible
      <4>2. n # NoNode
        BY ONLY NoNodeAssumption, n \in Nodes
      <4> QED BY ONLY <3>3, <3>4, <4>1, <4>2, n \in Nodes, leader[n] = n, leader'[n] # n
              DEF NeverWrongLeader
    <3>6. h.Term \in Nat /\ term[n] \in Nat
      BY ONLY <3>2, <3>3, n \in Nodes DEF HealthMsg
    <3> QED BY ONLY <3>1, <3>4, <3>5, <3>6
  <2> QED BY ONLY <1>2, <2>1, <2>2, <2>3, <2>4, <2>5 DEF Step
<1> QED BY <1>1, <1>2 DEF Next

(* The inductive invariant holds in every reachable state of the cluster. *)
THEOREM InvCorrect == Spec => []ElectionInv
BY InitInv, InvStep, PTL DEF Spec

(* Type correctness of the failover state of cluster_leader.go. *)
THEOREM TypeCorrect == Spec => []TypeOK
<1>1. ElectionInv => TypeOK
  BY DEF ElectionInv
<1> QED BY <1>1, InvCorrect, PTL

(* electLeader never makes two nodes leaders of the same term, in a cluster of
   any size, whatever messages are lost and whichever processes die. *)
THEOREM OneLeader == Spec => []OneLeaderPerTerm
<1>1. ElectionInv => OneLeaderPerTerm
  BY ElectedUnique
<1> QED BY <1>1, InvCorrect, PTL

(* The "Wrong leader. It's a bug, should never happen!" branch of run() is
   unreachable as long as no process restarts. *)
THEOREM NoWrongLeader == Spec => []NeverWrongLeader
<1>1. ElectionInv => NeverWrongLeader
  BY WrongLeaderImpossible
<1> QED BY <1>1, InvCorrect, PTL

(* A leader is deposed only by a later term. *)
THEOREM LeaderDeposed == Spec => DeposedByHigherTerm
<1>1. ElectionInv /\ [Next]_vars
        => [\A n \in Nodes : leader[n] = n /\ leader'[n] # n => term'[n] > term[n]]_vars
  BY DeposedStep DEF Deposed
<1> QED BY <1>1, InvCorrect, PTL DEF Spec, DeposedByHigherTerm
=============================================================================
