--------------------------- MODULE TopicLifecycle ---------------------------
(***************************************************************************)
(* The life of one topic name, a P2P topic that one of its two users has   *)
(* left already: the hub's goroutine (hub.go), the goroutine               *)
(* that loads a topic (topicInit of init_topic.go), the goroutines of the  *)
(* topic objects (runLocal of topic.go), the goroutine that stops the      *)
(* topics of a deleted user (stopTopicsForUser) and the sessions that      *)
(* subscribe, leave, delete and disconnect (session.go).                   *)
(*                                                                         *)
(* The hub keeps at most one topic object per name; successive objects of  *)
(* the name are numbered 1, 2, ...  They may be alive at the same time: an *)
(* object that was unregistered runs on until it takes its exit message,   *)
(* and an object may be unregistered while it is still being loaded.       *)
(*                                                                         *)
(* events, one of Events, names what the environment may do in a behaviour: *)
(*   "timeout"    the kill timer of an idle topic fires                    *)
(*   "delete"     the user deletes the topic                               *)
(*   "unsub"      the user unsubscribes with {leave unsub=true}            *)
(*   "rehash"     the cluster moves the topic to another node              *)
(*   "deluser"    the user's account is deleted                            *)
(*   "loaderror"  the topic cannot be read from the database               *)
(*   "dberror"    the database fails to delete the topic                   *)
(*   "shutdown"   the server is stopped                                    *)
(*   "close"      clients disconnect                                       *)
(***************************************************************************)
EXTENDS Naturals, Integers, Sequences, FiniteSets

CONSTANTS Sessions,     \* client sessions
          None,         \* nil
          Events,       \* the sets of what may happen, see above
          MaxTopics,    \* bound: topic objects of the name
          MaxReqs,      \* bound: {sub}, {leave} and {del} requests, all sessions together
          QueueCap      \* capacity of Hub.join and Topic.reg, the queues that refuse

ASSUME SessionsAssumption == IsFiniteSet(Sessions)
ASSUME NoneAssumption == None \notin Sessions /\ None \notin Nat
ASSUME BoundsAssumption == MaxTopics \in Nat /\ MaxReqs \in Nat /\ QueueCap \in Nat \ {0}

VARIABLES
    topic,      \* Hub.topics: the object registered under the name, or None
    numTopics,  \* Hub.numTopics
    join,       \* Hub.join: sessions whose {sub} waits for the hub
    unreg,      \* Hub.unreg: "timeout", "delete", "emptied" or "deluser"
    hub,        \* what the hub goroutine is in the middle of
    stored,     \* the topic exists in the database
    created,    \* number of objects made so far
    obj,        \* the topic objects
    ses,        \* the sessions
    reqs,       \* number of requests made so far
    stopper,    \* the goroutine stopTopicsForUser
    shutdown,   \* server shutdown: "no", "asked", "waiting" (for topics), "done"
    events      \* what may happen

vars == <<topic, numTopics, join, unreg, hub, stored, created, obj, ses, reqs, stopper,
          shutdown, events>>

Topics == 1..MaxTopics
Reasons == {"none", "deleted", "rehash", "shutdown"}

\* A leave request: init, the client sent it; unsub, {leave unsub=true}.
LeaveMsg == [sess : Sessions, init : BOOLEAN, unsub : BOOLEAN]

(* A topic object.  phase is where its goroutine is:
     "absent"   not made yet
     "loading"  in topicInit, reading the database
     "failing"  about to enter the error branch of topicInit
     "draining" the error branch has removed the topic from the hub
     "loaded"   read, topicInit has not looked at the deleted flag yet
     "ready"    not deleted, about to run
     "running"  in runLocal
     "ended"    its goroutine is gone
     "stuck"    topicInit sends to a nil channel, forever *)
Object ==
    [phase : {"absent", "loading", "failing", "draining", "loaded", "ready", "running",
              "ended", "stuck"},
     paused : BOOLEAN,               \* topicStatusPaused
     deleted : BOOLEAN,              \* topicStatusMarkedDeleted
     initBy : Sessions \cup {None},  \* the session whose {sub} it was made for
     reg : Seq(Sessions),            \* Topic.reg
     unreg : Seq(LeaveMsg),          \* Topic.unreg
     meta : BOOLEAN,                 \* a {del what="topic"} waits in Topic.meta
     exit : Seq([reason : Reasons, done : BOOLEAN]),
     sessions : SUBSET Sessions,     \* Topic.sessions
     killTimer : BOOLEAN]            \* the kill timer is ticking

Absent == [phase |-> "absent", paused |-> FALSE, deleted |-> FALSE, initBy |-> None,
           reg |-> <<>>, unreg |-> <<>>, meta |-> FALSE, exit |-> <<>>, sessions |-> {},
           killTimer |-> FALSE]

Session ==
    [conn : {"open", "closing", "closed"},   \* "closing": in cleanUp
     inflight : BOOLEAN,             \* inflightReqs is taken
     awaiting : BOOLEAN,             \* its {sub} or {leave} has not been answered
     sub : Topics \cup {None},       \* Session.subs: the object it is attached to
     detach : SUBSET Topics]         \* Session.detach, by the object that sent it

Connected == [conn |-> "open", inflight |-> FALSE, awaiting |-> FALSE, sub |-> None,
              detach |-> {}]

\* pc: "idle"; "got" and "send" in topicUnreg; "delete" while the database
\* deletes; "panic", the goroutine is dead (what others do then is of no interest).
HubState == [pc : {"idle", "got", "delete", "send", "panic"}, inst : Topics \cup {None},
             reason : Reasons]
Idle == [pc |-> "idle", inst |-> None, reason |-> "none"]

-----------------------------------------------------------------------------
\* newHub, NewSession: nothing is loaded, the topic is in the database.
Init ==
    /\ topic = None /\ numTopics = 0
    /\ join = <<>> /\ unreg = <<>>
    /\ hub = Idle
    /\ stored = TRUE
    /\ created = 0
    /\ obj = [i \in Topics |-> Absent]
    /\ ses = [s \in Sessions |-> Connected]
    /\ reqs = 0
    /\ stopper = [pc |-> "no", inst |-> None]
    /\ shutdown = "no"
    /\ events \in Events

isInactive(i) == obj[i].paused \/ obj[i].deleted

-----------------------------------------------------------------------------
\* A session's request is over: inflightReqs.Done(), with or without a reply;
\* or only the reply is sent.
AnsweredNotDone(s) == [s EXCEPT !.awaiting = FALSE]
Answered(s) == [s EXCEPT !.inflight = FALSE, !.awaiting = FALSE]
DroppedNot(s) == s
Dropped(s) == [s EXCEPT !.inflight = FALSE]
RefusedSilently(s) == s
Refused(s) == [s EXCEPT !.awaiting = FALSE]

\* subscribe: {sub} goes to the hub once inflightReqs.Add lets it.  With a full
\* queue, or when attached already, it is answered at once and nothing changes.
Subscribe(s) ==
    /\ ses[s].conn = "open" /\ ses[s].sub = None
    /\ ~ses[s].inflight
    /\ Len(join) < QueueCap
    /\ reqs < MaxReqs
    /\ reqs' = reqs + 1
    /\ ses' = [ses EXCEPT ![s].inflight = TRUE, ![s].awaiting = TRUE]
    /\ join' = Append(join, s)
    /\ UNCHANGED <<topic, numTopics, unreg, hub, stored, created, obj, stopper, shutdown,
                   events>>

\* leave: {leave} of an attached session goes to the topic it is attached to.
Leave(s, unsub) ==
    LET i == ses[s].sub IN
    /\ ses[s].conn = "open" /\ i # None
    /\ ~ses[s].inflight
    /\ unsub => "unsub" \in events
    /\ reqs < MaxReqs
    /\ reqs' = reqs + 1
    /\ ses' = [ses EXCEPT ![s].inflight = TRUE, ![s].awaiting = TRUE]
    /\ obj' = [obj EXCEPT ![i].unreg = Append(@, [sess |-> s, init |-> TRUE, unsub |-> unsub])]
    /\ UNCHANGED <<topic, numTopics, join, unreg, hub, stored, created, stopper, shutdown,
                   events>>

\* del: {del what="topic"} goes to the hub.
DelTopic(s) ==
    /\ "delete" \in events
    /\ ses[s].conn = "open"
    /\ reqs < MaxReqs
    /\ reqs' = reqs + 1
    /\ unreg' = Append(unreg, "delete")
    /\ UNCHANGED <<topic, numTopics, join, hub, stored, created, obj, ses, stopper,
                   shutdown, events>>

\* The write loop takes a detach message: it names the topic, not the object.
DetachSession(s) ==
    /\ ses[s].conn = "open"
    /\ \E i \in ses[s].detach :
          ses' = [ses EXCEPT ![s].detach = @ \ {i}, ![s].sub = None]
    /\ UNCHANGED <<topic, numTopics, join, unreg, hub, stored, created, obj, reqs, stopper,
                   shutdown, events>>

\* cleanUp, first half: the session is terminating, its channels are emptied.
CleanUp(s) ==
    /\ "close" \in events \/ shutdown # "no"
    /\ ses[s].conn = "open"
    /\ ses' = [ses EXCEPT ![s].conn = "closing", ![s].detach = {}]
    /\ UNCHANGED <<topic, numTopics, join, unreg, hub, stored, created, obj, reqs, stopper,
                   shutdown, events>>

\* cleanUp, second half: the request in flight is over; unsubAll tells the topic.
UnsubAll(s) ==
    LET i == ses[s].sub IN
    /\ ses[s].conn = "closing" /\ ~ses[s].inflight
    /\ ses' = [ses EXCEPT ![s].conn = "closed"]
    /\ obj' = IF i = None THEN obj
              ELSE [obj EXCEPT ![i].unreg =
                      Append(@, [sess |-> s, init |-> FALSE, unsub |-> FALSE])]
    /\ UNCHANGED <<topic, numTopics, join, unreg, hub, stored, created, reqs, stopper,
                   shutdown, events>>

-----------------------------------------------------------------------------
HubReady == hub.pc = "idle" /\ shutdown \notin {"waiting", "done"}

markDeletedNot(o) == o
markDeleted(o) == [o EXCEPT !.deleted = TRUE]

topicDel == topic' = None /\ numTopics' = numTopics - 1

\* The hub does not pass a join on to the registered object.
LockedOrFull(i) == isInactive(i) \/ Len(obj[i].reg) >= QueueCap

\* run, the join case: make and load an object, or pass the request on to the
\* registered one; refuse when that one is paused or deleted or its queue full.
HubJoin ==
    /\ HubReady /\ join # <<>>
    /\ join' = Tail(join)
    /\ LET s == Head(join) IN
       \/ /\ topic = None /\ created < MaxTopics
          /\ created' = created + 1
          /\ topic' = created + 1 /\ numTopics' = numTopics + 1
          /\ obj' = [obj EXCEPT ![created + 1] =
                        [Absent EXCEPT !.phase = "loading", !.paused = TRUE, !.initBy = s]]
          /\ ses' = ses
       \/ /\ topic # None /\ ~LockedOrFull(topic)
          /\ obj' = [obj EXCEPT ![topic].reg = Append(@, s)]
          /\ UNCHANGED <<created, topic, numTopics, ses>>
       \/ /\ topic # None /\ LockedOrFull(topic)
          /\ ses' = [ses EXCEPT ![s] = Answered(@)]
          /\ UNCHANGED <<created, topic, numTopics, obj>>
    /\ UNCHANGED <<unreg, hub, stored, reqs, stopper, shutdown, events>>

\* run, the unreg case, when the topic is being garbage collected.
HubUnregIdle ==
    /\ HubReady /\ unreg # <<>> /\ Head(unreg) = "timeout"
    /\ unreg' = Tail(unreg)
    /\ hub' = IF topic = None THEN hub ELSE [pc |-> "got", inst |-> topic, reason |-> "none"]
    /\ UNCHANGED <<topic, numTopics, join, stored, created, obj, ses, reqs, stopper,
                   shutdown, events>>

\* topicUnreg, cases 1.1.1.3 and 2: unregister the object.
HubUnregister ==
    /\ hub.pc = "got"
    /\ obj' = [obj EXCEPT ![hub.inst] = markDeleted(@)]
    /\ topicDel
    /\ hub' = [hub EXCEPT !.pc = "send"]
    /\ UNCHANGED <<join, unreg, stored, created, ses, reqs, stopper, shutdown, events>>

\* topicUnreg: t.exit <- blocks while another exit message waits there.
HubSendExit ==
    /\ hub.pc = "send"
    /\ obj[hub.inst].exit = <<>>
    /\ obj' = [obj EXCEPT ![hub.inst].exit = <<[reason |-> hub.reason, done |-> FALSE]>>]
    /\ hub' = Idle
    /\ UNCHANGED <<topic, numTopics, join, unreg, stored, created, ses, reqs, stopper,
                   shutdown, events>>

\* run, the rehash case: the topic now belongs to another node.
HubRehash ==
    /\ "rehash" \in events
    /\ HubReady /\ topic # None
    /\ hub' = [pc |-> "got", inst |-> topic, reason |-> "rehash"]
    /\ UNCHANGED <<topic, numTopics, join, unreg, stored, created, obj, ses, reqs, stopper,
                   shutdown, events>>

\* topicUnreg, case 1: delete.  A loaded topic has fewer than two subscribers,
\* case 1.1.1; the fields this depends on are not set yet while it is loading.
\* A topic that is offline is deleted from the database.
HubDelete ==
    /\ HubReady /\ unreg # <<>> /\ Head(unreg) = "delete"
    /\ unreg' = Tail(unreg)
    /\ \/ /\ topic # None
          /\ obj' = [obj EXCEPT ![topic].paused = TRUE]
          /\ hub' = [pc |-> "delete", inst |-> topic, reason |-> "deleted"]
          /\ stored' = stored
       \/ /\ topic # None /\ obj[topic].phase = "loading"
          /\ obj' = [obj EXCEPT ![topic].meta = TRUE]
          /\ UNCHANGED <<hub, stored>>
       \/ /\ topic = None
          /\ stored' = FALSE
          /\ UNCHANGED <<obj, hub>>
    /\ UNCHANGED <<topic, numTopics, join, created, ses, reqs, stopper, shutdown, events>>

\* topicUnreg, case 1.1.1, the outcome of deleting the topic from the database.
HubDeleted ==
    /\ hub.pc = "delete"
    /\ \/ /\ stored' = FALSE
          /\ hub' = [hub EXCEPT !.pc = "got"]
          /\ obj' = obj
       \/ /\ "dberror" \in events
          /\ obj' = [obj EXCEPT ![hub.inst].paused = FALSE]
          /\ hub' = Idle
          /\ stored' = stored
    /\ UNCHANGED <<topic, numTopics, join, unreg, created, ses, reqs, stopper, shutdown,
                   events>>

\* topicUnreg for the internal request of an emptied topic, which carries no
\* packet: with the topic offline, or not known to be empty, the hub goroutine
\* dereferences the nil packet and dies, and the process with it.
HubEmptied ==
    /\ HubReady /\ unreg # <<>> /\ Head(unreg) = "emptied"
    /\ unreg' = Tail(unreg)
    /\ \/ /\ topic # None
          /\ obj' = [obj EXCEPT ![topic].paused = TRUE]
          /\ hub' = [pc |-> "delete", inst |-> topic, reason |-> "deleted"]
       \/ /\ topic # None => obj[topic].phase = "loading"
          /\ hub' = [Idle EXCEPT !.pc = "panic"]
          /\ obj' = obj
    /\ UNCHANGED <<topic, numTopics, join, stored, created, ses, reqs, stopper, shutdown,
                   events>>

-----------------------------------------------------------------------------
\* replyDelUser asks the hub to stop the topics of the user, and waits.
DelUser ==
    /\ "deluser" \in events /\ stopper.pc = "no"
    /\ stopper' = [stopper EXCEPT !.pc = "asked"]
    /\ unreg' = Append(unreg, "deluser")
    /\ UNCHANGED <<topic, numTopics, join, hub, stored, created, obj, ses, reqs, shutdown,
                   events>>

\* run, the unreg case, when a user is deleted.
HubDelUser ==
    /\ HubReady /\ unreg # <<>> /\ Head(unreg) = "deluser"
    /\ unreg' = Tail(unreg)
    /\ stopper' = [stopper EXCEPT !.pc = "look"]
    /\ UNCHANGED <<topic, numTopics, join, hub, stored, created, obj, ses, reqs, shutdown,
                   events>>

\* stopTopicsForUser finds the registered object, unless the user is not seen
\* among the subscribers of a topic that is still loading.
StopperLook ==
    /\ stopper.pc = "look"
    /\ \/ /\ topic # None
          /\ obj' = [obj EXCEPT ![topic] = markDeleted(@)]
          /\ stopper' = [pc |-> "drop", inst |-> topic]
       \/ /\ topic # None => obj[topic].phase = "loading"
          /\ stopper' = [stopper EXCEPT !.pc = "done"]
          /\ obj' = obj
    /\ UNCHANGED <<topic, numTopics, join, unreg, hub, stored, created, ses, reqs,
                   shutdown, events>>

\* stopTopicsForUser: h.topics.Delete(name), which leaves numTopics alone.
StopperDrop ==
    /\ stopper.pc = "drop"
    /\ topic' = None
    /\ stopper' = [stopper EXCEPT !.pc = "send"]
    /\ UNCHANGED <<numTopics, join, unreg, hub, stored, created, obj, ses, reqs, shutdown,
                   events>>

StopperSendExit ==
    /\ stopper.pc = "send"
    /\ obj[stopper.inst].exit = <<>>
    /\ obj' = [obj EXCEPT ![stopper.inst].exit = <<[reason |-> "deleted", done |-> TRUE]>>]
    /\ stopper' = [stopper EXCEPT !.pc = "wait"]
    /\ UNCHANGED <<topic, numTopics, join, unreg, hub, stored, created, ses, reqs,
                   shutdown, events>>

\* listenAndServe: the process is told to stop.
ShutdownAsk ==
    /\ "shutdown" \in events /\ shutdown = "no"
    /\ shutdown' = "asked"
    /\ UNCHANGED <<topic, numTopics, join, unreg, hub, stored, created, obj, ses, reqs,
                   stopper, events>>

\* run, the shutdown case: stop the topic and wait for it.
HubShutdown ==
    /\ shutdown = "asked" /\ HubReady
    /\ \/ /\ topic = None
          /\ shutdown' = "done"
          /\ obj' = obj
       \/ /\ topic # None /\ obj[topic].exit = <<>>
          /\ obj' = [obj EXCEPT ![topic].exit = <<[reason |-> "shutdown", done |-> TRUE]>>]
          /\ shutdown' = "waiting"
    /\ UNCHANGED <<topic, numTopics, join, unreg, hub, stored, created, ses, reqs, stopper,
                   events>>

-----------------------------------------------------------------------------
\* The object takes its exit message and reports to whoever waits for it.
Reported(x) ==
    /\ stopper' = IF x.done /\ x.reason = "deleted" THEN [stopper EXCEPT !.pc = "done"] ELSE stopper
    /\ shutdown' = IF x.done /\ x.reason = "shutdown" THEN "done" ELSE shutdown

\* topicInit: initTopicP2P reads the topic, or makes it; or fails.
Load(i) ==
    /\ obj[i].phase = "loading"
    /\ \/ /\ obj' = [obj EXCEPT ![i].phase = "loaded"]
          /\ stored' = TRUE
       \/ /\ "loaderror" \in events
          /\ obj' = [obj EXCEPT ![i].phase = "failing"]
          /\ stored' = stored
    /\ UNCHANGED <<topic, numTopics, join, unreg, hub, created, ses, reqs, stopper,
                   shutdown, events>>

\* topicInit, the error branch, its first statement: the name is removed from
\* the hub, and the client is told.
InitFailed(i) ==
    /\ obj[i].phase = "failing"
    /\ topicDel
    /\ ses' = [ses EXCEPT ![obj[i].initBy] = Refused(@)]
    /\ obj' = [obj EXCEPT ![i].phase = "draining"]
    /\ UNCHANGED <<join, unreg, hub, stored, created, reqs, stopper, shutdown, events>>

\* topicInit, the rest of the error branch: requests that wait for the topic go
\* back to the hub, a waiting exit message is acknowledged.  When nobody waits
\* for the acknowledgement it is sent to a nil channel, and the deferred
\* inflightReqs.Done is never reached.
InitDrain(i) ==
    LET o == obj[i] IN
    /\ o.phase = "draining"
    /\ Len(join) + Len(o.reg) <= QueueCap
    /\ join' = join \o o.reg
    /\ \/ /\ o.exit # <<>> /\ ~o.exit[1].done
          /\ obj' = [obj EXCEPT ![i].phase = "stuck", ![i].reg = <<>>, ![i].meta = FALSE]
          /\ UNCHANGED <<ses, stopper, shutdown>>
       \/ /\ o.exit # <<>> => o.exit[1].done
          /\ obj' = [obj EXCEPT ![i].phase = "ended", ![i].reg = <<>>, ![i].meta = FALSE,
                                ![i].exit = <<>>]
          /\ ses' = [ses EXCEPT ![o.initBy] = Dropped(@)]
          /\ IF o.exit = <<>> THEN UNCHANGED <<stopper, shutdown>> ELSE Reported(o.exit[1])
    /\ UNCHANGED <<topic, numTopics, unreg, hub, stored, created, reqs, events>>

\* topicInit after loading, when the server shuts down or somebody has deleted
\* the object meanwhile: nobody is answered and nothing is drained.
InitAbort(i) ==
    /\ obj[i].phase = "loaded"
    /\ \/ shutdown # "no" /\ topicDel
       \/ shutdown = "no" /\ obj[i].deleted /\ UNCHANGED <<topic, numTopics>>
    /\ obj' = [obj EXCEPT ![i].phase = "ended"]
    /\ ses' = [ses EXCEPT ![obj[i].initBy] = Dropped(@)]
    /\ UNCHANGED <<join, unreg, hub, stored, created, reqs, stopper, shutdown, events>>

\* topicInit: the object is not deleted, the {sub} it was made for is queued.
InitReady(i) ==
    /\ obj[i].phase = "loaded" /\ shutdown = "no" /\ ~obj[i].deleted
    /\ Len(obj[i].reg) < QueueCap
    /\ obj' = [obj EXCEPT ![i].phase = "ready", ![i].reg = Append(@, obj[i].initBy)]
    /\ UNCHANGED <<topic, numTopics, join, unreg, hub, stored, created, ses, reqs, stopper,
                   shutdown, events>>

\* topicInit: the topic is unpaused and its goroutine starts.
InitRun(i) ==
    /\ obj[i].phase = "ready"
    /\ obj' = [obj EXCEPT ![i].phase = "running", ![i].paused = FALSE]
    /\ UNCHANGED <<topic, numTopics, join, unreg, hub, stored, created, ses, reqs, stopper,
                   shutdown, events>>

-----------------------------------------------------------------------------
\* The kill timer starts when the topic has no sessions.
NoTimer(o) == o
StartTimer(o) == IF o.sessions = {} THEN [o EXCEPT !.killTimer = TRUE] ELSE o

\* registerSession: refuse when inactive; otherwise stop the kill timer and
\* attach the session (handleSubscription, subscriptionReply), or, when the
\* subscription fails, restart the timer of a topic without sessions.
RegisterSession(i) ==
    LET o == obj[i]
        s == Head(o.reg)
        took == [o EXCEPT !.reg = Tail(@)] IN
    /\ o.phase = "running" /\ o.reg # <<>>
    /\ \/ /\ isInactive(i) \/ ses[s].sub # None
          /\ obj' = [obj EXCEPT ![i] = took]
          /\ ses' = [ses EXCEPT ![s] = Answered(@)]
       \/ /\ ~isInactive(i) /\ ses[s].sub = None
          /\ obj' = [obj EXCEPT ![i] =
                        [took EXCEPT !.sessions = @ \cup {s}, !.killTimer = FALSE]]
          /\ ses' = [ses EXCEPT ![s] = [Answered(@) EXCEPT !.sub = i]]
       \/ /\ ~isInactive(i) /\ ses[s].sub = None
          /\ obj' = [obj EXCEPT ![i] = StartTimer([took EXCEPT !.killTimer = FALSE])]
          /\ ses' = [ses EXCEPT ![s] = Answered(@)]
    /\ UNCHANGED <<topic, numTopics, join, unreg, hub, stored, created, reqs, stopper,
                   shutdown, events>>

\* replyLeaveUnsub, evictUser: the last user goes; their sessions are detached,
\* the topic suspends itself and asks the hub to delete it.
EvictedNobody(i) == ses
Emptied(o) == [o EXCEPT !.sessions = {}, !.paused = TRUE]
Evicted(i) ==
    [s \in Sessions |-> IF s \in obj[i].sessions /\ ses[s].conn = "open"
                        THEN [ses[s] EXCEPT !.detach = @ \cup {i}] ELSE ses[s]]

\* unregisterSession, handleLeaveRequest.
UnregisterSession(i) ==
    LET o == obj[i]
        m == Head(o.unreg)
        s == m.sess
        took == [o EXCEPT !.unreg = Tail(@)]
        reply(x) == IF m.init THEN Answered(x) ELSE x
    IN
    /\ o.phase = "running" /\ o.unreg # <<>>
    /\ \/ /\ isInactive(i)
          /\ obj' = [obj EXCEPT ![i] = StartTimer(took)]
          /\ ses' = [ses EXCEPT ![s] = reply(@)]
          /\ unreg' = unreg
       \/ /\ ~isInactive(i) /\ m.unsub
          /\ obj' = [obj EXCEPT ![i] = StartTimer(Emptied(took))]
          /\ ses' = [Evicted(i) EXCEPT ![s] = reply(@)]
          /\ unreg' = Append(unreg, "emptied")
       \/ /\ ~isInactive(i) /\ ~m.unsub /\ s \in o.sessions
          /\ obj' = [obj EXCEPT ![i] = StartTimer([took EXCEPT !.sessions = @ \ {s}])]
          /\ ses' = [ses EXCEPT ![s] = [reply(@) EXCEPT !.sub = None]]
          /\ unreg' = unreg
       \/ /\ ~isInactive(i) /\ ~m.unsub /\ s \notin o.sessions
          /\ obj' = [obj EXCEPT ![i] = StartTimer(took)]
          /\ ses' = [ses EXCEPT ![s] = IF m.init THEN Dropped(@) ELSE @]
          /\ unreg' = unreg
    /\ UNCHANGED <<topic, numTopics, join, hub, stored, created, reqs, stopper, shutdown,
                   events>>

\* handleMeta, replyDelTopic: {del what="topic"} passed on by the hub is
\* treated like {leave unsub=true}, whatever the state of the topic.
DelTopicMeta(i) ==
    /\ obj[i].phase = "running" /\ obj[i].meta
    /\ obj' = [obj EXCEPT ![i] = [Emptied(@) EXCEPT !.meta = FALSE]]
    /\ ses' = Evicted(i)
    /\ unreg' = Append(unreg, "emptied")
    /\ UNCHANGED <<topic, numTopics, join, hub, stored, created, reqs, stopper, shutdown,
                   events>>

\* runLocal, the kill timer, and handleTopicTimeout.
TopicTimeout(i) ==
    /\ "timeout" \in events
    /\ obj[i].phase = "running" /\ obj[i].killTimer
    /\ obj' = [obj EXCEPT ![i].killTimer = FALSE]
    /\ unreg' = Append(unreg, "timeout")
    /\ UNCHANGED <<topic, numTopics, join, hub, stored, created, ses, reqs, stopper,
                   shutdown, events>>

\* runLocal, the exit case, and handleTopicTermination: detach the sessions,
\* report, return.  What waits in the queues is left there.
TopicTermination(i) ==
    LET o == obj[i] IN
    /\ o.phase = "running" /\ o.exit # <<>>
    /\ ses' = Evicted(i)
    /\ obj' = [obj EXCEPT ![i].phase = "ended", ![i].exit = <<>>, ![i].killTimer = FALSE]
    /\ Reported(o.exit[1])
    /\ UNCHANGED <<topic, numTopics, join, unreg, hub, stored, created, reqs, events>>

-----------------------------------------------------------------------------
HubStep == \/ HubJoin \/ HubUnregIdle \/ HubUnregister \/ HubSendExit \/ HubDelete
           \/ HubDeleted \/ HubEmptied \/ HubDelUser \/ HubShutdown
StopperStep == StopperLook \/ StopperDrop \/ StopperSendExit
InitStep(i) == Load(i) \/ InitFailed(i) \/ InitDrain(i) \/ InitAbort(i) \/ InitReady(i) \/ InitRun(i)
TopicStep(i) == \/ RegisterSession(i) \/ UnregisterSession(i) \/ DelTopicMeta(i)
                \/ TopicTimeout(i) \/ TopicTermination(i)
SessionStep(s) == DetachSession(s) \/ UnsubAll(s)
\* What clients, the operator and the other nodes may do, or not.
Environment == \/ HubRehash \/ DelUser \/ ShutdownAsk
               \/ \E s \in Sessions : \/ Subscribe(s) \/ DelTopic(s) \/ CleanUp(s)
                                     \/ \E unsub \in BOOLEAN : Leave(s, unsub)

Next == \/ HubStep \/ StopperStep \/ Environment
        \/ \E i \in Topics : InitStep(i) \/ TopicStep(i)
        \/ \E s \in Sessions : SessionStep(s)

Spec == Init /\ [][Next]_vars

\* Every goroutine that can take a step takes one sooner or later.
FairSpec ==
    /\ Spec
    /\ WF_vars(HubStep) /\ WF_vars(StopperStep)
    /\ \A i \in Topics : WF_vars(InitStep(i)) /\ WF_vars(TopicStep(i))
    /\ \A s \in Sessions : WF_vars(SessionStep(s))

-----------------------------------------------------------------------------
\* What makes the code remove a name from the hub without asking whose it is by
\* now: the error branch of topicInit, topicInit during shutdown, and the
\* goroutine that stops the topics of a deleted user.
ByName == {"loaderror", "shutdown", "deluser"}

\* Only the registered object of the name is in service, unless a name is removed
\* without asking.  Objects that time out, are deleted while being loaded, fail to
\* be deleted or move to another node never serve beside their successor, so
\* two clients of the topic always meet.
LiveIsRegistered ==
    events \cap ByName = {} =>
        \A i \in Topics : obj[i].phase = "running" /\ ~isInactive(i) => topic = i

Initialising == {"loading", "failing", "draining", "loaded", "stuck"}

\* The places where the pending request of a session can be.
Places(s) ==
    {<<"join", 0, k>> : k \in {n \in DOMAIN join : join[n] = s}} \cup
    UNION {LET o == obj[i] IN
           {<<"reg", i, k>> : k \in {n \in DOMAIN o.reg : o.reg[n] = s}} \cup
           {<<"unreg", i, k>> : k \in {n \in DOMAIN o.unreg : o.unreg[n].sess = s
                                                           /\ o.unreg[n].init}} \cup
           {<<"init", i, k>> : k \in {n \in {0} : o.initBy = s /\ o.phase \in Initialising}}
           : i \in Topics}

\* inflightReqs of a session is taken exactly while one request of it is
\* somewhere in the hub, in a topic or in topicInit: Done is called once for
\* every Add, whichever goroutine ends up with the request, so the wait group
\* never panics and never admits a second request.
OneRequest ==
    \A s \in Sessions : IF ses[s].inflight THEN \E p \in Places(s) : Places(s) = {p}
                       ELSE Places(s) = {}

\* A running topic and a session agree on whether the session is attached, up
\* to a detach message on its way, and a session that is not terminating is
\* told of the end of the object it is attached to.  The message names the
\* topic only; it never unlinks a later object of the same name.
AttachedBothWays ==
    \A s \in Sessions : ses[s].conn = "open" => \A i \in Topics :
        /\ s \in obj[i].sessions /\ obj[i].phase = "running" => ses[s].sub = i
        /\ i \in ses[s].detach => ses[s].sub = i
        /\ ses[s].sub = i => \/ i \in ses[s].detach
                             \/ s \in obj[i].sessions /\ obj[i].phase = "running"
=============================================================================
