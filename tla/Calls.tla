------------------------------- MODULE Calls -------------------------------
(***************************************************************************)
(* Video calls in the topic of two users (calls.go), on top of the topic's *)
(* messages: an invitation is a message, and so is every change of what    *)
(* became of it.                                                           *)
(*                                                                         *)
(* A session's requests wait in the topic's clientMsg, its departure in    *)
(* unreg, and the topic's goroutine takes from either, so a departure may  *)
(* overtake requests sent before it.  A session that is not attached may   *)
(* still accept or hang up: the hub passes that on.  Events that are only  *)
(* passed to the other party (ringing, offer, answer, ice-candidate)       *)
(* change nothing here and are left out.                                   *)
(***************************************************************************)
EXTENDS TopicMessages

CONSTANTS Sessions,     \* sessions of the two users
          UserOf,       \* the user of each
          Proxied,      \* those of another node, over one multiplexing session
          Node,         \* that session
          MaxCallSeq,   \* bound: messages, where there are calls
          MaxQueued     \* bound: requests waiting in clientMsg

ASSUME SessionsAssumption ==
    /\ IsFiniteSet(Sessions) /\ Proxied \subseteq Sessions /\ Node \notin Sessions
    /\ UserOf \in [Sessions -> Users]
ASSUME CallBoundsAssumption == MaxCallSeq \in Nat /\ MaxQueued \in Nat

VARIABLES
    iceServers,     \* calls are configured; if not, the topic only has messages
    currentCall,    \* seq, parties and originator of the call, or NoCall
    timer,          \* callEstablishmentTimer runs
    attached,       \* t.sessions
    clientMsg,      \* requests of sessions, in order
    unreg,          \* departures
    said,           \* invitation -> the states written for it, in order
    lost            \* calls that were forgotten with the topic

callVars == <<iceServers, currentCall, timer, attached, clientMsg, unreg, said, lost>>
allVars == <<vars, callVars>>

NoCall == [seq |-> 0, parties |-> {}, originator |-> Node]

CallInit ==
    /\ Init
    /\ iceServers \in BOOLEAN
    /\ currentCall = NoCall /\ timer = FALSE
    /\ attached = {} /\ clientMsg = <<>> /\ unreg = {}
    /\ said = <<>> /\ lost = {}

InCall == currentCall # NoCall
Established == Cardinality(currentCall.parties) = 2

-----------------------------------------------------------------------------
Same == UNCHANGED <<t, row, msgs, subs, faults, currentCall, timer, said>>

\* saveAndBroadcastMessage: a message of u, ok if it is saved, and what is then
\* written of the calls.
Write(u, written, ok) ==
    \E bump, insert, mark \in BOOLEAN :
        /\ Save(u, t.lastID + 1, bump, insert, mark, ok)
        /\ t' = IF ok THEN Accepted(u, t.lastID + 1) ELSE t
        /\ said' = IF insert THEN written ELSE said

\* messageHead: the message replaces the invitation and has its new state.
Replace(state, ok) ==
    Write(UserOf[currentCall.originator],
          [said EXCEPT ![currentCall.seq] = Append(@, state)], ok)

\* A second call is refused while there is one.  Mutated: while one is accepted.
BusyTalking == Established
Busy == InCall

\* handlePubBroadcast of an invitation, handleCallInvite.  There is room for the
\* messages that may follow.
Invite(s) ==
    LET seq == t.lastID + 1
        invited == [n \in DOMAIN said \cup {seq} |-> IF n = seq THEN <<>> ELSE said[n]]
    IN
    IF Busy \/ UserOf[s] \notin Writers THEN Same /\ UNCHANGED acked
    ELSE /\ seq + 2 <= MaxCallSeq
         /\ \E ok \in BOOLEAN :
              /\ Write(UserOf[s], invited, ok)
              /\ acked' = IF ok THEN acked \cup {<<seq, UserOf[s]>>} ELSE acked
              /\ timer' = (timer \/ ok)
              /\ currentCall' = IF ok THEN [seq |-> seq, parties |-> {s}, originator |-> s]
                                ELSE currentCall

\* handleCallEvent, "accept": the callee's, before anybody accepted.
Accept(s) ==
    IF Established \/ UserOf[s] = UserOf[currentCall.originator] THEN Same
    ELSE \E ok \in BOOLEAN :
            /\ Replace("accepted", ok)
            /\ currentCall' = IF ok THEN [currentCall EXCEPT !.parties = @ \cup {s}]
                              ELSE currentCall
            /\ timer' = (timer /\ ~ok)

\* Mutated: the timer is left running.
CallKept == currentCall' = NoCall /\ timer' = timer
CallOver == currentCall' = NoCall /\ timer' = FALSE

\* maybeEndCallInProgress.  That the message is not written is only logged.
EndCall(state) == CallOver /\ \E ok \in BOOLEAN : Replace(state, ok)

\* What is written when `from` hangs up.  Mutated: whether the call was accepted
\* is not looked at.
HangUpStateByUser(s) ==
    IF UserOf[s] = UserOf[currentCall.originator] THEN "missed" ELSE "declined"
HangUpState(s) ==
    IF Established THEN "finished"
    ELSE IF UserOf[s] = UserOf[currentCall.originator] THEN "missed" ELSE "declined"

\* handleCallEvent, "hang-up": of a party, or, as long as nobody accepted, of the
\* originating session or any session of the other user.
MayHangUp(s) ==
    IF Established THEN s \in currentCall.parties
    ELSE UserOf[s] = UserOf[currentCall.originator] => s = currentCall.originator
HangUp(s) ==
    IF MayHangUp(s) THEN EndCall(HangUpState(s)) ELSE Same

-----------------------------------------------------------------------------
\* registerSession: a session attaches.
Attach(s) ==
    /\ iceServers /\ t.loaded /\ s \notin attached
    /\ attached' = attached \cup {s}
    /\ UNCHANGED <<vars, iceServers, currentCall, timer, clientMsg, unreg, said, lost>>

\* Session.publish needs an attached session; Session.note sends the events of
\* others through the hub.  They name an invitation that was written.
Send(s, m) ==
    /\ iceServers /\ t.loaded /\ Len(clientMsg) < MaxQueued
    /\ m.what = "invite" => s \in attached
    /\ clientMsg' = Append(clientMsg, m)
    /\ UNCHANGED <<vars, iceServers, currentCall, timer, attached, unreg, said, lost>>

Requests(s) ==
    {[sess |-> s, what |-> "invite", seq |-> 0]}
    \cup [sess : {s}, what : {"accept", "hang-up"}, seq : DOMAIN said]

\* Session.leave, Session.unsubAll: a session departs, or all of a node's.
Leave(s) ==
    /\ iceServers /\ t.loaded /\ s \notin unreg
    /\ attached \cap (IF s = Node THEN Proxied ELSE {s}) # {}
    /\ unreg' = unreg \cup {s}
    /\ UNCHANGED <<vars, iceServers, currentCall, timer, attached, clientMsg, said, lost>>

-----------------------------------------------------------------------------
\* The topic takes a request.  One about another call than the current is dropped.
Receive ==
    /\ clientMsg # <<>>
    /\ clientMsg' = Tail(clientMsg)
    /\ LET m == Head(clientMsg) IN
       CASE m.what = "invite" -> Invite(m.sess)
         [] m.what # "invite" /\ InCall /\ m.seq = currentCall.seq ->
                /\ IF m.what = "accept" THEN Accept(m.sess) ELSE HangUp(m.sess)
                /\ UNCHANGED acked
         [] OTHER -> Same /\ UNCHANGED acked
    /\ UNCHANGED <<dellog, old, gone, dels, iceServers, attached, unreg, lost>>

\* unregisterSession: a party that departs ends the call, and so does the node over
\* which a party takes part.
Departing(s) == IF s = Node THEN Proxied ELSE {s}
EndsCall(s) == InCall /\ currentCall.parties \cap Departing(s) # {}

Unregister(s) ==
    /\ s \in unreg
    /\ unreg' = unreg \ {s}
    /\ attached' = attached \ Departing(s)
    /\ IF EndsCall(s) THEN EndCall("disconnected")
       ELSE Same
    /\ UNCHANGED <<dellog, old, acked, gone, dels, iceServers, clientMsg, lost>>

\* runLocal: the timer fires, terminateCallInProgress.
CallTimeout ==
    /\ timer
    /\ IF InCall THEN EndCall("missed")
       ELSE timer' = FALSE /\ UNCHANGED <<t, row, msgs, subs, faults, currentCall, said>>
    /\ UNCHANGED <<dellog, old, acked, gone, dels, iceServers, attached, clientMsg, unreg, lost>>

\* The topic is unloaded and with it the call and the requests.
Forget ==
    /\ iceServers /\ Unload
    /\ currentCall' = NoCall /\ timer' = FALSE
    /\ attached' = {} /\ clientMsg' = <<>> /\ unreg' = {}
    /\ lost' = IF InCall THEN lost \cup {currentCall.seq} ELSE lost
    /\ UNCHANGED <<iceServers, said>>

CallNext ==
    \/ ~iceServers /\ Next /\ UNCHANGED callVars
    \/ iceServers /\ Load /\ UNCHANGED callVars
    \/ Forget \/ Receive \/ CallTimeout
    \/ \E s \in Sessions : Attach(s) \/ \E m \in Requests(s) : Send(s, m)
    \/ \E s \in Sessions \cup {Node} : Leave(s) \/ Unregister(s)

CallSpec == CallInit /\ [][CallNext]_allVars

-----------------------------------------------------------------------------
Ends == {"finished", "missed", "declined", "disconnected"}

\* What became of a call is written in an order a client can follow, whatever
\* fails: accepted once, then one end; "missed" and "declined" (calls.go:44:
\* "the callee didn't pick up", "hung up before picking up") only of a call that
\* was never accepted, "finished" only of one that was.  No timer, departure or
\* hang-up, however late, adds to a call that ended.
CallTold ==
    \A n \in DOMAIN said :
        \/ said[n] \in {<<>>, <<"accepted">>}
        \/ \E e \in Ends \ {"finished"} : said[n] = <<e>>
        \/ \E e \in {"finished", "disconnected"} : said[n] = <<"accepted", e>>

\* Every invitation is answered by an end before the next: one that has none is
\* the current call or was forgotten when the topic was unloaded, unless a
\* database call failed.
CallSettled ==
    faults = 0 => \A n \in DOMAIN said :
        \/ \E i \in DOMAIN said[n] : said[n][i] \in Ends
        \/ n = currentCall.seq \/ n \in lost

\* The timer runs exactly while a call waits to be accepted: a call nobody answers
\* cannot stay, and an old timer cannot end an answered or a later call.
TimerOfPending == timer <=> InCall /\ ~Established
=============================================================================
