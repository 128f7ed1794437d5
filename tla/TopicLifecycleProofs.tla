------------------------ MODULE TopicLifecycleProofs ------------------------
(***************************************************************************)
(* Proofs, for any sessions, number of objects and lengths of queues, that *)
(* one object at a time serves a topic name: LiveIsRegistered; that topics *)
(* and sessions agree on who is attached: AttachedBothWays; and that one   *)
(* request of a session is in one place: OneRequest.                       *)
(*                                                                         *)
(* An object that was not marked as deleted is the registered one from the *)
(* moment it is made, before it runs (ServingRegistered).  The hub needs   *)
(* several steps to unregister an object; the one it is about to take is   *)
(* still the registered one when it does (TakenRegistered), since only the *)
(* hub makes objects.                                                      *)
(*                                                                         *)
(* For the other two every session is followed through all objects of the  *)
(* name (Linked, Single), the ones that ended included.  The two need what *)
(* an object that is not made or does not run yet holds (Sound), and that  *)
(* requests go to objects that were made (Typed).                          *)
(***************************************************************************)
EXTENDS TopicLifecycle, TLAPS

\* An object nobody removes without asking: it does not fail to load, and no one
\* waits for its end.
Has(o) == "phase" \in DOMAIN o /\ "deleted" \in DOMAIN o /\ "exit" \in DOMAIN o
Silent(o) == o.exit = <<>> \/ o.exit[1].done = FALSE
Fit(o) == Has(o) /\ o.phase \notin {"failing", "draining"} /\ Silent(o)
Objects == DOMAIN obj = Topics /\ \A i \in Topics : Fit(obj[i])

\* Nobody who would is there.
Alone == /\ shutdown = "no" /\ stopper.pc \in {"no", "done"}
         /\ unreg \in Seq({"timeout", "delete", "emptied"})

Serving(i) == obj[i].phase \in {"loading", "loaded", "ready", "running"} /\ ~obj[i].deleted
ServingRegistered == \A i \in Topics : Serving(i) => topic = i
TakenRegistered == /\ "pc" \in DOMAIN hub /\ "inst" \in DOMAIN hub
                   /\ hub.pc \in {"got", "delete"} => topic = hub.inst

Inv == events \cap ByName = {} =>
           /\ Objects /\ Alone /\ created \in Nat
           /\ ServingRegistered /\ TakenRegistered

-----------------------------------------------------------------------------
\* No object comes into service.
Keeps == /\ DOMAIN obj' = Topics
         /\ \A i \in Topics : Fit(obj'[i]) /\ (Serving(i)' => Serving(i))

LEMMA KeepsInv ==
    ASSUME Inv, Keeps, topic' = topic, created' = created, stopper' = stopper,
           shutdown' = shutdown, events' = events,
           unreg' \in Seq({"timeout", "delete", "emptied"}),
           "pc" \in DOMAIN hub' /\ "inst" \in DOMAIN hub',
           hub'.pc \in {"got", "delete"} => topic = hub'.inst
    PROVE  Inv'
    BY DEF Inv, Keeps, Objects, Alone, ServingRegistered, TakenRegistered

(* The objects are left alone. *)
LEMMA Untouched == Inv /\ events \cap ByName = {} /\ obj' = obj => Keeps
<1> SUFFICES ASSUME Inv, events \cap ByName = {}, obj' = obj PROVE Keeps
    OBVIOUS
<1>1. ASSUME NEW i \in Topics PROVE Serving(i)' => Serving(i)
    BY DEF Serving
<1> QED
    BY <1>1 DEF Inv, Keeps, Objects

(* One object is changed, and does not come into service. *)
LEMMA OneChanged ==
    ASSUME Inv, events \cap ByName = {}, NEW i, NEW o, obj' = [obj EXCEPT ![i] = o],
           i \in Topics => /\ Fit(o)
                           /\ o.phase \in {"loading", "loaded", "ready", "running"} /\ ~o.deleted
                                => Serving(i)
    PROVE  Keeps
<1>1. DOMAIN obj' = Topics
    BY DEF Inv, Objects
<1>2. ASSUME NEW j \in Topics PROVE obj'[j] = IF j = i THEN o ELSE obj[j]
    BY DEF Inv, Objects
<1>3. ASSUME NEW j \in Topics PROVE Serving(j)' => Serving(j)
    BY <1>2 DEF Serving
<1> QED
    BY <1>1, <1>2, <1>3 DEF Inv, Keeps, Objects

\* Two objects differ in nothing that matters here.
Alike(o, p) == DOMAIN o = DOMAIN p /\ o.phase = p.phase /\ o.deleted = p.deleted /\ o.exit = p.exit

LEMMA OtherFields ==
    ASSUME NEW o, Has(o), NEW x
    PROVE  /\ Alike([o EXCEPT !.reg = x], o) /\ Alike([o EXCEPT !.unreg = x], o)
           /\ Alike([o EXCEPT !.meta = x], o) /\ Alike([o EXCEPT !.paused = x], o)
           /\ Alike([o EXCEPT !.killTimer = x], o)
           /\ \A y : /\ Alike([o EXCEPT !.sessions = x, !.killTimer = y], o)
                     /\ Alike([o EXCEPT !.sessions = x, !.paused = y], o)
           /\ Alike([o EXCEPT !.sessions = x], o)
    BY DEF Alike, Has

LEMMA AlikeKeeps ==
    ASSUME Inv, events \cap ByName = {}, NEW i, NEW o, obj' = [obj EXCEPT ![i] = o],
           i \in Topics => Alike(o, obj[i])
    PROVE  Keeps
<1>1. i \in Topics => Fit(o)
    BY DEF Inv, Objects, Fit, Has, Silent, Alike
<1>2. i \in Topics /\ o.phase \in {"loading", "loaded", "ready", "running"} /\ ~o.deleted => Serving(i)
    BY DEF Alike, Serving
<1> QED
    BY Zenon, <1>1, <1>2, OneChanged

LEMMA HasAll == ASSUME Inv, events \cap ByName = {}, NEW i \in Topics PROVE Has(obj[i])
    BY DEF Inv, Objects, Fit

-----------------------------------------------------------------------------
\* The rest of the state is left alone.
Still == /\ topic' = topic /\ created' = created /\ stopper' = stopper
         /\ shutdown' = shutdown /\ events' = events

LEMMA StillInv ==
    ASSUME Inv, events \cap ByName = {}, Keeps, Still, hub' = hub, unreg' = unreg
    PROVE  Inv'
    BY KeepsInv DEF Still, Inv, Alone, TakenRegistered

(* What is put into the hub's queue, and taken from it. *)
LEMMA QueuePut ==
    ASSUME Inv, events \cap ByName = {}, NEW m \in {"timeout", "delete", "emptied"},
           unreg' = Append(unreg, m)
    PROVE  unreg' \in Seq({"timeout", "delete", "emptied"})
    BY DEF Inv, Alone

LEMMA QueueGet ==
    ASSUME Inv, events \cap ByName = {}, unreg # <<>>
    PROVE  /\ Tail(unreg) \in Seq({"timeout", "delete", "emptied"})
           /\ Head(unreg) \in {"timeout", "delete", "emptied"}
    BY DEF Inv, Alone

(* What sessions do. *)
LEMMA SessionInv ==
    ASSUME Inv, events \cap ByName = {}, NEW s \in Sessions,
           \/ Subscribe(s) \/ DelTopic(s) \/ CleanUp(s) \/ DetachSession(s) \/ UnsubAll(s)
           \/ \E unsub \in BOOLEAN : Leave(s, unsub)
    PROVE  Inv'
<1>1. CASE Subscribe(s) \/ CleanUp(s) \/ DetachSession(s)
  <2>1. obj' = obj /\ hub' = hub /\ unreg' = unreg /\ Still
    BY <1>1 DEF Subscribe, CleanUp, DetachSession, Still
  <2> QED
    BY <2>1, Untouched, StillInv
<1>2. CASE DelTopic(s)
  <2>1. obj' = obj /\ hub' = hub /\ Still /\ unreg' = Append(unreg, "delete")
    BY <1>2 DEF DelTopic, Still
  <2> QED
    BY <2>1, QueuePut, Untouched, KeepsInv DEF Still, Inv, TakenRegistered
<1>3. CASE UnsubAll(s) \/ \E unsub \in BOOLEAN : Leave(s, unsub)
  <2> DEFINE i == ses[s].sub
  <2>1. hub' = hub /\ unreg' = unreg /\ Still
    BY Zenon, <1>3 DEF UnsubAll, Leave, Still
  <2>2. PICK x : obj' = obj \/ obj' = [obj EXCEPT ![i].unreg = x]
    BY <1>3, Zenon DEF UnsubAll, Leave
  <2>3. CASE obj' = [obj EXCEPT ![i].unreg = x]
    <3> DEFINE o == [obj[i] EXCEPT !.unreg = x]
    <3>1. obj' = [obj EXCEPT ![i] = o]
      BY <2>3
    <3>2. i \in Topics => Alike(o, obj[i])
      BY Zenon, HasAll, OtherFields
    <3> QED
      BY Zenon, <2>1, <3>1, <3>2, AlikeKeeps, StillInv
  <2> QED
    BY Zenon, <2>1, <2>2, <2>3, Untouched, StillInv
<1> QED
    BY <1>1, <1>2, <1>3

-----------------------------------------------------------------------------
(* An object is made only when none is registered. *)
LEMMA HubJoinInv == ASSUME Inv, events \cap ByName = {}, HubJoin PROVE Inv'
<1>1. hub' = hub /\ unreg' = unreg /\ stopper' = stopper /\ shutdown' = shutdown /\ events' = events
      /\ hub.pc = "idle"
    BY DEF HubJoin, HubReady
<1>2. CASE topic = None /\ created < MaxTopics /\ created' = created + 1 /\ topic' = created + 1
           /\ obj' = [obj EXCEPT ![created + 1] =
                [Absent EXCEPT !.phase = "loading", !.paused = TRUE, !.initBy = Head(join)]]
  <2> DEFINE n == created + 1
             o == [Absent EXCEPT !.phase = "loading", !.paused = TRUE, !.initBy = Head(join)]
  <2>1. created \in Nat /\ n \in Nat
    BY DEF Inv
  <2>2. Fit(o)
    BY DEF Fit, Has, Silent, Absent
  <2> HIDE DEF o
  <2>3. DOMAIN obj' = Topics /\ \A j \in Topics : obj'[j] = IF j = n THEN o ELSE obj[j]
    BY <1>2 DEF Inv, Objects, o
  <2>4. ASSUME NEW j \in Topics, j # n PROVE ~Serving(j)'
    <3>1. ~Serving(j)
      BY <1>2, NoneAssumption, BoundsAssumption DEF Inv, ServingRegistered, Topics
    <3> QED
      BY <2>3, <2>4, <3>1 DEF Serving
  <2>5. Objects' /\ ServingRegistered'
    BY <1>2, <2>2, <2>3, <2>4 DEF Inv, Objects, ServingRegistered
  <2> QED
    BY <1>1, <1>2, <2>1, <2>5 DEF Inv, Alone, TakenRegistered
<1>3. CASE topic' = topic /\ created' = created /\ obj' = [obj EXCEPT ![topic].reg = Append(@, Head(join))]
  <2>1. PICK x : obj' = [obj EXCEPT ![topic].reg = x]
    BY <1>3, Zenon
  <2> DEFINE o == [obj[topic] EXCEPT !.reg = x]
  <2>2. obj' = [obj EXCEPT ![topic] = o]
    BY <2>1
  <2>3. topic \in Topics => Alike(o, obj[topic])
    BY Zenon, HasAll, OtherFields
  <2> QED
    BY Zenon, <1>1, <1>3, <2>2, <2>3, AlikeKeeps, StillInv DEF Still
<1>4. CASE topic' = topic /\ created' = created /\ obj' = obj
    BY <1>1, <1>4, Untouched, StillInv DEF Still
<1> QED
    BY <1>2, <1>3, <1>4 DEF HubJoin

(* The hub unregisters the object it took, which is the registered one. *)
LEMMA HubUnregisterInv == ASSUME Inv, events \cap ByName = {}, HubUnregister PROVE Inv'
<1> DEFINE i == hub.inst
           o == [obj[i] EXCEPT !.deleted = TRUE]
<1>1. /\ unreg' = unreg /\ stopper' = stopper /\ shutdown' = shutdown /\ events' = events
      /\ created' = created /\ topic = i /\ topic' = None
      /\ obj' = [obj EXCEPT ![i] = o]
    BY DEF HubUnregister, topicDel, Inv, TakenRegistered, markDeleted
<1>2. hub'.pc = "send" /\ "pc" \in DOMAIN hub' /\ "inst" \in DOMAIN hub'
    BY DEF HubUnregister, Inv, TakenRegistered
<1>3. i \in Topics => Fit(o) /\ o.deleted
    BY DEF Inv, Objects, Fit, Has, Silent
<1> HIDE DEF o
<1>4. Keeps
    BY Zenon, <1>1, <1>3, OneChanged
<1>5. ASSUME NEW j \in Topics PROVE ~Serving(j)'
  <2>1. CASE j = i
    BY <1>1, <1>3, <2>1 DEF Serving, Inv, Objects
  <2>2. CASE j # i
    BY <1>1, <1>4, <2>2 DEF Keeps, Inv, ServingRegistered
  <2> QED
    BY <2>1, <2>2
<1> QED
    BY <1>1, <1>2, <1>4, <1>5 DEF Inv, Keeps, Objects, Alone, ServingRegistered, TakenRegistered

(* The other steps of the hub. *)
LEMMA HubInv ==
    ASSUME Inv, events \cap ByName = {},
           HubUnregIdle \/ HubSendExit \/ HubDelete \/ HubDeleted \/ HubEmptied \/ HubRehash
    PROVE  Inv'
<1>0. unreg \in Seq({"timeout", "delete", "emptied"}) /\ TakenRegistered
    BY DEF Inv, Alone
<1>1. CASE HubUnregIdle
  <2>1. obj' = obj /\ Still /\ unreg # <<>> /\ unreg' = Tail(unreg)
    BY <1>1 DEF HubUnregIdle, Still
  <2>2. hub' = hub \/ hub' = [pc |-> "got", inst |-> topic, reason |-> "none"]
    BY <1>1 DEF HubUnregIdle
  <2> QED
    BY <1>0, <2>1, <2>2, QueueGet, Untouched, KeepsInv DEF Still, TakenRegistered
<1>2. CASE HubSendExit
  <2> DEFINE i == hub.inst
             o == [obj[i] EXCEPT !.exit = <<[reason |-> hub.reason, done |-> FALSE]>>]
  <2>1. obj' = [obj EXCEPT ![i] = o] /\ Still /\ unreg' = unreg /\ hub' = Idle
    BY <1>2 DEF HubSendExit, Still
  <2>2. i \in Topics => Fit(o) /\ o.phase = obj[i].phase /\ o.deleted = obj[i].deleted
    BY DEF Inv, Objects, Fit, Has, Silent
  <2> HIDE DEF o
  <2>3. Keeps
    BY Zenon, <2>1, <2>2, OneChanged DEF Serving
  <2> QED
    BY <1>0, <2>1, <2>3, KeepsInv DEF Still, Idle
<1>3. CASE HubDelete \/ HubEmptied
  <2>1. Still /\ unreg # <<>> /\ unreg' = Tail(unreg)
    BY <1>3 DEF HubDelete, HubEmptied, Still
  <2>2. \/ hub' = hub
        \/ hub' = [pc |-> "delete", inst |-> topic, reason |-> "deleted"]
        \/ hub' = [Idle EXCEPT !.pc = "panic"]
    BY <1>3 DEF HubDelete, HubEmptied
  <2>3. /\ "pc" \in DOMAIN hub' /\ "inst" \in DOMAIN hub'
        /\ hub'.pc \in {"got", "delete"} => topic = hub'.inst
    BY <1>0, <2>2 DEF TakenRegistered, Idle
  <2>4. \/ obj' = obj
        \/ obj' = [obj EXCEPT ![topic].paused = TRUE]
        \/ obj' = [obj EXCEPT ![topic].meta = TRUE]
    BY <1>3 DEF HubDelete, HubEmptied
  <2>5. PICK o : obj' = obj \/ (obj' = [obj EXCEPT ![topic] = o] /\ (topic \in Topics => Alike(o, obj[topic])))
    <3>1. CASE obj' = [obj EXCEPT ![topic].paused = TRUE]
      <4>1. obj' = [obj EXCEPT ![topic] = [obj[topic] EXCEPT !.paused = TRUE]]
        BY <3>1
      <4>2. topic \in Topics => Alike([obj[topic] EXCEPT !.paused = TRUE], obj[topic])
        BY Zenon, HasAll, OtherFields
      <4> QED
        BY ONLY <4>1, <4>2, Zenon
    <3>2. CASE obj' = [obj EXCEPT ![topic].meta = TRUE]
      <4>1. obj' = [obj EXCEPT ![topic] = [obj[topic] EXCEPT !.meta = TRUE]]
        BY Zenon, <3>2
      <4>2. topic \in Topics => Alike([obj[topic] EXCEPT !.meta = TRUE], obj[topic])
        BY Zenon, HasAll, OtherFields
      <4> QED
        BY ONLY <4>1, <4>2, Zenon
    <3> QED
      BY <2>4, <3>1, <3>2
  <2>6. Keeps
    BY <2>5, Untouched, AlikeKeeps
  <2> QED
    BY <2>1, <2>3, <2>6, QueueGet, KeepsInv DEF Still
<1>4. CASE HubDeleted
  <2>1. Still /\ unreg' = unreg /\ hub.pc = "delete"
    BY <1>4 DEF HubDeleted, Still
  <2>2. CASE obj' = obj /\ hub' = [hub EXCEPT !.pc = "got"]
    <3>1. "pc" \in DOMAIN hub' /\ "inst" \in DOMAIN hub' /\ hub'.inst = topic
      BY <1>0, <2>1, <2>2 DEF TakenRegistered
    <3> QED
      BY <1>0, <2>1, <2>2, <3>1, Untouched, KeepsInv DEF Still
  <2>3. CASE obj' = [obj EXCEPT ![hub.inst].paused = FALSE] /\ hub' = Idle
    <3> DEFINE o == [obj[hub.inst] EXCEPT !.paused = FALSE]
    <3>1. obj' = [obj EXCEPT ![hub.inst] = o]
      BY Zenon, <2>3
    <3>2. hub.inst \in Topics => Alike(o, obj[hub.inst])
      BY Zenon, HasAll, OtherFields
    <3>3. Keeps
      BY Zenon, <3>1, <3>2, AlikeKeeps
    <3> QED
      BY <1>0, <2>1, <2>3, <3>3, KeepsInv DEF Still, Idle
  <2> QED
    BY <1>4, <2>2, <2>3 DEF HubDeleted
<1>5. CASE HubRehash
  <2>1. obj' = obj /\ Still /\ unreg' = unreg
        /\ hub' = [pc |-> "got", inst |-> topic, reason |-> "rehash"]
    BY <1>5 DEF HubRehash, Still
  <2> QED
    BY <1>0, <2>1, Untouched, KeepsInv DEF Still
<1> QED
    BY <1>1, <1>2, <1>3, <1>4, <1>5

-----------------------------------------------------------------------------
(* topicInit: an object that is not deleted goes on, another one ends. *)
LEMMA InitInv == ASSUME Inv, events \cap ByName = {}, NEW i \in Topics, InitStep(i) PROVE Inv'
<1>0. Fit(obj[i]) /\ shutdown = "no" /\ "loaderror" \notin events
    BY DEF Inv, Objects, Alone, ByName
<1>1. ~InitFailed(i) /\ ~InitDrain(i)
    BY <1>0 DEF InitFailed, InitDrain, Fit
<1>2. Still /\ hub' = hub /\ unreg' = unreg
    BY <1>0, <1>1 DEF InitStep, Load, InitAbort, InitReady, InitRun, Still
<1>3. CASE Load(i)
  <2> DEFINE o == [obj[i] EXCEPT !.phase = "loaded"]
  <2>1. obj' = [obj EXCEPT ![i] = o] /\ obj[i].phase = "loading"
    BY <1>0, <1>3 DEF Load
  <2>2. Fit(o) /\ o.phase = "loaded" /\ o.deleted = obj[i].deleted
    BY <1>0 DEF Fit, Has, Silent
  <2> HIDE DEF o
  <2> QED
    BY Zenon, <1>2, <2>1, <2>2, OneChanged, StillInv DEF Serving
<1>4. CASE InitAbort(i)
  <2> DEFINE o == [obj[i] EXCEPT !.phase = "ended"]
  <2>1. obj' = [obj EXCEPT ![i] = o]
    BY <1>4 DEF InitAbort
  <2>2. Fit(o) /\ o.phase = "ended"
    BY <1>0 DEF Fit, Has, Silent
  <2> HIDE DEF o
  <2> QED
    BY Zenon, <1>2, <2>1, <2>2, OneChanged, StillInv
<1>5. CASE InitReady(i)
  <2>1. PICK x : obj' = [obj EXCEPT ![i].phase = "ready", ![i].reg = x]
    BY <1>5, Zenon DEF InitReady
  <2> DEFINE o == [obj[i] EXCEPT !.phase = "ready", !.reg = x]
  <2>2. obj' = [obj EXCEPT ![i] = o]
    BY Zenon, <2>1 DEF Inv, Objects
  <2>3. Fit(o) /\ o.phase = "ready" /\ o.deleted = obj[i].deleted
    BY <1>0 DEF Fit, Has, Silent
  <2> HIDE DEF o
  <2> QED
    BY Zenon, <1>2, <1>5, <2>2, <2>3, OneChanged, StillInv DEF Serving, InitReady
<1>6. CASE InitRun(i)
  <2> DEFINE o == [obj[i] EXCEPT !.phase = "running", !.paused = FALSE]
  <2>1. obj' = [obj EXCEPT ![i] = o]
    BY Zenon, <1>6 DEF InitRun, Inv, Objects
  <2>2. Fit(o) /\ o.phase = "running" /\ o.deleted = obj[i].deleted
    BY <1>0 DEF Fit, Has, Silent
  <2> HIDE DEF o
  <2> QED
    BY Zenon, <1>2, <1>6, <2>1, <2>2, OneChanged, StillInv DEF Serving, InitRun
<1> QED
    BY <1>1, <1>3, <1>4, <1>5, <1>6 DEF InitStep

(* runLocal: sessions come and go. *)
LEMMA TimerAlike == ASSUME NEW o, Has(o) PROVE Alike(StartTimer(o), o)
<1>1. CASE StartTimer(o) = o
    BY <1>1 DEF Alike
<1>2. CASE StartTimer(o) = [o EXCEPT !.killTimer = TRUE]
    BY Zenon, <1>2, OtherFields
<1> QED
    BY <1>1, <1>2 DEF StartTimer

LEMMA AlikeTrans ==
    ASSUME NEW o, NEW p, NEW q, Alike(o, p), Alike(p, q) PROVE Alike(o, q)
    BY DEF Alike

LEMMA AlikeHas == ASSUME NEW o, NEW p, Alike(o, p), Has(p) PROVE Has(o)
    BY DEF Alike, Has

LEMMA TopicInv == ASSUME Inv, events \cap ByName = {}, NEW i \in Topics, TopicStep(i) PROVE Inv'
<1>0. Fit(obj[i]) /\ Has(obj[i]) /\ unreg \in Seq({"timeout", "delete", "emptied"}) /\ TakenRegistered
    BY DEF Inv, Objects, Alone, Fit
<1>1. CASE RegisterSession(i)
  <2>1. Still /\ hub' = hub /\ unreg' = unreg
    BY Zenon, <1>1 DEF RegisterSession, Still
  <2> DEFINE took == [obj[i] EXCEPT !.reg = Tail(@)]
             in == [took EXCEPT !.sessions = @ \cup {Head(obj[i].reg)}, !.killTimer = FALSE]
             off == [took EXCEPT !.killTimer = FALSE]
  <2>2. \/ obj' = [obj EXCEPT ![i] = took]
        \/ obj' = [obj EXCEPT ![i] = in]
        \/ obj' = [obj EXCEPT ![i] = StartTimer(off)]
    BY Zenon, <1>1 DEF RegisterSession
  <2>3. Alike(took, obj[i])
    BY Zenon, <1>0, OtherFields
  <2>4. Has(took)
    BY Zenon, <1>0, <2>3, AlikeHas
  <2> HIDE DEF took
  <2>5. Alike(in, took) /\ Alike(off, took)
    BY Zenon, <2>4, OtherFields
  <2>6. Has(off)
    BY <2>4, <2>5, AlikeHas
  <2> HIDE DEF in, off
  <2>7. Alike(StartTimer(off), off)
    BY <2>6, TimerAlike
  <2>8. Alike(in, obj[i]) /\ Alike(StartTimer(off), obj[i])
    BY <2>3, <2>5, <2>7, AlikeTrans
  <2> QED
    BY Zenon, <2>1, <2>2, <2>3, <2>8, AlikeKeeps, StillInv
<1>2. CASE UnregisterSession(i)
  <2>1. Still /\ hub' = hub /\ (unreg' = unreg \/ unreg' = Append(unreg, "emptied"))
    BY Zenon, <1>2 DEF UnregisterSession, Still
  <2> DEFINE took == [obj[i] EXCEPT !.unreg = Tail(@)]
             out == [took EXCEPT !.sessions = @ \ {Head(obj[i].unreg).sess}]
  <2>2. \/ obj' = [obj EXCEPT ![i] = StartTimer(took)]
        \/ obj' = [obj EXCEPT ![i] = StartTimer(Emptied(took))]
        \/ obj' = [obj EXCEPT ![i] = StartTimer(out)]
    BY Zenon, <1>2 DEF UnregisterSession
  <2>3. Alike(took, obj[i])
    BY Zenon, <1>0, OtherFields
  <2>4. Has(took)
    BY Zenon, <1>0, <2>3, AlikeHas
  <2> HIDE DEF took
  <2>5. Alike(Emptied(took), took) /\ Alike(out, took)
    BY Zenon, <2>4, OtherFields DEF Emptied
  <2>6. Has(Emptied(took)) /\ Has(out)
    BY <2>4, <2>5, AlikeHas
  <2> HIDE DEF out
  <2>7. /\ Alike(StartTimer(took), took) /\ Alike(StartTimer(out), out)
        /\ Alike(StartTimer(Emptied(took)), Emptied(took))
    BY <2>4, <2>6, TimerAlike
  <2>8. /\ Alike(StartTimer(took), obj[i]) /\ Alike(StartTimer(out), obj[i])
        /\ Alike(StartTimer(Emptied(took)), obj[i])
    BY <2>3, <2>5, <2>7, AlikeTrans
  <2>9. Keeps
    BY <2>2, <2>8, AlikeKeeps
  <2>10. unreg' \in Seq({"timeout", "delete", "emptied"})
    BY <1>0, <2>1, QueuePut
  <2> QED
    BY Zenon, <1>0, <2>1, <2>9, <2>10, KeepsInv DEF Still, TakenRegistered
<1>3. CASE DelTopicMeta(i)
  <2>1. Still /\ hub' = hub /\ unreg' = Append(unreg, "emptied")
    BY <1>3 DEF DelTopicMeta, Still
  <2> DEFINE e == Emptied(obj[i])
             o == [e EXCEPT !.meta = FALSE]
  <2>2. obj' = [obj EXCEPT ![i] = o]
    BY Zenon, <1>3 DEF DelTopicMeta
  <2>3. Alike(e, obj[i])
    BY Zenon, <1>0, OtherFields DEF Emptied
  <2>4. Has(e)
    BY Zenon, <1>0, <2>3, AlikeHas
  <2> HIDE DEF e
  <2>5. Alike(o, obj[i])
    BY Zenon, <2>3, <2>4, OtherFields, AlikeTrans
  <2>6. Keeps
    BY Zenon, <2>2, <2>5, AlikeKeeps
  <2> QED
    BY <1>0, <2>1, <2>6, QueuePut, KeepsInv DEF Still, TakenRegistered
<1>4. CASE TopicTimeout(i)
  <2> DEFINE o == [obj[i] EXCEPT !.killTimer = FALSE]
  <2>1. Still /\ hub' = hub /\ unreg' = Append(unreg, "timeout") /\ obj' = [obj EXCEPT ![i] = o]
    BY <1>4 DEF TopicTimeout, Still
  <2>2. Alike(o, obj[i])
    BY Zenon, <1>0, OtherFields
  <2>3. Keeps
    BY Zenon, <2>1, <2>2, AlikeKeeps
  <2> QED
    BY <1>0, <2>1, <2>3, QueuePut, KeepsInv DEF Still, TakenRegistered
<1>5. CASE TopicTermination(i)
  <2> DEFINE o == [obj[i] EXCEPT !.phase = "ended", !.exit = <<>>, !.killTimer = FALSE]
  <2>1. Still /\ hub' = hub /\ unreg' = unreg
    BY <1>0, <1>5 DEF TopicTermination, Reported, Still, Fit, Silent
  <2>2. obj' = [obj EXCEPT ![i] = o]
    BY Zenon, <1>5 DEF TopicTermination, Inv, Objects
  <2>3. Fit(o) /\ o.phase = "ended"
    BY <1>0 DEF Fit, Has, Silent
  <2> HIDE DEF o
  <2> QED
    BY Zenon, <2>1, <2>2, <2>3, OneChanged, StillInv
<1> QED
    BY <1>1, <1>2, <1>3, <1>4, <1>5 DEF TopicStep

-----------------------------------------------------------------------------
LEMMA Step == Inv /\ [Next]_vars => Inv'
<1> SUFFICES ASSUME Inv, [Next]_vars PROVE Inv'
    OBVIOUS
<1>1. events' = events
  <2>1. CASE UNCHANGED vars \/ HubStep \/ StopperStep
    BY Zenon, <2>1 DEF vars, HubStep, StopperStep, HubJoin, HubUnregIdle, HubUnregister,
                HubSendExit, HubDelete, HubDeleted, HubEmptied, HubDelUser, HubShutdown, StopperLook,
                StopperDrop, StopperSendExit
  <2>2. CASE Environment
    BY Zenon, <2>2 DEF Environment, HubRehash, DelUser, ShutdownAsk, Subscribe, DelTopic,
                CleanUp, Leave
  <2>3. ASSUME NEW i \in Topics, InitStep(i) \/ TopicStep(i) PROVE events' = events
    BY Zenon, <2>3 DEF InitStep, TopicStep, Load, InitFailed, InitDrain, InitAbort, InitReady,
                InitRun, RegisterSession, UnregisterSession, DelTopicMeta, TopicTimeout, TopicTermination
  <2>4. ASSUME NEW s \in Sessions, SessionStep(s) PROVE events' = events
    BY <2>4 DEF SessionStep, DetachSession, UnsubAll
  <2> QED
    BY <2>1, <2>2, <2>3, <2>4 DEF Next
<1>2. CASE events \cap ByName # {}
    BY <1>1, <1>2 DEF Inv
<1>3. CASE events \cap ByName = {}
  <2>1. /\ "deluser" \notin events /\ "shutdown" \notin events
        /\ shutdown = "no" /\ stopper.pc \in {"no", "done"}
        /\ unreg # <<>> => Head(unreg) # "deluser"
    BY <1>3, QueueGet DEF Inv, Alone, ByName
  <2>2. ~HubDelUser /\ ~HubShutdown /\ ~StopperStep /\ ~DelUser /\ ~ShutdownAsk
    BY <2>1 DEF HubDelUser, HubShutdown, StopperStep, StopperLook, StopperDrop, StopperSendExit,
                DelUser, ShutdownAsk
  <2>3. CASE UNCHANGED vars
    <3>1. obj' = obj /\ hub' = hub /\ unreg' = unreg /\ Still
      BY <2>3 DEF vars, Still
    <3> QED
      BY <1>3, <3>1, Untouched, StillInv
  <2>4. CASE HubStep \/ HubRehash
    BY <1>3, <2>2, <2>4, HubJoinInv, HubUnregisterInv, HubInv DEF HubStep
  <2>5. ASSUME NEW s \in Sessions,
               \/ Subscribe(s) \/ DelTopic(s) \/ CleanUp(s) \/ SessionStep(s)
               \/ \E unsub \in BOOLEAN : Leave(s, unsub)
        PROVE  Inv'
    BY <1>3, <2>5, SessionInv DEF SessionStep
  <2>6. ASSUME NEW i \in Topics, InitStep(i) \/ TopicStep(i) PROVE Inv'
    BY <1>3, <2>6, InitInv, TopicInv
  <2> QED
    BY <2>2, <2>3, <2>4, <2>5, <2>6 DEF Next, Environment
<1> QED
    BY <1>2, <1>3

LEMMA Start == Init => Inv
<1> SUFFICES ASSUME Init PROVE Inv
    OBVIOUS
<1>1. DOMAIN obj = Topics /\ \A i \in Topics : obj[i] = Absent
    BY DEF Init
<1>2. Fit(Absent) /\ Absent.phase = "absent"
    BY DEF Fit, Has, Silent, Absent
<1>3. Objects /\ ServingRegistered
    BY <1>1, <1>2 DEF Objects, ServingRegistered, Serving
<1>4. shutdown = "no" /\ stopper.pc = "no" /\ unreg = <<>> /\ created = 0 /\ hub = Idle
    BY DEF Init
<1> QED
    BY <1>3, <1>4 DEF Inv, Alone, TakenRegistered, Idle

(* One object at a time serves a topic name, however the hub, the loaders, the
   topics and the sessions interleave, unless a name is removed without asking
   whose it is. *)
THEOREM OneServes == Spec => []LiveIsRegistered
<1>1. Inv => LiveIsRegistered
    BY DEF Inv, LiveIsRegistered, ServingRegistered, Serving, isInactive
<1> QED
    BY <1>1, Step, Start, PTL DEF Spec

-----------------------------------------------------------------------------
(* What a step does to the parts of objects and sessions that say who is   *)
(* attached where and which requests are pending.                          *)
Whole(o) == DOMAIN o = {"phase", "paused", "deleted", "initBy", "reg", "unreg", "meta", "exit",
                        "sessions", "killTimer"}
Is(o, phase, initBy, reg, unr, attached) ==
    /\ Whole(o)
    /\ o.phase = phase /\ o.initBy = initBy /\ o.reg = reg /\ o.unreg = unr
    /\ o.sessions = attached
Same(o, p) == Is(o, p.phase, p.initBy, p.reg, p.unreg, p.sessions)

WholeSession(x) == DOMAIN x = {"conn", "inflight", "awaiting", "sub", "detach"}
IsSession(x, conn, inflight, sub, detach) ==
    /\ WholeSession(x)
    /\ x.conn = conn /\ x.inflight = inflight /\ x.sub = sub /\ x.detach = detach

Shape == /\ DOMAIN obj = Topics /\ \A i \in Topics : Whole(obj[i])
         /\ DOMAIN ses = Sessions /\ \A s \in Sessions : WholeSession(ses[s])

LEMMA FieldSet ==
    ASSUME NEW o, Whole(o), NEW x
    PROVE  /\ Is([o EXCEPT !.phase = x], x, o.initBy, o.reg, o.unreg, o.sessions)
           /\ Is([o EXCEPT !.reg = x], o.phase, o.initBy, x, o.unreg, o.sessions)
           /\ Is([o EXCEPT !.unreg = x], o.phase, o.initBy, o.reg, x, o.sessions)
           /\ Is([o EXCEPT !.sessions = x], o.phase, o.initBy, o.reg, o.unreg, x)
           /\ Same([o EXCEPT !.paused = x], o) /\ Same([o EXCEPT !.deleted = x], o)
           /\ Same([o EXCEPT !.meta = x], o) /\ Same([o EXCEPT !.exit = x], o)
           /\ Same([o EXCEPT !.killTimer = x], o)
    BY DEF Whole, Is, Same

LEMMA SessionFieldSet ==
    ASSUME NEW o, WholeSession(o), NEW x, NEW y
    PROVE  /\ IsSession([o EXCEPT !.inflight = x, !.awaiting = y], o.conn, x, o.sub, o.detach)
           /\ IsSession([o EXCEPT !.inflight = x], o.conn, x, o.sub, o.detach)
           /\ IsSession([o EXCEPT !.awaiting = x], o.conn, o.inflight, o.sub, o.detach)
           /\ IsSession([o EXCEPT !.detach = x, !.sub = y], o.conn, o.inflight, y, x)
           /\ IsSession([o EXCEPT !.conn = x, !.detach = y], x, o.inflight, o.sub, y)
           /\ IsSession([o EXCEPT !.conn = x], x, o.inflight, o.sub, o.detach)
           /\ IsSession([o EXCEPT !.sub = x], o.conn, o.inflight, x, o.detach)
           /\ IsSession([o EXCEPT !.detach = x], o.conn, o.inflight, o.sub, x)
    BY DEF WholeSession, IsSession

\* One object, one session is changed.
Others(i) == DOMAIN obj' = Topics /\ \A j \in Topics : j # i => obj'[j] = obj[j]
Rest(s) == DOMAIN ses' = Sessions /\ \A x \in Sessions : x # s => ses'[x] = ses[x]

LEMMA ObjectSet ==
    ASSUME Shape, NEW i, NEW o, obj' = [obj EXCEPT ![i] = o]
    PROVE  Others(i) /\ (i \in Topics => obj'[i] = o)
    BY DEF Shape, Others

LEMMA SessionSet ==
    ASSUME Shape, NEW s, NEW x, ses' = [ses EXCEPT ![s] = x]
    PROVE  Rest(s) /\ (s \in Sessions => ses'[s] = x)
    BY DEF Shape, Rest

LEMMA SameItself == ASSUME NEW o, Whole(o) PROVE Same(o, o)
    BY DEF Same, Is

-----------------------------------------------------------------------------
(* The types, and what an object that is not made or does not run yet holds. *)
Sound(o) ==
    /\ Whole(o) /\ o.reg \in Seq(Sessions) /\ o.unreg \in Seq(LeaveMsg)
    /\ IF o.phase = "absent" THEN o.reg = <<>> /\ o.unreg = <<>> ELSE o.initBy \in Sessions
    /\ o.phase \notin {"running", "ended"} => o.sessions = {}
Made(i) == i \in Topics /\ obj[i].phase # "absent"

Typed ==
    /\ Shape /\ \A i \in Topics : Sound(obj[i])
    /\ join \in Seq(Sessions)
    /\ topic = None \/ Made(topic)
    /\ \A s \in Sessions : /\ ses[s].sub = None \/ Made(ses[s].sub)
                           /\ ses[s].detach \subseteq Topics
    /\ created \in Nat /\ \A i \in Topics : i > created => ~Made(i)

(* The session is attached to the object whose goroutine serves it. *)
Serves(o, s) == s \in o.sessions /\ o.phase = "running"
Linked(s) ==
    \A i \in Topics :
        /\ Serves(obj[i], s) => ses[s].sub = i
        /\ i \in ses[s].detach => ses[s].sub = i /\ ~Serves(obj[i], s)
        /\ ses[s].conn = "open" /\ ses[s].sub = i => i \in ses[s].detach \/ Serves(obj[i], s)

(* A request of the session is in the queue: Seen; no second one is: Once. *)
Seen(q, S) == \E n \in DOMAIN q : q[n] \in S
Once(q, S) == \A m, n \in DOMAIN q : q[m] \in S /\ q[n] \in S => m = n
Mine(s) == {m \in LeaveMsg : m.sess = s /\ m.init}

(* The object was made for the session's request and loads. *)
Loads(o, s) == o.initBy = s /\ o.phase \in Initialising
Holds(o, s) == Seen(o.reg, {s}) \/ Seen(o.unreg, Mine(s)) \/ Loads(o, s)
Neat(o, s) ==
    /\ Once(o.reg, {s}) /\ Once(o.unreg, Mine(s))
    /\ ~(Seen(o.reg, {s}) /\ Seen(o.unreg, Mine(s)))
    /\ Loads(o, s) => ~Seen(o.reg, {s}) /\ ~Seen(o.unreg, Mine(s))

(* One request of the session is in one place, or none anywhere. *)
Single(s) ==
    /\ Once(join, {s})
    /\ \A i \in Topics : Neat(obj[i], s) /\ ~(Seen(join, {s}) /\ Holds(obj[i], s))
    /\ \A i, j \in Topics : Holds(obj[i], s) /\ Holds(obj[j], s) => i = j
    /\ ses[s].inflight <=> (Seen(join, {s}) \/ \E i \in Topics : Holds(obj[i], s))

Kept == Typed /\ \A s \in Sessions : Linked(s) /\ Single(s)

-----------------------------------------------------------------------------
(* The frame: one object and the queue of the hub change. *)
LEMMA TypedFrame ==
    ASSUME Typed, NEW i, Others(i),
           i \in Topics => Sound(obj'[i]) /\ (Made(i) => obj'[i].phase # "absent"),
           i \in Topics => (i > created' => obj'[i].phase = "absent"),
           DOMAIN ses' = Sessions,
           \A s \in Sessions : WholeSession(ses'[s]) /\ ses'[s].detach \subseteq Topics
                /\ ses'[s].sub \in {ses[s].sub, None} \cup (IF Made(i) THEN {i} ELSE {}),
           join' \in Seq(Sessions), created' \in Nat, created' >= created,
           topic' = topic \/ topic' = None \/ (topic' = i /\ Made(i)')
    PROVE  Typed'
<1>1. ASSUME NEW j, Made(j) PROVE j \in Topics /\ obj'[j].phase # "absent"
    BY <1>1 DEF Made, Others
<1>2. Shape' /\ \A j \in Topics : Sound(obj'[j])
  <2>1. \A j \in Topics : Sound(obj'[j])
    BY DEF Typed, Others
  <2> QED
    BY <2>1 DEF Shape, Others, Sound
<1>3. (topic = None \/ Made(topic))'
  <2>1. CASE topic' = topic
    BY Zenon, <1>1, <2>1 DEF Typed, Made
  <2> QED
    BY <2>1 DEF Made
<1>4. ASSUME NEW s \in Sessions PROVE (ses[s].sub = None \/ Made(ses[s].sub))'
  <2>1. ses[s].sub = None \/ Made(ses[s].sub)
    BY DEF Typed
  <2>2. ses'[s].sub = None \/ Made(ses'[s].sub)
    BY <2>1
  <2> QED
    BY <1>1, <2>2 DEF Made
<1>5. ASSUME NEW j \in Topics, j > created' PROVE ~Made(j)'
  <2>1. j > created
    BY <1>5 DEF Typed, Topics
  <2> QED
    BY <1>5, <2>1 DEF Typed, Made, Others
<1> QED
    BY <1>2, <1>3, <1>4, <1>5 DEF Typed

LEMMA LinkedFrame ==
    ASSUME NEW s \in Sessions, Linked(s), NEW i, Others(i),
           i \in Topics => (Serves(obj'[i], s) <=> Serves(obj[i], s)),
           ses'[s].sub = ses[s].sub, ses'[s].detach \subseteq ses[s].detach,
           ses'[s].conn = "open" => ses[s].conn = "open" /\ ses'[s].detach = ses[s].detach
    PROVE  Linked(s)'
<1>1. ASSUME NEW j \in Topics PROVE Serves(obj'[j], s) <=> Serves(obj[j], s)
    BY Zenon DEF Others
<1> QED
    BY <1>1 DEF Linked

LEMMA SingleFrame ==
    ASSUME NEW s \in Sessions, Single(s), NEW i, Others(i), Once(join', {s}),
           Seen(join', {s}) <=> Seen(join, {s}),
           i \in Topics => Neat(obj'[i], s) /\ (Holds(obj'[i], s) <=> Holds(obj[i], s)),
           ses'[s].inflight <=> ses[s].inflight
    PROVE  Single(s)'
<1>1. ASSUME NEW j \in Topics PROVE Neat(obj'[j], s) /\ (Holds(obj'[j], s) <=> Holds(obj[j], s))
    BY Zenon DEF Others, Single
<1> QED
    BY <1>1 DEF Single

(* The session's request was here, or nowhere; now it is here, or nowhere. *)
LEMMA SingleMoves ==
    ASSUME NEW s \in Sessions, Single(s), NEW i, Others(i), Once(join', {s}),
           Seen(join, {s}) \/ (i \in Topics /\ Holds(obj[i], s)) \/ ~ses[s].inflight,
           i \in Topics => Neat(obj'[i], s) /\ ~(Seen(join', {s}) /\ Holds(obj'[i], s)),
           ses'[s].inflight <=> (Seen(join', {s}) \/ (i \in Topics /\ Holds(obj'[i], s)))
    PROVE  Single(s)'
<1>1. ASSUME NEW j \in Topics, j # i PROVE Neat(obj'[j], s) /\ ~Holds(obj'[j], s)
    BY <1>1 DEF Others, Single
<1>2. ASSUME NEW j \in Topics PROVE Neat(obj'[j], s) /\ (Holds(obj'[j], s) => j = i)
    BY <1>1
<1> QED
    BY Zenon, <1>2 DEF Single

-----------------------------------------------------------------------------
(* What the operations on queues do to a request. *)
LEMMA EmptyQueue == ASSUME NEW S PROVE ~Seen(<<>>, S) /\ Once(<<>>, S)
    BY DEF Seen, Once

LEMMA Put ==
    ASSUME NEW T, NEW q \in Seq(T), NEW x \in T, NEW S
    PROVE  /\ Append(q, x) \in Seq(T)
           /\ Seen(Append(q, x), S) <=> Seen(q, S) \/ x \in S
           /\ Once(q, S) /\ ~(Seen(q, S) /\ x \in S) => Once(Append(q, x), S)
<1> DEFINE r == Append(q, x)
<1>1. /\ r \in Seq(T) /\ Len(q) \in Nat /\ DOMAIN q = 1..Len(q) /\ DOMAIN r = 1..(Len(q) + 1)
      /\ r[Len(q) + 1] = x /\ \A n \in DOMAIN q : r[n] = q[n]
    OBVIOUS
<1> HIDE DEF r
<1>2. ASSUME NEW n \in DOMAIN r PROVE n \in DOMAIN q \/ n = Len(q) + 1
    BY <1>1
<1>3. Seen(r, S) <=> Seen(q, S) \/ x \in S
    BY <1>1, <1>2 DEF Seen
<1>4. ASSUME Once(q, S), ~(Seen(q, S) /\ x \in S) PROVE Once(r, S)
    BY <1>1, <1>2, <1>4 DEF Seen, Once
<1> QED
    BY <1>1, <1>3, <1>4 DEF r

LEMMA Get ==
    ASSUME NEW T, NEW q \in Seq(T), q # <<>>, NEW S, Once(q, S)
    PROVE  /\ Head(q) \in T /\ Tail(q) \in Seq(T)
           /\ Once(Tail(q), S)
           /\ Seen(Tail(q), S) <=> Seen(q, S) /\ Head(q) \notin S
           /\ Head(q) \in S => Seen(q, S)
<1> DEFINE r == Tail(q)
<1>1. /\ Len(q) \in Nat \ {0} /\ DOMAIN q = 1..Len(q) /\ r \in Seq(T)
      /\ DOMAIN r = 1..(Len(q) - 1) /\ \A n \in DOMAIN r : r[n] = q[n + 1]
      /\ Head(q) = q[1] /\ q[1] \in T
    OBVIOUS
<1> HIDE DEF r
<1>2. ASSUME NEW n \in DOMAIN r PROVE n + 1 \in DOMAIN q /\ n + 1 # 1 /\ n \in Nat
    BY <1>1
<1>3. ASSUME NEW n \in DOMAIN q PROVE n = 1 \/ (n - 1 \in DOMAIN r /\ n = (n - 1) + 1)
    BY <1>1
<1>4. Once(r, S)
    BY <1>1, <1>2 DEF Once
<1>5. ASSUME Seen(q, S), Head(q) \notin S PROVE Seen(r, S)
    BY <1>1, <1>3, <1>5 DEF Seen
<1>6. ASSUME Seen(r, S) PROVE Seen(q, S) /\ Head(q) \notin S
    BY <1>1, <1>2, <1>6 DEF Seen, Once
<1>7. Head(q) \in S => Seen(q, S)
    BY <1>1 DEF Seen
<1> QED
    BY <1>1, <1>4, <1>5, <1>6, <1>7 DEF r

LEMMA Join ==
    ASSUME NEW T, NEW p \in Seq(T), NEW q \in Seq(T), NEW S
    PROVE  /\ p \o q \in Seq(T)
           /\ Seen(p \o q, S) <=> Seen(p, S) \/ Seen(q, S)
           /\ Once(p, S) /\ Once(q, S) /\ ~(Seen(p, S) /\ Seen(q, S)) => Once(p \o q, S)
<1> DEFINE r == p \o q
           k == Len(p)
<1>1. /\ r \in Seq(T) /\ k \in Nat /\ Len(q) \in Nat /\ DOMAIN p = 1..k
      /\ DOMAIN q = 1..Len(q) /\ DOMAIN r = 1..(k + Len(q))
      /\ \A n \in DOMAIN r : r[n] = IF n <= k THEN p[n] ELSE q[n - k]
    OBVIOUS
<1> HIDE DEF r, k
<1>2. ASSUME NEW n \in DOMAIN r
      PROVE  \/ n \in DOMAIN p /\ r[n] = p[n]
             \/ n - k \in DOMAIN q /\ r[n] = q[n - k] /\ n = (n - k) + k
    BY <1>1
<1>3. ASSUME NEW n \in DOMAIN p PROVE n \in DOMAIN r /\ r[n] = p[n]
    BY <1>1
<1>4. ASSUME NEW n \in DOMAIN q PROVE n + k \in DOMAIN r /\ r[n + k] = q[n]
    BY <1>1
<1>5. Seen(r, S) <=> Seen(p, S) \/ Seen(q, S)
    BY <1>2, <1>3, <1>4 DEF Seen
<1>6. ASSUME Once(p, S), Once(q, S), ~(Seen(p, S) /\ Seen(q, S)) PROVE Once(r, S)
    BY Zenon, <1>2, <1>6 DEF Seen, Once
<1> QED
    BY Zenon, <1>1, <1>5, <1>6 DEF r

-----------------------------------------------------------------------------
(* Steps that change neither who is attached nor what is requested. *)
LEMMA SameParts ==
    ASSUME NEW o, NEW p, Sound(o), Same(p, o)
    PROVE  /\ Sound(p) /\ p.phase = o.phase
           /\ \A s : /\ Serves(p, s) <=> Serves(o, s)
                     /\ Neat(p, s) <=> Neat(o, s)
                     /\ Holds(p, s) <=> Holds(o, s)
    BY DEF Same, Is, Sound, Serves, Neat, Holds, Loads

LEMMA QuietFrame ==
    ASSUME Kept, NEW i, Others(i), i \in Topics => Same(obj'[i], obj[i]),
           ses' = ses, join' = join, created' = created, topic' = topic \/ topic' = None
    PROVE  Kept'
<1>1. i \in Topics => Sound(obj[i])
    BY DEF Kept, Typed
<1>2. Typed'
  <2>1. Typed /\ Shape
    BY DEF Kept, Typed
  <2>2. \A s \in Sessions : WholeSession(ses'[s]) /\ ses'[s].sub = ses[s].sub
                                /\ ses'[s].detach \subseteq Topics
    BY <2>1 DEF Shape, Typed
  <2>3. DOMAIN ses' = Sessions /\ join' \in Seq(Sessions) /\ created' \in Nat /\ created' >= created
    BY <2>1 DEF Typed, Shape
  <2>4. i \in Topics => /\ Sound(obj'[i]) /\ (Made(i) => obj'[i].phase # "absent")
                        /\ i > created' => obj'[i].phase = "absent"
    BY Zenon, <1>1, <2>1, SameParts DEF Typed, Made
  <2> QED
    BY Zenon, <2>1, <2>2, <2>3, <2>4, TypedFrame
<1>3. ASSUME NEW s \in Sessions PROVE Linked(s)'
  <2>1. i \in Topics => (Serves(obj'[i], s) <=> Serves(obj[i], s))
    BY Zenon, <1>1, SameParts
  <2> QED
    BY <2>1, LinkedFrame DEF Kept
<1>4. ASSUME NEW s \in Sessions PROVE Single(s)'
  <2>1. i \in Topics => Neat(obj'[i], s) /\ (Holds(obj'[i], s) <=> Holds(obj[i], s))
    BY Zenon, <1>1, SameParts DEF Kept, Single
  <2> QED
    BY Zenon, <2>1, SingleFrame DEF Kept, Single
<1> QED
    BY <1>2, <1>3, <1>4 DEF Kept

(* An object is paused, deleted, told to exit, asked to delete, or left alone. *)
LEMMA QuietObject ==
    ASSUME Kept, NEW i, NEW x,
           \/ obj' = obj \/ obj' = [obj EXCEPT ![i].paused = x]
           \/ obj' = [obj EXCEPT ![i].deleted = x] \/ obj' = [obj EXCEPT ![i].exit = x]
           \/ obj' = [obj EXCEPT ![i].meta = x] \/ obj' = [obj EXCEPT ![i].killTimer = x]
    PROVE  Others(i) /\ (i \in Topics => Same(obj'[i], obj[i]))
<1>1. Shape
    BY DEF Kept, Typed
<1>2. i \in Topics => Whole(obj[i])
    BY <1>1 DEF Shape
<1>3. CASE obj' = obj
    BY <1>1, <1>2, <1>3, SameItself DEF Shape, Others
<1>4. ASSUME NEW o, i \in Topics => Same(o, obj[i]), obj' = [obj EXCEPT ![i] = o]
      PROVE  Others(i) /\ (i \in Topics => Same(obj'[i], obj[i]))
    BY Zenon, <1>1, <1>4, ObjectSet
<1>5. i \in Topics => /\ Same([obj[i] EXCEPT !.paused = x], obj[i])
                      /\ Same([obj[i] EXCEPT !.deleted = x], obj[i])
                      /\ Same([obj[i] EXCEPT !.exit = x], obj[i])
                      /\ Same([obj[i] EXCEPT !.meta = x], obj[i])
                      /\ Same([obj[i] EXCEPT !.killTimer = x], obj[i])
    BY Zenon, <1>2, FieldSet
<1>6. CASE obj' = [obj EXCEPT ![i].paused = x]
    BY Zenon, <1>4, <1>5, <1>6
<1>7. CASE obj' = [obj EXCEPT ![i].deleted = x]
    BY Zenon, <1>4, <1>5, <1>7
<1>8. CASE obj' = [obj EXCEPT ![i].exit = x]
    BY Zenon, <1>4, <1>5, <1>8
<1>9. CASE obj' = [obj EXCEPT ![i].meta = x]
    BY Zenon, <1>4, <1>5, <1>9
<1>10. CASE obj' = [obj EXCEPT ![i].killTimer = x]
    BY Zenon, <1>4, <1>5, <1>10
<1> QED
    BY <1>3, <1>6, <1>7, <1>8, <1>9, <1>10

LEMMA QuietSteps ==
    ASSUME Kept,
           \/ \E s \in Sessions : DelTopic(s)
           \/ HubUnregIdle \/ HubUnregister \/ HubSendExit \/ HubRehash \/ HubDelete \/ HubDeleted
           \/ HubEmptied \/ HubDelUser \/ HubShutdown \/ StopperStep \/ DelUser \/ ShutdownAsk
           \/ \E i \in Topics : TopicTimeout(i)
    PROVE  Kept'
<1>1. ses' = ses /\ join' = join /\ created' = created /\ (topic' = topic \/ topic' = None)
    BY DEF DelTopic, HubUnregIdle, HubUnregister, HubSendExit, HubRehash, HubDelete, HubDeleted,
           HubEmptied, HubDelUser, HubShutdown, StopperStep, StopperLook, StopperDrop,
           StopperSendExit, DelUser, ShutdownAsk, TopicTimeout, topicDel
<1>2. PICK i, x :
           \/ obj' = obj \/ obj' = [obj EXCEPT ![i].paused = x]
           \/ obj' = [obj EXCEPT ![i].deleted = x] \/ obj' = [obj EXCEPT ![i].exit = x]
           \/ obj' = [obj EXCEPT ![i].meta = x] \/ obj' = [obj EXCEPT ![i].killTimer = x]
    BY Zenon DEF DelTopic, HubUnregIdle, HubUnregister, HubSendExit, HubRehash, HubDelete,
           HubDeleted, HubEmptied, HubDelUser, HubShutdown, StopperStep, StopperLook, StopperDrop,
           StopperSendExit, DelUser, ShutdownAsk, TopicTimeout, markDeleted
<1>3. Others(i) /\ (i \in Topics => Same(obj'[i], obj[i]))
    BY Zenon, <1>2, QuietObject
<1> QED
    BY Zenon, <1>1, <1>3, QuietFrame

-----------------------------------------------------------------------------
(* What sessions do. *)
LEMMA Untaken ==
    ASSUME Kept
    PROVE  /\ Typed /\ Shape /\ join \in Seq(Sessions) /\ created \in Nat /\ created >= created
           /\ \A i \in Topics : Whole(obj[i]) /\ Sound(obj[i])
           /\ \A i \in Topics : (i > created => obj[i].phase = "absent")
           /\ \A s \in Sessions : WholeSession(ses[s]) /\ Linked(s) /\ Single(s)
           /\ \A s \in Sessions : ses[s].sub = None \/ Made(ses[s].sub)
           /\ \A s \in Sessions : ses[s].detach \subseteq Topics
           /\ topic = None \/ Made(topic)
<1>1. Typed /\ Shape
    BY Zenon DEF Kept, Typed
<1>2. ASSUME NEW i \in Topics, i > created PROVE obj[i].phase = "absent"
    BY Zenon, <1>1, <1>2 DEF Typed, Made
<1> QED
    BY <1>1, <1>2 DEF Kept, Typed, Shape

LEMMA OneSession ==
    ASSUME Kept, NEW s \in Sessions, Rest(s), NEW c, NEW f, NEW b, NEW d,
           IsSession(ses'[s], c, f, b, d), b = ses[s].sub \/ b = None, d \subseteq ses[s].detach
    PROVE  /\ DOMAIN ses' = Sessions
           /\ \A z \in Sessions : /\ WholeSession(ses'[z]) /\ ses'[z].detach \subseteq Topics
                                  /\ ses'[z].sub \in {ses[z].sub, None}
<1>1. \A z \in Sessions : WholeSession(ses[z]) /\ ses[z].detach \subseteq Topics
    BY Zenon, Untaken
<1> QED
    BY Zenon, <1>1 DEF Rest, IsSession

LEMMA TypedStep ==
    ASSUME Kept, NEW i, Others(i),
           i \in Topics => Sound(obj'[i]) /\ (obj'[i].phase = "absent" <=> obj[i].phase = "absent"),
           DOMAIN ses' = Sessions,
           \A s \in Sessions : /\ WholeSession(ses'[s]) /\ ses'[s].detach \subseteq Topics
                               /\ ses'[s].sub \in {ses[s].sub, None},
           join' \in Seq(Sessions), created' = created, topic' = topic \/ topic' = None
    PROVE  Typed'
<1>1. i \in Topics => /\ Made(i) => obj'[i].phase # "absent"
                      /\ i > created' => obj'[i].phase = "absent"
    BY Untaken DEF Made
<1>2. Typed /\ created' \in Nat /\ created' >= created
    BY Untaken
<1> QED
    BY Zenon, <1>1, <1>2, TypedFrame

LEMMA NoObject == ASSUME Kept, obj' = obj PROVE Others(0) /\ 0 \notin Topics
<1>1. DOMAIN obj = Topics
    BY Untaken DEF Shape
<1> QED
    BY <1>1 DEF Others, Topics

(* A {sub} or a {leave} of the session is on its way. *)
LEMMA SessionAsks ==
    ASSUME Kept, NEW s \in Sessions,
           ses' = [ses EXCEPT ![s].inflight = TRUE, ![s].awaiting = TRUE]
    PROVE  Rest(s) /\ IsSession(ses'[s], ses[s].conn, TRUE, ses[s].sub, ses[s].detach)
<1> DEFINE x == [ses[s] EXCEPT !.inflight = TRUE, !.awaiting = TRUE]
<1>1. Shape /\ WholeSession(ses[s])
    BY Untaken
<1>2. ses' = [ses EXCEPT ![s] = x]
    BY Zenon, <1>1 DEF Shape
<1>3. IsSession(x, ses[s].conn, TRUE, ses[s].sub, ses[s].detach)
    BY Zenon, <1>1, SessionFieldSet
<1> HIDE DEF x
<1> QED
    BY Zenon, <1>1, <1>2, <1>3, SessionSet

LEMMA SubscribeStep == ASSUME Kept, NEW s \in Sessions, Subscribe(s) PROVE Kept'
<1> DEFINE x == ses[s]
<1>1. /\ obj' = obj /\ created' = created /\ topic' = topic /\ join' = Append(join, s)
      /\ ~x.inflight
    BY DEF Subscribe
<1>2. Rest(s) /\ IsSession(ses'[s], x.conn, TRUE, x.sub, x.detach)
    BY Zenon, SessionAsks DEF Subscribe
<1>3. Others(0) /\ 0 \notin Topics
    BY Zenon, <1>1, NoObject
<1>4. Typed'
  <2>1. join' \in Seq(Sessions)
    BY <1>1, Untaken, Put
  <2>2. /\ DOMAIN ses' = Sessions
        /\ \A z \in Sessions : /\ WholeSession(ses'[z]) /\ ses'[z].detach \subseteq Topics
                               /\ ses'[z].sub \in {ses[z].sub, None}
    BY Zenon, <1>2, OneSession
  <2> QED
    BY Zenon, <1>1, <1>3, <2>1, <2>2, TypedStep
<1>5. ASSUME NEW z \in Sessions PROVE Linked(z)'
  <2>1. ses'[z].sub = ses[z].sub /\ ses'[z].conn = ses[z].conn /\ ses'[z].detach = ses[z].detach
    BY <1>2 DEF Rest, IsSession
  <2> QED
    BY Zenon, <1>3, <2>1, Untaken, LinkedFrame
<1>6. ASSUME NEW z \in Sessions PROVE Single(z)'
  <2>0. Single(z) /\ Once(join, {z})
    BY Zenon, Untaken DEF Single
  <2>1. CASE z = s
    <3>1. ~Seen(join, {z}) /\ ses'[z].inflight
      BY Zenon, <1>1, <1>2, <2>0, <2>1 DEF Single, IsSession
    <3>2. Seen(join', {z}) /\ Once(join', {z})
      BY Zenon, <1>1, <2>0, <2>1, <3>1, Untaken, Put
    <3> QED
      BY <1>1, <1>3, <2>0, <2>1, <3>1, <3>2, SingleMoves
  <2>2. CASE z # s
    <3>1. ses'[z].inflight = ses[z].inflight
      BY Zenon, <1>2, <2>2 DEF Rest
    <3>2. (Seen(join', {z}) <=> Seen(join, {z})) /\ Once(join', {z})
      BY <1>1, <2>0, <2>2, Untaken, Put
    <3> QED
      BY Zenon, <1>3, <2>0, <3>1, <3>2, SingleFrame
  <2> QED
    BY Zenon, <2>1, <2>2
<1> QED
    BY <1>4, <1>5, <1>6 DEF Kept

(* A leave request is queued for an object. *)
LEMMA UnregPut ==
    ASSUME NEW o, Sound(o), o.phase # "absent", NEW m \in LeaveMsg, NEW p,
           Is(p, o.phase, o.initBy, o.reg, Append(o.unreg, m), o.sessions)
    PROVE  /\ Sound(p) /\ p.phase = o.phase
           /\ \A z : Serves(p, z) <=> Serves(o, z)
           /\ \A z : m \notin Mine(z) /\ Neat(o, z) => Neat(p, z) /\ (Holds(p, z) <=> Holds(o, z))
           /\ \A z : m \in Mine(z) /\ Neat(o, z) /\ ~Holds(o, z) => Neat(p, z) /\ Holds(p, z)
<1>1. o.unreg \in Seq(LeaveMsg)
    BY DEF Sound
<1>2. /\ p.phase = o.phase /\ p.initBy = o.initBy /\ p.reg = o.reg /\ Whole(p)
      /\ p.unreg = Append(o.unreg, m) /\ p.sessions = o.sessions
    BY Zenon DEF Is
<1>3. p.unreg \in Seq(LeaveMsg)
    BY <1>1, <1>2, Put
<1>4. Sound(p)
    BY <1>2, <1>3 DEF Sound
<1>5. ASSUME NEW z PROVE Serves(p, z) <=> Serves(o, z)
    BY Zenon, <1>2 DEF Serves
<1>6. ASSUME NEW z
      PROVE  /\ Seen(p.unreg, Mine(z)) <=> Seen(o.unreg, Mine(z)) \/ m \in Mine(z)
             /\ Once(o.unreg, Mine(z)) /\ ~(Seen(o.unreg, Mine(z)) /\ m \in Mine(z))
                  => Once(p.unreg, Mine(z))
             /\ Loads(p, z) <=> Loads(o, z)
    BY <1>1, <1>2, Put DEF Loads
<1>7. ASSUME NEW z, m \notin Mine(z), Neat(o, z) PROVE Neat(p, z) /\ (Holds(p, z) <=> Holds(o, z))
    BY Zenon, <1>2, <1>6, <1>7 DEF Neat, Holds
<1>8. ASSUME NEW z, m \in Mine(z), Neat(o, z), ~Holds(o, z) PROVE Neat(p, z) /\ Holds(p, z)
    BY <1>2, <1>6, <1>8 DEF Neat, Holds
<1> QED
    BY Zenon, <1>2, <1>4, <1>5, <1>7, <1>8

LEMMA LeaveQueued ==
    ASSUME Kept, NEW i \in Topics, NEW m, obj' = [obj EXCEPT ![i].unreg = Append(@, m)]
    PROVE  /\ Others(i)
           /\ Is(obj'[i], obj[i].phase, obj[i].initBy, obj[i].reg, Append(obj[i].unreg, m),
                 obj[i].sessions)
<1> DEFINE x == Append(obj[i].unreg, m)
           o == [obj[i] EXCEPT !.unreg = x]
<1>1. Shape /\ Whole(obj[i])
    BY Untaken
<1>2. obj' = [obj EXCEPT ![i] = o]
    BY <1>1 DEF Shape
<1>3. Is(o, obj[i].phase, obj[i].initBy, obj[i].reg, x, obj[i].sessions)
    BY Zenon, <1>1, FieldSet
<1> HIDE DEF o
<1> QED
    BY Zenon, <1>1, <1>2, <1>3, ObjectSet

LEMMA LeaveStep == ASSUME Kept, NEW s \in Sessions, NEW unsub \in BOOLEAN, Leave(s, unsub) PROVE Kept'
<1> DEFINE i == ses[s].sub
           m == [sess |-> s, init |-> TRUE, unsub |-> unsub]
<1>1. /\ created' = created /\ topic' = topic /\ join' = join /\ i # None /\ ~ses[s].inflight
      /\ obj' = [obj EXCEPT ![i].unreg = Append(@, m)]
    BY DEF Leave
<1>2. Rest(s) /\ IsSession(ses'[s], ses[s].conn, TRUE, ses[s].sub, ses[s].detach)
    BY Zenon, SessionAsks DEF Leave
<1>3. i \in Topics /\ obj[i].phase # "absent" /\ Sound(obj[i]) /\ ~(i > created)
    BY <1>1, Untaken DEF Made
<1>4. m \in LeaveMsg /\ \A z \in Sessions : m \in Mine(z) <=> z = s
    BY DEF LeaveMsg, Mine
<1> HIDE DEF m
<1>5. /\ Others(i)
      /\ Is(obj'[i], obj[i].phase, obj[i].initBy, obj[i].reg, Append(obj[i].unreg, m),
            obj[i].sessions)
    BY Zenon, <1>1, <1>3, LeaveQueued
<1> HIDE DEF i
<1>6. Typed'
  <2>1. Sound(obj'[i]) /\ obj'[i].phase = obj[i].phase
    BY <1>3, <1>4, <1>5, UnregPut
  <2>2. /\ DOMAIN ses' = Sessions
        /\ \A z \in Sessions : /\ WholeSession(ses'[z]) /\ ses'[z].detach \subseteq Topics
                               /\ ses'[z].sub \in {ses[z].sub, None}
    BY Zenon, <1>2, OneSession
  <2> QED
    BY Zenon, <1>1, <1>5, <2>1, <2>2, Untaken, TypedStep
<1>7. ASSUME NEW z \in Sessions PROVE Linked(z)'
  <2>1. ses'[z].sub = ses[z].sub /\ ses'[z].conn = ses[z].conn /\ ses'[z].detach = ses[z].detach
    BY <1>2 DEF Rest, IsSession
  <2> QED
    BY Zenon, <1>3, <1>4, <1>5, <2>1, Untaken, LinkedFrame, UnregPut
<1>8. ASSUME NEW z \in Sessions PROVE Single(z)'
  <2>0. Single(z) /\ Once(join', {z}) /\ Neat(obj[i], z)
    BY Zenon, <1>1, <1>3, Untaken DEF Single
  <2>1. CASE z = s
    <3>1. ~Seen(join', {z}) /\ ses'[z].inflight /\ ~Holds(obj[i], z)
      BY Zenon, <1>1, <1>2, <1>3, <2>0, <2>1 DEF Single, IsSession
    <3>2. Neat(obj'[i], z) /\ Holds(obj'[i], z)
      BY Zenon, <1>3, <1>4, <1>5, <2>0, <2>1, <3>1, UnregPut
    <3> QED
      BY Zenon, <1>1, <1>3, <1>5, <2>0, <2>1, <3>1, <3>2, SingleMoves
  <2>2. CASE z # s
    <3>1. ses'[z].inflight = ses[z].inflight
      BY Zenon, <1>2, <2>2 DEF Rest
    <3>2. Neat(obj'[i], z) /\ (Holds(obj'[i], z) <=> Holds(obj[i], z))
      BY <1>3, <1>4, <1>5, <2>0, <2>2, UnregPut
    <3> QED
      BY Zenon, <1>1, <1>5, <2>0, <3>1, <3>2, SingleFrame
  <2> QED
    BY <2>1, <2>2
<1> QED
    BY Zenon, <1>6, <1>7, <1>8 DEF Kept

(* The session takes a detach message, or starts to terminate. *)
LEMMA DetachStep == ASSUME Kept, NEW s \in Sessions, DetachSession(s) \/ CleanUp(s) PROVE Kept'
<1>1. /\ obj' = obj /\ created' = created /\ topic' = topic /\ join' = join
      /\ ses[s].conn = "open"
    BY DEF DetachSession, CleanUp
<1>2. Others(0) /\ 0 \notin Topics
    BY Zenon, <1>1, NoObject
<1>3. PICK x : /\ ses' = [ses EXCEPT ![s] = x] /\ WholeSession(x) /\ x.inflight = ses[s].inflight
               /\ \/ \E i \in ses[s].detach : x.sub = None /\ x.detach = ses[s].detach \ {i}
                  \/ x.sub = ses[s].sub /\ x.detach = {} /\ x.conn = "closing"
  <2>1. CASE DetachSession(s)
    <3>1. PICK i \in ses[s].detach :
                ses' = [ses EXCEPT ![s].detach = @ \ {i}, ![s].sub = None]
      BY Zenon, <2>1 DEF DetachSession
    <3> DEFINE x == [ses[s] EXCEPT !.detach = ses[s].detach \ {i}, !.sub = None]
    <3>2. ses' = [ses EXCEPT ![s] = x]
      BY Zenon, <3>1, Untaken DEF Shape
    <3>3. IsSession(x, ses[s].conn, ses[s].inflight, None, ses[s].detach \ {i})
      BY Zenon, Untaken, SessionFieldSet
    <3> HIDE DEF x
    <3> QED
      BY Zenon, <3>2, <3>3 DEF IsSession
  <2>2. CASE CleanUp(s)
    <3> DEFINE x == [ses[s] EXCEPT !.conn = "closing", !.detach = {}]
    <3>2. ses' = [ses EXCEPT ![s] = x]
      BY Zenon, <2>2, Untaken DEF Shape, CleanUp
    <3>3. IsSession(x, "closing", ses[s].inflight, ses[s].sub, {})
      BY Zenon, Untaken, SessionFieldSet
    <3> HIDE DEF x
    <3> QED
      BY Zenon, <3>2, <3>3 DEF IsSession
  <2> QED
    BY <2>1, <2>2
<1>4. Rest(s) /\ ses'[s] = x
    BY Zenon, <1>3, Untaken, SessionSet
<1>5. Typed'
  <2>1. /\ DOMAIN ses' = Sessions
        /\ \A z \in Sessions : /\ WholeSession(ses'[z]) /\ ses'[z].detach \subseteq Topics
                               /\ ses'[z].sub \in {ses[z].sub, None}
    BY <1>3, <1>4, Untaken DEF Rest
  <2> QED
    BY Zenon, <1>1, <1>2, <2>1, Untaken, TypedStep
<1>6. ASSUME NEW z \in Sessions PROVE Linked(z)'
  <2>1. CASE z # s \/ (x.sub = ses[s].sub /\ x.detach = {} /\ x.conn = "closing")
    <3>1. /\ ses'[z].sub = ses[z].sub /\ ses'[z].detach \subseteq ses[z].detach
          /\ ses'[z].conn = "open" => ses[z].conn = "open" /\ ses'[z].detach = ses[z].detach
      BY Zenon, <1>4, <2>1 DEF Rest
    <3> QED
      BY <1>2, <3>1, Untaken, LinkedFrame
  <2>2. CASE z = s /\ \E i \in ses[s].detach : x.sub = None /\ x.detach = ses[s].detach \ {i}
    <3>1. PICK i \in ses[s].detach : x.sub = None /\ x.detach = ses[s].detach \ {i}
      BY Zenon, <2>2
    <3>2. i \in Topics /\ Linked(s)
      BY Untaken
    <3>3. ASSUME NEW j \in Topics
          PROVE  ~Serves(obj[j], s) /\ j \notin x.detach /\ x.sub # j
      BY <3>1, <3>2, NoneAssumption DEF Linked, Topics
    <3> QED
      BY <1>1, <1>4, <2>2, <3>3 DEF Linked
  <2> QED
    BY Zenon, <1>3, <2>1, <2>2
<1>7. ASSUME NEW z \in Sessions PROVE Single(z)'
  <2>1. ses'[z].inflight = ses[z].inflight
    BY <1>3, <1>4 DEF Rest
  <2> QED
    BY Zenon, <1>1, <1>2, <2>1, Untaken, SingleFrame DEF Single
<1> QED
    BY <1>5, <1>6, <1>7 DEF Kept

LEMMA UnsubAllStep == ASSUME Kept, NEW s \in Sessions, UnsubAll(s) PROVE Kept'
<1> DEFINE i == ses[s].sub
           m == [sess |-> s, init |-> FALSE, unsub |-> FALSE]
           x == [ses[s] EXCEPT !.conn = "closed"]
<1>1. /\ created' = created /\ topic' = topic /\ join' = join
      /\ ses' = [ses EXCEPT ![s] = x]
      /\ IF i = None THEN obj' = obj ELSE obj' = [obj EXCEPT ![i].unreg = Append(@, m)]
    BY Zenon DEF UnsubAll
<1>2. IsSession(x, "closed", ses[s].inflight, ses[s].sub, ses[s].detach)
    BY Zenon, Untaken, SessionFieldSet
<1> HIDE DEF x
<1>3. Rest(s) /\ IsSession(ses'[s], "closed", ses[s].inflight, ses[s].sub, ses[s].detach)
    BY Zenon, <1>1, <1>2, Untaken, SessionSet
<1>4. m \in LeaveMsg /\ \A z \in Sessions : m \notin Mine(z)
    BY Zenon DEF LeaveMsg, Mine
<1> HIDE DEF m
<1>5. PICK k : /\ Others(k)
               /\ k \in Topics => /\ Sound(obj'[k]) /\ obj'[k].phase = obj[k].phase
                                  /\ \A z : Serves(obj'[k], z) <=> Serves(obj[k], z)
                                  /\ \A z \in Sessions : Neat(obj[k], z) =>
                                        Neat(obj'[k], z) /\ (Holds(obj'[k], z) <=> Holds(obj[k], z))
  <2>1. CASE i = None
    BY Zenon, <1>1, <2>1, NoObject
  <2>2. CASE i # None
    <3>1. i \in Topics /\ obj[i].phase # "absent" /\ Sound(obj[i])
      BY <2>2, Untaken DEF Made
    <3>2. /\ Others(i)
          /\ Is(obj'[i], obj[i].phase, obj[i].initBy, obj[i].reg, Append(obj[i].unreg, m),
                obj[i].sessions)
      BY Zenon, <1>1, <2>2, <3>1, LeaveQueued
    <3> HIDE DEF i
    <3>3. /\ Sound(obj'[i]) /\ obj'[i].phase = obj[i].phase
          /\ \A z : Serves(obj'[i], z) <=> Serves(obj[i], z)
      BY Zenon, <1>4, <3>1, <3>2, UnregPut
    <3>4. ASSUME NEW z \in Sessions, Neat(obj[i], z)
          PROVE  Neat(obj'[i], z) /\ (Holds(obj'[i], z) <=> Holds(obj[i], z))
      BY Zenon, <1>4, <3>1, <3>2, <3>4, UnregPut
    <3> QED
      BY Zenon, <3>2, <3>3, <3>4
  <2> QED
    BY <2>1, <2>2
<1>6. Typed'
  <2>1. /\ DOMAIN ses' = Sessions
        /\ \A z \in Sessions : /\ WholeSession(ses'[z]) /\ ses'[z].detach \subseteq Topics
                               /\ ses'[z].sub \in {ses[z].sub, None}
    BY Zenon, <1>3, OneSession
  <2> QED
    BY Zenon, <1>1, <1>5, <2>1, Untaken, TypedStep
<1>7. ASSUME NEW z \in Sessions PROVE Linked(z)' /\ Single(z)'
  <2>1. /\ ses'[z].sub = ses[z].sub /\ ses'[z].detach = ses[z].detach
        /\ ses'[z].inflight = ses[z].inflight /\ (ses'[z].conn = "open" => ses[z].conn = "open")
    BY <1>3 DEF Rest, IsSession
  <2>2. k \in Topics => Neat(obj[k], z)
    BY Zenon, Untaken DEF Single
  <2>3. Linked(z) /\ Single(z) /\ Once(join, {z})
    BY Zenon, Untaken DEF Single
  <2>4. Linked(z)'
    BY Zenon, <1>5, <2>1, <2>3, LinkedFrame
  <2>5. Single(z)'
    BY <1>1, <1>5, <2>1, <2>2, <2>3, SingleFrame
  <2> QED
    BY Zenon, <2>4, <2>5
<1> QED
    BY <1>6, <1>7 DEF Kept

-----------------------------------------------------------------------------
(* The hub takes a {sub}. *)
LEMMA SessionDone ==
    ASSUME Kept, NEW s \in Sessions,
           ses' = [ses EXCEPT ![s] = Answered(@)] \/ ses' = [ses EXCEPT ![s] = Dropped(@)]
    PROVE  Rest(s) /\ IsSession(ses'[s], ses[s].conn, FALSE, ses[s].sub, ses[s].detach)
<1>1. Shape /\ WholeSession(ses[s])
    BY Untaken
<1>2. ASSUME NEW x, ses' = [ses EXCEPT ![s] = x],
             IsSession(x, ses[s].conn, FALSE, ses[s].sub, ses[s].detach)
      PROVE  Rest(s) /\ IsSession(ses'[s], ses[s].conn, FALSE, ses[s].sub, ses[s].detach)
    BY Zenon, <1>1, <1>2, SessionSet
<1>3. /\ IsSession(Answered(ses[s]), ses[s].conn, FALSE, ses[s].sub, ses[s].detach)
      /\ IsSession(Dropped(ses[s]), ses[s].conn, FALSE, ses[s].sub, ses[s].detach)
    BY Zenon, <1>1, SessionFieldSet DEF Answered, Dropped
<1> QED
    BY Zenon, <1>2, <1>3

(* A {sub} is queued for an object, which may be about to run then. *)
LEMMA RegPut ==
    ASSUME NEW o, Sound(o), o.phase # "absent", NEW s \in Sessions, NEW p, NEW ph,
           Is(p, ph, o.initBy, Append(o.reg, s), o.unreg, o.sessions),
           ph = o.phase \/ (o.phase = "loaded" /\ ph = "ready" /\ o.initBy = s)
    PROVE  /\ Sound(p) /\ p.phase # "absent"
           /\ \A z : Serves(p, z) <=> Serves(o, z)
           /\ \A z : z # s /\ Neat(o, z) => Neat(p, z) /\ (Holds(p, z) <=> Holds(o, z))
           /\ Neat(o, s) /\ (~Holds(o, s) \/ (ph # o.phase /\ Loads(o, s))) => Neat(p, s) /\ Holds(p, s)
<1>1. o.reg \in Seq(Sessions)
    BY DEF Sound
<1>2. /\ p.phase = ph /\ p.initBy = o.initBy /\ p.unreg = o.unreg /\ Whole(p)
      /\ p.reg = Append(o.reg, s) /\ p.sessions = o.sessions
    BY DEF Is
<1>3. p.reg \in Seq(Sessions)
    BY <1>1, <1>2, Put
<1>4. Sound(p) /\ p.phase # "absent"
    BY Zenon, <1>2, <1>3 DEF Sound
<1>5. ASSUME NEW z PROVE Serves(p, z) <=> Serves(o, z)
    BY Zenon, <1>2 DEF Serves
<1>6. ASSUME NEW z
      PROVE  /\ Seen(p.reg, {z}) <=> Seen(o.reg, {z}) \/ s \in {z}
             /\ Once(o.reg, {z}) /\ ~(Seen(o.reg, {z}) /\ s \in {z}) => Once(p.reg, {z})
    BY <1>1, <1>2, Put
<1>7. ASSUME NEW z PROVE /\ Loads(p, z) => Loads(o, z)
                         /\ z # s => (Loads(p, z) <=> Loads(o, z))
                         /\ ph # o.phase => ~Loads(p, z)
    BY Zenon, <1>2 DEF Loads, Initialising
<1>8. ASSUME NEW z, z # s, Neat(o, z) PROVE Neat(p, z) /\ (Holds(p, z) <=> Holds(o, z))
    BY Zenon, <1>2, <1>6, <1>7, <1>8 DEF Neat, Holds
<1>9. ASSUME Neat(o, s), ~Holds(o, s) \/ (ph # o.phase /\ Loads(o, s)) PROVE Neat(p, s) /\ Holds(p, s)
    BY Zenon, <1>2, <1>6, <1>7, <1>9 DEF Neat, Holds
<1> QED
    BY Zenon, <1>4, <1>5, <1>8, <1>9

(* An object that was just made. *)
LEMMA MadeObject ==
    ASSUME NEW s \in Sessions, NEW p, Is(p, "loading", s, <<>>, <<>>, {})
    PROVE  /\ Sound(p) /\ p.phase = "loading"
           /\ \A z : ~Serves(p, z) /\ Neat(p, z) /\ (Holds(p, z) <=> z = s)
<1>1. p.phase = "loading" /\ p.initBy = s /\ p.reg = <<>> /\ p.unreg = <<>> /\ p.sessions = {} /\ Whole(p)
    BY DEF Is
<1>2. Sound(p)
    BY <1>1 DEF Sound
<1>3. ASSUME NEW z PROVE ~Serves(p, z) /\ Neat(p, z) /\ (Holds(p, z) <=> z = s)
    BY <1>1, EmptyQueue DEF Serves, Neat, Holds, Loads, Initialising
<1> QED
    BY Zenon, <1>1, <1>2, <1>3

LEMMA AbsentObject ==
    ASSUME NEW o, Sound(o), o.phase = "absent"
    PROVE  \A z : ~Serves(o, z) /\ ~Holds(o, z)
    BY EmptyQueue DEF Sound, Serves, Holds, Loads, Initialising

LEMMA HubJoinStep == ASSUME Kept, HubJoin PROVE Kept'
<1> DEFINE s == Head(join)
<1>1. join # <<>> /\ join' = Tail(join)
    BY DEF HubJoin
<1>2. s \in Sessions /\ join' \in Seq(Sessions)
    BY <1>1, Untaken
<1>3. ASSUME NEW z \in Sessions
      PROVE  /\ Single(z) /\ Once(join', {z})
             /\ z = s => Seen(join, {z}) /\ ~Seen(join', {z}) /\ ses[z].inflight
             /\ z # s => (Seen(join', {z}) <=> Seen(join, {z}))
  <2>1. Single(z) /\ Once(join, {z})
    BY Zenon, Untaken DEF Single
  <2>2. /\ Once(Tail(join), {z})
        /\ Seen(Tail(join), {z}) <=> Seen(join, {z}) /\ s \notin {z}
        /\ s \in {z} => Seen(join, {z})
    BY Zenon, <1>1, <2>1, Untaken, Get
  <2> QED
    BY Zenon, <1>1, <2>1, <2>2 DEF Single
<1> HIDE DEF s
<1>4. CASE /\ created < MaxTopics /\ created' = created + 1 /\ topic' = created + 1 /\ ses' = ses
           /\ obj' = [obj EXCEPT ![created + 1] =
                         [Absent EXCEPT !.phase = "loading", !.paused = TRUE, !.initBy = s]]
  <2>0. PICK n : n = created + 1
    OBVIOUS
  <2> DEFINE o == [Absent EXCEPT !.phase = "loading", !.paused = TRUE, !.initBy = s]
  <2>1. Is(o, "loading", s, <<>>, <<>>, {})
    BY DEF Is, Whole, Absent
  <2> HIDE DEF o
  <2>2. n \in Topics /\ n > created /\ n \in Nat
    BY <1>4, <2>0, Untaken, BoundsAssumption DEF Topics
  <2>3. obj' = [obj EXCEPT ![n] = o]
    BY <1>4, <2>0 DEF o
  <2>4. created' = n /\ topic' = n /\ ses' = ses
    BY Zenon, <1>4, <2>0
  <2>5. created' >= created
    BY <2>2, <2>4, Untaken
  <2>6. Others(n) /\ obj'[n] = o
    BY Zenon, <2>2, <2>3, Untaken, ObjectSet
  <2>7. \A z : ~Serves(obj[n], z) /\ ~Holds(obj[n], z)
    BY Zenon, <2>2, Untaken, AbsentObject
  <2>8. /\ Sound(obj'[n]) /\ obj'[n].phase = "loading"
        /\ \A z : ~Serves(obj'[n], z) /\ Neat(obj'[n], z) /\ (Holds(obj'[n], z) <=> z = s)
    BY <1>2, <2>1, <2>6, MadeObject
  <2>9. Typed'
    <3>1. DOMAIN ses' = Sessions
          /\ \A z \in Sessions : /\ WholeSession(ses'[z]) /\ ses'[z].detach \subseteq Topics
                                 /\ ses'[z].sub \in {ses[z].sub, None}
      BY <2>4, Untaken DEF Shape
    <3>2. ~(n > created') /\ created' \in Nat
      BY <2>2, <2>4
    <3>3. Made(n)' /\ topic' = n /\ obj'[n].phase # "absent"
      BY Zenon, <2>2, <2>4, <2>8 DEF Made
    <3> QED
      BY Zenon, <1>2, <2>2, <2>5, <2>6, <2>8, <3>1, <3>2, <3>3, Untaken, TypedFrame
  <2>10. ASSUME NEW z \in Sessions PROVE Linked(z)'
    BY Zenon, <2>4, <2>6, <2>7, <2>8, Untaken, LinkedFrame
  <2>11. ASSUME NEW z \in Sessions PROVE Single(z)'
    <3>1. CASE z = s
      BY Zenon, <1>3, <2>2, <2>4, <2>6, <2>8, <3>1, SingleMoves
    <3>2. CASE z # s
      BY Zenon, <1>3, <2>4, <2>6, <2>7, <2>8, <3>2, SingleFrame
    <3> QED
      BY Zenon, <3>1, <3>2
  <2> QED
    BY <2>9, <2>10, <2>11 DEF Kept
<1>5. CASE /\ topic # None /\ created' = created /\ topic' = topic /\ ses' = ses
           /\ obj' = [obj EXCEPT ![topic].reg = Append(@, s)]
  <2>0. topic \in Topics /\ obj[topic].phase # "absent" /\ Sound(obj[topic])
    BY Zenon, <1>5, Untaken DEF Made
  <2> DEFINE q == Append(obj[topic].reg, s)
             o == [obj[topic] EXCEPT !.reg = q]
  <2>1. Is(o, obj[topic].phase, obj[topic].initBy, q, obj[topic].unreg, obj[topic].sessions)
    BY Zenon, <2>0, Untaken, FieldSet
  <2>2. obj' = [obj EXCEPT ![topic] = o]
    BY <1>5, Untaken DEF Shape
  <2> HIDE DEF o
  <2>3. Others(topic) /\ obj'[topic] = o
    BY Zenon, <2>0, <2>2, Untaken, ObjectSet
  <2>4. /\ Sound(obj'[topic]) /\ obj'[topic].phase # "absent"
        /\ \A z : Serves(obj'[topic], z) <=> Serves(obj[topic], z)
    BY Zenon, <1>2, <2>0, <2>1, <2>3, RegPut
  <2>5. Typed'
    <3>1. DOMAIN ses' = Sessions
          /\ \A z \in Sessions : /\ WholeSession(ses'[z]) /\ ses'[z].detach \subseteq Topics
                                 /\ ses'[z].sub \in {ses[z].sub, None}
      BY <1>5, Untaken DEF Shape
    <3> QED
      BY Zenon, <1>2, <1>5, <2>0, <2>3, <2>4, <3>1, TypedStep
  <2>6. ASSUME NEW z \in Sessions PROVE Linked(z)'
    BY Zenon, <1>5, <2>3, <2>4, Untaken, LinkedFrame
  <2>7. ASSUME NEW z \in Sessions PROVE Single(z)'
    <3>0. Neat(obj[topic], z) /\ ~(Seen(join, {z}) /\ Holds(obj[topic], z))
      BY Zenon, <1>3, <2>0 DEF Single
    <3>1. CASE z = s
      <4>1. Neat(obj'[topic], z) /\ Holds(obj'[topic], z)
        BY Zenon, <1>2, <1>3, <2>0, <2>1, <2>3, <3>0, <3>1, RegPut
      <4> QED
        BY Zenon, <1>3, <1>5, <2>0, <2>3, <3>1, <4>1, SingleMoves
    <3>2. CASE z # s
      <4>1. Neat(obj'[topic], z) /\ (Holds(obj'[topic], z) <=> Holds(obj[topic], z))
        BY Zenon, <1>2, <2>0, <2>1, <2>3, <3>0, <3>2, RegPut
      <4> QED
        BY Zenon, <1>3, <1>5, <2>3, <3>2, <4>1, SingleFrame
    <3> QED
      BY <3>1, <3>2
  <2> QED
    BY <2>5, <2>6, <2>7 DEF Kept
<1>6. CASE /\ created' = created /\ topic' = topic /\ obj' = obj
           /\ ses' = [ses EXCEPT ![s] = Answered(@)]
  <2>1. Rest(s) /\ IsSession(ses'[s], ses[s].conn, FALSE, ses[s].sub, ses[s].detach)
    BY Zenon, <1>2, <1>6, SessionDone
  <2>2. Others(0) /\ 0 \notin Topics
    BY <1>6, NoObject
  <2>3. Typed'
    <3>1. DOMAIN ses' = Sessions
          /\ \A z \in Sessions : /\ WholeSession(ses'[z]) /\ ses'[z].detach \subseteq Topics
                                 /\ ses'[z].sub \in {ses[z].sub, None}
      BY Zenon, <1>2, <2>1, OneSession
    <3> QED
      BY <1>2, <1>6, <2>2, <3>1, TypedStep
  <2>4. ASSUME NEW z \in Sessions PROVE Linked(z)'
    <3>1. ses'[z].sub = ses[z].sub /\ ses'[z].conn = ses[z].conn /\ ses'[z].detach = ses[z].detach
      BY <2>1 DEF Rest, IsSession
    <3> QED
      BY Zenon, <2>2, <3>1, Untaken, LinkedFrame
  <2>5. ASSUME NEW z \in Sessions PROVE Single(z)'
    <3>1. CASE z = s
      <4>1. ~ses'[z].inflight
        BY <2>1, <3>1 DEF IsSession
      <4> QED
        BY Zenon, <1>3, <2>2, <3>1, <4>1, SingleMoves
    <3>2. CASE z # s
      <4>1. ses'[z].inflight = ses[z].inflight
        BY <2>1, <3>2 DEF Rest
      <4> QED
        BY Zenon, <1>3, <2>2, <3>2, <4>1, SingleFrame
    <3> QED
      BY Zenon, <3>1, <3>2
  <2> QED
    BY <2>3, <2>4, <2>5 DEF Kept
<1> QED
    BY <1>4, <1>5, <1>6 DEF HubJoin, s

-----------------------------------------------------------------------------
(* topicInit: the object goes on, with the {sub} it was made for. *)
LEMMA PhaseParts ==
    ASSUME NEW o, Sound(o), NEW p, NEW ph, Is(p, ph, o.initBy, o.reg, o.unreg, o.sessions),
           o.phase \in Initialising \cup {"ready"}, ph # "absent",
           ph \in Initialising <=> o.phase \in Initialising
    PROVE  /\ Sound(p) /\ p.phase = ph /\ o.phase # "absent"
           /\ \A z : /\ Serves(p, z) <=> Serves(o, z)
                     /\ Neat(p, z) <=> Neat(o, z)
                     /\ Holds(p, z) <=> Holds(o, z)
<1>1. /\ p.phase = ph /\ p.initBy = o.initBy /\ p.reg = o.reg /\ p.unreg = o.unreg /\ Whole(p)
      /\ p.sessions = o.sessions
    BY DEF Is
<1>2. o.phase # "absent" /\ o.sessions = {}
    BY DEF Sound, Initialising
<1>3. Sound(p)
    BY <1>1, <1>2 DEF Sound
<1>4. ASSUME NEW z PROVE Loads(p, z) <=> Loads(o, z)
    BY Zenon, <1>1 DEF Loads
<1>5. ASSUME NEW z PROVE Serves(p, z) <=> Serves(o, z)
    BY <1>1, <1>2 DEF Serves
<1> QED
    BY Zenon, <1>1, <1>2, <1>3, <1>4, <1>5 DEF Neat, Holds

LEMMA LoadStep ==
    ASSUME Kept, NEW i \in Topics, Load(i) \/ InitFailed(i) \/ InitRun(i) PROVE Kept'
<1>0. Sound(obj[i]) /\ Whole(obj[i]) /\ Shape
    BY Untaken
<1>1. join' = join /\ created' = created /\ (topic' = topic \/ topic' = None)
      /\ obj[i].phase \in Initialising \cup {"ready"}
    BY DEF Load, InitFailed, InitRun, topicDel, Initialising
<1>2. PICK o, ph : /\ obj' = [obj EXCEPT ![i] = o] /\ ph # "absent"
                   /\ Is(o, ph, obj[i].initBy, obj[i].reg, obj[i].unreg, obj[i].sessions)
                   /\ ph \in Initialising <=> obj[i].phase \in Initialising
  <2>1. CASE InitRun(i)
    <3> DEFINE o == [obj[i] EXCEPT !.phase = "running", !.paused = FALSE]
    <3>1. obj' = [obj EXCEPT ![i] = o]
      BY Zenon, <1>0, <2>1 DEF InitRun, Shape
    <3>2. Is(o, "running", obj[i].initBy, obj[i].reg, obj[i].unreg, obj[i].sessions)
      BY <1>0 DEF Is, Whole
    <3>3. "running" \notin Initialising /\ obj[i].phase \notin Initialising
      BY <2>1 DEF Initialising, InitRun
    <3> HIDE DEF o
    <3> QED
      BY Zenon, <3>1, <3>2, <3>3
  <2>2. CASE Load(i) \/ InitFailed(i)
    <3>1. PICK ph \in {"loaded", "failing", "draining"} : obj' = [obj EXCEPT ![i].phase = ph]
      BY <2>2 DEF Load, InitFailed
    <3> DEFINE o == [obj[i] EXCEPT !.phase = ph]
    <3>2. obj' = [obj EXCEPT ![i] = o]
      BY <3>1
    <3>3. Is(o, ph, obj[i].initBy, obj[i].reg, obj[i].unreg, obj[i].sessions)
      BY Zenon, <1>0, FieldSet
    <3>4. ph \in Initialising /\ obj[i].phase \in Initialising /\ ph # "absent"
      BY <2>2, <3>1 DEF Initialising, Load, InitFailed
    <3> HIDE DEF o
    <3> QED
      BY Zenon, <3>2, <3>3, <3>4
  <2> QED
    BY <2>1, <2>2
<1>3. Others(i) /\ obj'[i] = o
    BY Zenon, <1>0, <1>2, ObjectSet
<1>4. /\ Sound(obj'[i]) /\ obj'[i].phase # "absent" /\ obj[i].phase # "absent"
      /\ \A z : /\ Serves(obj'[i], z) <=> Serves(obj[i], z)
                /\ Neat(obj'[i], z) <=> Neat(obj[i], z)
                /\ Holds(obj'[i], z) <=> Holds(obj[i], z)
    BY <1>0, <1>1, <1>2, <1>3, PhaseParts
<1>5. /\ DOMAIN ses' = Sessions
      /\ \A z \in Sessions : /\ WholeSession(ses'[z]) /\ ses'[z].sub = ses[z].sub
                             /\ ses'[z].detach = ses[z].detach /\ ses'[z].conn = ses[z].conn
                             /\ ses'[z].inflight = ses[z].inflight
  <2>1. CASE ses' = ses
    BY Zenon, <1>0, <2>1 DEF Shape
  <2>2. CASE ses' = [ses EXCEPT ![obj[i].initBy] = Refused(@)]
    <3> DEFINE s == obj[i].initBy
               x == Refused(ses[s])
    <3>1. s \in Sessions
      BY Zenon, <1>0, <1>4 DEF Sound
    <3>2. IsSession(x, ses[s].conn, ses[s].inflight, ses[s].sub, ses[s].detach)
      BY Zenon, <3>1, Untaken, SessionFieldSet DEF Refused
    <3>3. ses' = [ses EXCEPT ![s] = x]
      BY <2>2
    <3> HIDE DEF x, s
    <3>4. Rest(s) /\ ses'[s] = x
      BY Zenon, <1>0, <3>1, <3>3, SessionSet
    <3> QED
      BY Zenon, <1>0, <3>2, <3>4 DEF Rest, IsSession, Shape
  <2> QED
    BY <2>1, <2>2 DEF Load, InitFailed, InitRun
<1>6. Typed'
    BY Zenon, <1>1, <1>3, <1>4, <1>5, Untaken, TypedStep
<1>7. ASSUME NEW z \in Sessions PROVE Linked(z)'
    BY Zenon, <1>3, <1>4, <1>5, Untaken, LinkedFrame
<1>8. ASSUME NEW z \in Sessions PROVE Single(z)'
  <2>1. Single(z) /\ Neat(obj[i], z) /\ Once(join, {z})
    BY Zenon, Untaken DEF Single
  <2> QED
    BY Zenon, <1>1, <1>3, <1>4, <1>5, <2>1, SingleFrame
<1> QED
    BY Zenon, <1>6, <1>7, <1>8 DEF Kept

(* topicInit queues the {sub}. *)
LEMMA ReadyStep == ASSUME Kept, NEW i \in Topics, InitReady(i) PROVE Kept'
<1> DEFINE s == obj[i].initBy
           q == Append(obj[i].reg, s)
           o == [obj[i] EXCEPT !.phase = "ready", !.reg = q]
<1>0. Sound(obj[i]) /\ Whole(obj[i]) /\ Shape
    BY Untaken
<1>1. /\ join' = join /\ created' = created /\ topic' = topic /\ ses' = ses
      /\ obj[i].phase = "loaded"
    BY DEF InitReady
<1>2. obj' = [obj EXCEPT ![i] = o]
    BY Zenon, <1>0 DEF InitReady, Shape
<1>3. Is(o, "ready", s, q, obj[i].unreg, obj[i].sessions)
    BY Zenon, <1>0 DEF Is, Whole
<1>4. s \in Sessions /\ Loads(obj[i], s)
    BY <1>0, <1>1 DEF Sound, Loads, Initialising
<1> HIDE DEF o
<1>5. Others(i) /\ obj'[i] = o
    BY Zenon, <1>0, <1>2, ObjectSet
<1>6. /\ Sound(obj'[i]) /\ obj'[i].phase # "absent"
      /\ \A z : Serves(obj'[i], z) <=> Serves(obj[i], z)
    BY Zenon, <1>0, <1>1, <1>3, <1>4, <1>5, RegPut
<1>7. Typed'
  <2>1. DOMAIN ses' = Sessions
        /\ \A z \in Sessions : /\ WholeSession(ses'[z]) /\ ses'[z].detach \subseteq Topics
                               /\ ses'[z].sub \in {ses[z].sub, None}
    BY Zenon, <1>1, Untaken DEF Shape
  <2> QED
    BY Zenon, <1>1, <1>5, <1>6, <2>1, Untaken, TypedStep
<1>8. ASSUME NEW z \in Sessions PROVE Linked(z)'
    BY Zenon, <1>1, <1>5, <1>6, Untaken, LinkedFrame
<1>9. ASSUME NEW z \in Sessions PROVE Single(z)'
  <2>1. Single(z) /\ Neat(obj[i], z) /\ Once(join, {z})
    BY Zenon, Untaken DEF Single
  <2>2. Neat(obj'[i], z) /\ (Holds(obj'[i], z) <=> Holds(obj[i], z))
    <3>1. CASE z = s
      <4>1. Holds(obj[i], z)
        BY Zenon, <1>4, <3>1 DEF Holds
      <4>2. Neat(obj'[i], z) /\ Holds(obj'[i], z)
        <5>1. Neat(obj[i], s) /\ Loads(obj[i], s) /\ "ready" # obj[i].phase
          BY Zenon, <1>1, <1>4, <2>1, <3>1
        <5>2. Neat(obj'[i], s) /\ Holds(obj'[i], s)
          BY Zenon, <1>0, <1>1, <1>3, <1>4, <1>5, <5>1, RegPut
        <5> QED
          BY <3>1, <5>2
      <4> QED
        BY <4>1, <4>2
    <3>2. CASE z # s
      BY Zenon, <1>0, <1>1, <1>3, <1>4, <1>5, <2>1, <3>2, RegPut
    <3> QED
      BY <3>1, <3>2
  <2> QED
    BY Zenon, <1>1, <1>5, <2>1, <2>2, SingleFrame
<1> QED
    BY Zenon, <1>7, <1>8, <1>9 DEF Kept

(* topicInit gives up: what is queued stays, or has gone back to the hub. *)
GaveUp(o, p, ph, q) ==
    /\ Sound(p) /\ p.phase # "absent" /\ o.phase # "absent" /\ o.initBy \in Sessions
    /\ Loads(o, o.initBy)
    /\ \A z : Serves(p, z) <=> Serves(o, z)
    /\ \A z : Neat(o, z) => Neat(p, z)
    /\ \A z : Holds(p, z) <=> \/ Seen(q, {z}) \/ Seen(o.unreg, Mine(z))
                              \/ (ph = "stuck" /\ z = o.initBy)

LEMMA GivenUp ==
    ASSUME NEW o, Sound(o), o.phase \in Initialising, NEW p, NEW ph \in {"stuck", "ended"}, NEW q,
           Is(p, ph, o.initBy, q, o.unreg, o.sessions), q = o.reg \/ q = <<>>
    PROVE  GaveUp(o, p, ph, q)
<1>1. /\ p.phase = ph /\ p.initBy = o.initBy /\ p.reg = q /\ p.unreg = o.unreg /\ Whole(p)
      /\ p.sessions = o.sessions
    BY Zenon DEF Is
<1>2. o.phase # "absent" /\ o.sessions = {} /\ o.initBy \in Sessions
    BY Zenon DEF Sound, Initialising
<1>3. Sound(p) /\ p.phase # "absent"
  <2>0. <<>> \in Seq(Sessions) /\ o.reg \in Seq(Sessions) /\ o.unreg \in Seq(LeaveMsg)
    BY DEF Sound
  <2>1. p.reg \in Seq(Sessions) /\ p.unreg \in Seq(LeaveMsg)
    BY Zenon, <1>1, <2>0
  <2> QED
    BY Zenon, <1>1, <1>2, <2>1 DEF Sound
<1>4. ASSUME NEW z PROVE Loads(p, z) <=> (ph = "stuck" /\ z = o.initBy)
    BY <1>1 DEF Loads, Initialising
<1>5. ASSUME NEW z PROVE Loads(o, z) <=> z = o.initBy
    BY DEF Loads
<1>6. ASSUME NEW z PROVE Serves(p, z) <=> Serves(o, z)
    BY Zenon, <1>1, <1>2 DEF Serves
<1>7. ASSUME NEW z, Neat(o, z) PROVE Neat(p, z)
    BY Zenon, <1>1, <1>4, <1>5, <1>7, EmptyQueue DEF Neat
<1> QED
    BY Zenon, <1>1, <1>2, <1>3, <1>4, <1>5, <1>6, <1>7 DEF Holds, GaveUp

LEMMA GiveUpStep == ASSUME Kept, NEW i \in Topics, InitDrain(i) \/ InitAbort(i) PROVE Kept'
<1> DEFINE s == obj[i].initBy
<1>0. Sound(obj[i]) /\ Whole(obj[i]) /\ Shape
    BY Zenon, Untaken
<1>1. created' = created /\ (topic' = topic \/ topic' = None) /\ obj[i].phase \in Initialising
    BY Zenon DEF InitDrain, InitAbort, topicDel, Initialising
<1>2. PICK ph, q :
         /\ Others(i) /\ Is(obj'[i], ph, s, q, obj[i].unreg, obj[i].sessions)
         /\ \/ q = obj[i].reg /\ join' = join
            \/ q = <<>> /\ join' = join \o obj[i].reg
         /\ \/ ph = "stuck" /\ ses' = ses
            \/ ph = "ended" /\ ses' = [ses EXCEPT ![s] = Dropped(@)]
  <2>1. CASE InitDrain(i)
    <3>1. join' = join \o obj[i].reg
      BY Zenon, <2>1 DEF InitDrain
    <3>2. CASE /\ obj' = [obj EXCEPT ![i].phase = "stuck", ![i].reg = <<>>, ![i].meta = FALSE]
               /\ ses' = ses
      <4> DEFINE o == [obj[i] EXCEPT !.phase = "stuck", !.reg = <<>>, !.meta = FALSE]
      <4>1. obj' = [obj EXCEPT ![i] = o]
        BY Zenon, <1>0, <3>2 DEF Shape
      <4>2. Is(o, "stuck", s, <<>>, obj[i].unreg, obj[i].sessions)
        BY <1>0 DEF Is, Whole
      <4> HIDE DEF o
      <4>3. Others(i) /\ Is(obj'[i], "stuck", s, <<>>, obj[i].unreg, obj[i].sessions)
        BY Zenon, <1>0, <4>1, <4>2, ObjectSet
      <4> QED
        BY Zenon, <3>1, <3>2, <4>3
    <3>3. CASE /\ obj' = [obj EXCEPT ![i].phase = "ended", ![i].reg = <<>>, ![i].meta = FALSE,
                                     ![i].exit = <<>>]
               /\ ses' = [ses EXCEPT ![s] = Dropped(@)]
      <4> DEFINE o == [obj[i] EXCEPT !.phase = "ended", !.reg = <<>>, !.meta = FALSE, !.exit = <<>>]
      <4>1. obj' = [obj EXCEPT ![i] = o]
        BY Zenon, <1>0, <3>3 DEF Shape
      <4>2. Is(o, "ended", s, <<>>, obj[i].unreg, obj[i].sessions)
        BY <1>0 DEF Is, Whole
      <4> HIDE DEF o
      <4>3. Others(i) /\ Is(obj'[i], "ended", s, <<>>, obj[i].unreg, obj[i].sessions)
        BY Zenon, <1>0, <4>1, <4>2, ObjectSet
      <4> QED
        BY Zenon, <3>1, <3>3, <4>3
    <3> QED
      BY Zenon, <2>1, <3>2, <3>3 DEF InitDrain
  <2>2. CASE InitAbort(i)
    <3> DEFINE o == [obj[i] EXCEPT !.phase = "ended"]
    <3>1. obj' = [obj EXCEPT ![i] = o] /\ join' = join /\ ses' = [ses EXCEPT ![s] = Dropped(@)]
      BY <2>2 DEF InitAbort
    <3>2. Is(o, "ended", s, obj[i].reg, obj[i].unreg, obj[i].sessions)
      BY Zenon, <1>0, FieldSet
    <3> HIDE DEF o
    <3>3. Others(i) /\ Is(obj'[i], "ended", s, obj[i].reg, obj[i].unreg, obj[i].sessions)
      BY Zenon, <1>0, <3>1, <3>2, ObjectSet
    <3> QED
      BY Zenon, <3>1, <3>3
  <2> QED
    BY Zenon, <2>1, <2>2
<1>3. Others(i) /\ ph \in {"stuck", "ended"} /\ (q = obj[i].reg \/ q = <<>>)
    BY <1>2
<1>4. /\ Sound(obj'[i]) /\ obj'[i].phase # "absent" /\ obj[i].phase # "absent" /\ s \in Sessions
      /\ Loads(obj[i], s)
      /\ \A z : Serves(obj'[i], z) <=> Serves(obj[i], z)
      /\ \A z : Neat(obj[i], z) => Neat(obj'[i], z)
      /\ \A z : Holds(obj'[i], z) <=> \/ Seen(q, {z}) \/ Seen(obj[i].unreg, Mine(z))
                                      \/ (ph = "stuck" /\ z = s)
  <2>1. GaveUp(obj[i], obj'[i], ph, q)
    BY Zenon, <1>0, <1>1, <1>2, <1>3, GivenUp
  <2> QED
    BY Zenon, <2>1 DEF GaveUp
<1>5. /\ DOMAIN ses' = Sessions
      /\ \A z \in Sessions : /\ WholeSession(ses'[z]) /\ ses'[z].sub = ses[z].sub
                             /\ ses'[z].detach = ses[z].detach /\ ses'[z].conn = ses[z].conn
                             /\ ses'[z].inflight = IF ph = "ended" /\ z = s THEN FALSE
                                                   ELSE ses[z].inflight
  <2>1. CASE ph = "stuck"
    BY Zenon, <1>0, <1>2, <2>1 DEF Shape
  <2>2. CASE ph = "ended"
    <3>1. Rest(s) /\ IsSession(ses'[s], ses[s].conn, FALSE, ses[s].sub, ses[s].detach)
      BY Zenon, <1>2, <1>4, <2>2, SessionDone
    <3> QED
      BY Zenon, <1>0, <2>2, <3>1 DEF Rest, IsSession, Shape
  <2> QED
    BY Zenon, <1>3, <2>1, <2>2
<1> HIDE DEF s
<1>6. Typed'
  <2>1. join' \in Seq(Sessions)
    <3>1. join \in Seq(Sessions) /\ obj[i].reg \in Seq(Sessions)
      BY <1>0, Untaken DEF Sound
    <3>2. join \o obj[i].reg \in Seq(Sessions)
      BY ONLY <3>1
    <3> QED
      BY ONLY <1>2, <3>1, <3>2, Zenon
  <2> QED
    BY Zenon, <1>1, <1>3, <1>4, <1>5, <2>1, Untaken, TypedStep
<1>7. ASSUME NEW z \in Sessions PROVE Linked(z)'
    BY Zenon, <1>3, <1>4, <1>5, Untaken, LinkedFrame
<1>8. ASSUME NEW z \in Sessions PROVE Single(z)'
  <2>1. Single(z) /\ Neat(obj[i], z) /\ Once(join, {z}) /\ ~(Seen(join, {z}) /\ Holds(obj[i], z))
    BY Zenon, Untaken DEF Single
  <2>2. Once(obj[i].reg, {z}) /\ (Seen(obj[i].reg, {z}) => Holds(obj[i], z))
    BY Zenon, <2>1 DEF Neat, Holds
  <2>3. /\ Once(join', {z})
        /\ \/ (Seen(q, {z}) <=> Seen(obj[i].reg, {z})) /\ (Seen(join', {z}) <=> Seen(join, {z}))
           \/ ~Seen(q, {z}) /\ (Seen(join', {z}) <=> Seen(join, {z}) \/ Seen(obj[i].reg, {z}))
    <3>1. CASE join' = join /\ q = obj[i].reg
      BY Zenon, <2>1, <3>1
    <3>2. CASE join' = join \o obj[i].reg /\ q = <<>>
      <4>1. join \in Seq(Sessions) /\ obj[i].reg \in Seq(Sessions)
        BY Zenon, <1>0, Untaken DEF Sound
      <4>2. ~(Seen(join, {z}) /\ Seen(obj[i].reg, {z}))
        BY Zenon, <2>1, <2>2
      <4>3. /\ Seen(join', {z}) <=> Seen(join, {z}) \/ Seen(obj[i].reg, {z})
            /\ Once(join', {z})
        BY <2>1, <2>2, <3>2, <4>1, <4>2, Join
      <4>4. ~Seen(q, {z})
        BY Zenon, <3>2, EmptyQueue
      <4> QED
        BY Zenon, <4>3, <4>4
    <3> QED
      BY Zenon, <1>2, <3>1, <3>2
  <2>4. CASE Seen(obj[i].reg, {z})
    <3>1. z # s /\ ~Seen(obj[i].unreg, Mine(z)) /\ Holds(obj[i], z) /\ ses[z].inflight
      BY Zenon, <1>4, <2>1, <2>2, <2>4 DEF Neat, Single
    <3> QED
      BY Zenon, <1>3, <1>4, <1>5, <2>1, <2>2, <2>3, <2>4, <3>1, SingleMoves
  <2>5. CASE ~Seen(obj[i].reg, {z}) /\ z = s
    <3>1. ~Seen(obj[i].unreg, Mine(z)) /\ Holds(obj[i], z) /\ ses[z].inflight
      BY Zenon, <1>4, <2>1, <2>2, <2>5 DEF Neat, Single, Holds
    <3> QED
      BY Zenon, <1>2, <1>3, <1>4, <1>5, <2>1, <2>2, <2>3, <2>5, <3>1, SingleMoves
  <2>6. CASE ~Seen(obj[i].reg, {z}) /\ z # s
    <3>1. Holds(obj[i], z) <=> Seen(obj[i].unreg, Mine(z))
      BY Zenon, <1>4, <2>6 DEF Holds, Loads
    <3> QED
      BY Zenon, <1>3, <1>4, <1>5, <2>1, <2>3, <2>6, <3>1, SingleFrame
  <2> QED
    BY Zenon, <2>4, <2>5, <2>6
<1> QED
    BY Zenon, <1>6, <1>7, <1>8 DEF Kept

-----------------------------------------------------------------------------
(* runLocal: the object takes a {sub}. *)
LEMMA TimerSame == ASSUME NEW o, Whole(o) PROVE Same(StartTimer(o), o)
    BY Zenon, FieldSet, SameItself DEF StartTimer

LEMMA SameIs ==
    ASSUME NEW o, NEW p, Same(p, o), NEW a, NEW b, NEW c, NEW d, NEW e, Is(o, a, b, c, d, e)
    PROVE  Is(p, a, b, c, d, e) /\ Whole(p)
    BY DEF Same, Is

LEMMA RegGet ==
    ASSUME NEW o, Sound(o), o.phase = "running", o.reg # <<>>, NEW p, NEW attached,
           Is(p, "running", o.initBy, Tail(o.reg), o.unreg, attached)
    PROVE  /\ Sound(p) /\ p.phase = "running" /\ Head(o.reg) \in Sessions
           /\ \A z : Neat(o, z) =>
                 /\ Neat(p, z)
                 /\ Holds(p, z) <=> Holds(o, z) /\ z # Head(o.reg)
                 /\ z = Head(o.reg) => Holds(o, z)
<1>1. o.reg \in Seq(Sessions) /\ o.unreg \in Seq(LeaveMsg) /\ o.initBy \in Sessions
    BY Zenon DEF Sound
<1>2. /\ p.phase = "running" /\ p.initBy = o.initBy /\ p.reg = Tail(o.reg) /\ p.unreg = o.unreg
      /\ Whole(p)
    BY Zenon DEF Is
<1>3. Tail(o.reg) \in Seq(Sessions) /\ Head(o.reg) \in Sessions
    BY <1>1
<1>4. Sound(p)
    BY Zenon, <1>1, <1>2, <1>3 DEF Sound
<1>5. ASSUME NEW z PROVE ~Loads(p, z) /\ ~Loads(o, z)
    BY Zenon, <1>2 DEF Loads, Initialising
<1>6. ASSUME NEW z, Neat(o, z)
      PROVE  /\ Neat(p, z) /\ (Holds(p, z) <=> Holds(o, z) /\ z # Head(o.reg))
             /\ z = Head(o.reg) => Holds(o, z)
  <2>1. Once(o.reg, {z})
    BY Zenon, <1>6 DEF Neat
  <2>2. /\ Once(p.reg, {z})
        /\ Seen(p.reg, {z}) <=> Seen(o.reg, {z}) /\ Head(o.reg) \notin {z}
        /\ Head(o.reg) \in {z} => Seen(o.reg, {z})
    <3> DEFINE q == o.reg
               S == {z}
    <3>1. q \in Seq(Sessions) /\ q # <<>> /\ Once(q, S)
      BY Zenon, <1>1, <2>1
    <3> HIDE DEF q, S
    <3>2. /\ Once(Tail(q), S)
          /\ Seen(Tail(q), S) <=> Seen(q, S) /\ Head(q) \notin S
          /\ Head(q) \in S => Seen(q, S)
      BY ONLY <3>1, Get
    <3> QED
      BY Zenon, <1>2, <3>2 DEF q, S
  <2> QED
    BY Zenon, <1>2, <1>5, <1>6, <2>2 DEF Neat, Holds
<1> QED
    BY Zenon, <1>2, <1>3, <1>4, <1>6

LEMMA RegisterStep == ASSUME Kept, NEW i \in Topics, RegisterSession(i) PROVE Kept'
<1> DEFINE s == Head(obj[i].reg)
           took == [obj[i] EXCEPT !.reg = Tail(@)]
           in == [took EXCEPT !.sessions = @ \cup {s}, !.killTimer = FALSE]
           off == [took EXCEPT !.killTimer = FALSE]
           A == obj[i].sessions
           R(p, a) == Is(p, "running", obj[i].initBy, Tail(obj[i].reg), obj[i].unreg, a)
<1>0. Sound(obj[i]) /\ Whole(obj[i]) /\ Shape
    BY Zenon, Untaken
<1>1. /\ join' = join /\ created' = created /\ topic' = topic
      /\ obj[i].phase = "running" /\ obj[i].reg # <<>>
    BY Zenon DEF RegisterSession
<1>2. s \in Sessions /\ WholeSession(ses[s])
    BY <1>0, <1>1, Untaken DEF Sound
<1>3. R(took, A)
    BY Zenon, <1>0, <1>1, FieldSet
<1>4. R(in, A \cup {s}) /\ R(off, A)
    BY <1>3 DEF Is, Whole
<1>5. R(StartTimer(off), A)
  <2>1. Whole(off)
    BY <1>4 DEF Is
  <2> HIDE DEF off
  <2> QED
    BY <1>4, <2>1, TimerSame, SameIs
<1>6. \/ /\ obj' = [obj EXCEPT ![i] = took] \/ obj' = [obj EXCEPT ![i] = StartTimer(off)]
         /\ ses' = [ses EXCEPT ![s] = Answered(@)]
      \/ /\ obj' = [obj EXCEPT ![i] = in] /\ ses[s].sub = None
         /\ ses' = [ses EXCEPT ![s] = [Answered(@) EXCEPT !.sub = i]]
    BY Zenon DEF RegisterSession
<1> HIDE DEF took, in, off
<1>7. \/ /\ Others(i) /\ R(obj'[i], A)
         /\ Rest(s) /\ IsSession(ses'[s], ses[s].conn, FALSE, ses[s].sub, ses[s].detach)
      \/ /\ Others(i) /\ R(obj'[i], A \cup {s}) /\ ses[s].sub = None
         /\ Rest(s) /\ IsSession(ses'[s], ses[s].conn, FALSE, i, ses[s].detach)
  <2>1. CASE /\ obj' = [obj EXCEPT ![i] = took] \/ obj' = [obj EXCEPT ![i] = StartTimer(off)]
             /\ ses' = [ses EXCEPT ![s] = Answered(@)]
    <3>1. Others(i) /\ R(obj'[i], A)
      BY Zenon, <1>0, <1>3, <1>5, <2>1, ObjectSet
    <3>2. Rest(s) /\ IsSession(ses'[s], ses[s].conn, FALSE, ses[s].sub, ses[s].detach)
      BY Zenon, <1>2, <2>1, SessionDone
    <3> QED
      BY Zenon, <3>1, <3>2
  <2>2. CASE /\ obj' = [obj EXCEPT ![i] = in] /\ ses[s].sub = None
             /\ ses' = [ses EXCEPT ![s] = [Answered(@) EXCEPT !.sub = i]]
    <3>1. Others(i) /\ R(obj'[i], A \cup {s})
      BY Zenon, <1>0, <1>4, <2>2, ObjectSet
    <3>2. IsSession([Answered(ses[s]) EXCEPT !.sub = i], ses[s].conn, FALSE, i, ses[s].detach)
      BY <1>2 DEF WholeSession, IsSession, Answered
    <3>3. Rest(s) /\ IsSession(ses'[s], ses[s].conn, FALSE, i, ses[s].detach)
      BY Zenon, <1>0, <1>2, <2>2, <3>2, SessionSet
    <3> QED
      BY Zenon, <2>2, <3>1, <3>3
  <2> QED
    BY Zenon, <1>6, <2>1, <2>2
<1>8. PICK a, b : /\ Others(i) /\ R(obj'[i], a)
                  /\ Rest(s) /\ IsSession(ses'[s], ses[s].conn, FALSE, b, ses[s].detach)
                  /\ \/ a = A /\ b = ses[s].sub
                     \/ a = A \cup {s} /\ b = i /\ ses[s].sub = None
    BY Zenon, <1>7
<1>9. /\ Sound(obj'[i]) /\ obj'[i].phase = "running"
      /\ \A z : Neat(obj[i], z) =>
                 /\ Neat(obj'[i], z)
                 /\ Holds(obj'[i], z) <=> Holds(obj[i], z) /\ z # s
                 /\ z = s => Holds(obj[i], z)
    BY Zenon, <1>0, <1>1, <1>8, RegGet
<1>10. obj'[i].sessions = a
    BY Zenon, <1>8 DEF Is
<1> HIDE DEF s, A, R
<1>11. Typed'
  <2>1. Made(i) /\ created' \in Nat /\ created' >= created /\ join' \in Seq(Sessions)
    BY Zenon, <1>1, Untaken DEF Made
  <2>2. ~(i > created')
    BY Zenon, <1>1, Untaken
  <2>3. /\ DOMAIN ses' = Sessions
        /\ \A z \in Sessions : /\ WholeSession(ses'[z]) /\ ses'[z].detach \subseteq Topics
                               /\ ses'[z].sub \in {ses[z].sub, None, i}
    BY Zenon, <1>8, Untaken DEF Rest, IsSession
  <2> QED
    BY Zenon, <1>1, <1>8, <1>9, <2>1, <2>2, <2>3, Untaken, TypedFrame
<1>12. ASSUME NEW z \in Sessions PROVE Linked(z)'
  <2>0. Linked(z)
    BY Zenon, Untaken
  <2>1. CASE z # s \/ (a = A /\ b = ses[s].sub)
    <3>1. ses'[z].sub = ses[z].sub /\ ses'[z].conn = ses[z].conn /\ ses'[z].detach = ses[z].detach
      BY Zenon, <1>8, <2>1 DEF Rest, IsSession
    <3>2. Serves(obj'[i], z) <=> Serves(obj[i], z)
      BY Zenon, <1>1, <1>8, <1>9, <1>10, <2>1 DEF Serves, A
    <3> QED
      BY Zenon, <1>8, <2>0, <3>1, <3>2, LinkedFrame
  <2>2. CASE z = s /\ a = A \cup {s} /\ b = i /\ ses[s].sub = None
    <3>1. ses'[z].sub = i /\ ses'[z].detach = ses[z].detach
      BY Zenon, <1>8, <2>2 DEF IsSession
    <3>2. Serves(obj'[i], z)
      BY Zenon, <1>9, <1>10, <2>2 DEF Serves
    <3>3. ASSUME NEW j \in Topics PROVE ~Serves(obj[j], z) /\ j \notin ses[z].detach
      BY <2>0, <2>2, NoneAssumption DEF Linked, Topics
    <3>4. ASSUME NEW j \in Topics PROVE Serves(obj'[j], z) <=> j = i
      BY <1>8, <3>2, <3>3 DEF Others
    <3> QED
      BY Zenon, <3>1, <3>3, <3>4 DEF Linked
  <2> QED
    BY Zenon, <1>8, <2>1, <2>2
<1>13. ASSUME NEW z \in Sessions PROVE Single(z)'
  <2>1. /\ Single(z) /\ Neat(obj[i], z) /\ Once(join, {z})
        /\ ~(Seen(join, {z}) /\ Holds(obj[i], z))
    BY Zenon, Untaken DEF Single
  <2>2. CASE z = s
    <3>1. ~ses'[z].inflight
      BY Zenon, <1>8, <2>2 DEF IsSession
    <3> QED
      BY Zenon, <1>1, <1>8, <1>9, <2>1, <2>2, <3>1, SingleMoves
  <2>3. CASE z # s
    <3>1. ses'[z].inflight = ses[z].inflight
      BY Zenon, <1>8, <2>3 DEF Rest
    <3> QED
      BY Zenon, <1>1, <1>8, <1>9, <2>1, <2>3, <3>1, SingleFrame
  <2> QED
    BY Zenon, <2>2, <2>3
<1> QED
    BY Zenon, <1>11, <1>12, <1>13 DEF Kept

(* runLocal: the object takes a leave request. *)
LEMMA UnregGet ==
    ASSUME NEW o, Sound(o), o.phase = "running", o.unreg # <<>>, NEW p, NEW attached,
           Is(p, "running", o.initBy, o.reg, Tail(o.unreg), attached)
    PROVE  /\ Sound(p) /\ p.phase = "running"
           /\ \A z : Neat(o, z) =>
                 /\ Neat(p, z)
                 /\ Holds(p, z) <=> Holds(o, z) /\ Head(o.unreg) \notin Mine(z)
                 /\ Head(o.unreg) \in Mine(z) => Holds(o, z)
<1>1. o.reg \in Seq(Sessions) /\ o.unreg \in Seq(LeaveMsg) /\ o.initBy \in Sessions
    BY Zenon DEF Sound
<1>2. /\ p.phase = "running" /\ p.initBy = o.initBy /\ p.reg = o.reg /\ p.unreg = Tail(o.unreg)
      /\ Whole(p)
    BY DEF Is
<1>3. Tail(o.unreg) \in Seq(LeaveMsg)
    BY <1>1
<1>4. Sound(p)
    BY Zenon, <1>1, <1>2, <1>3 DEF Sound
<1>5. ASSUME NEW z PROVE ~Loads(p, z) /\ ~Loads(o, z)
    BY Zenon, <1>2 DEF Loads, Initialising
<1>6. ASSUME NEW z, Neat(o, z)
      PROVE  /\ Neat(p, z) /\ (Holds(p, z) <=> Holds(o, z) /\ Head(o.unreg) \notin Mine(z))
             /\ Head(o.unreg) \in Mine(z) => Holds(o, z)
  <2>1. Once(o.unreg, Mine(z))
    BY Zenon, <1>6 DEF Neat
  <2>2. /\ Once(p.unreg, Mine(z))
        /\ Seen(p.unreg, Mine(z)) <=> Seen(o.unreg, Mine(z)) /\ Head(o.unreg) \notin Mine(z)
        /\ Head(o.unreg) \in Mine(z) => Seen(o.unreg, Mine(z))
    <3> DEFINE q == o.unreg
               S == Mine(z)
    <3>1. q \in Seq(LeaveMsg) /\ q # <<>> /\ Once(q, S)
      BY Zenon, <1>1, <2>1
    <3> HIDE DEF q, S
    <3>2. /\ Once(Tail(q), S)
          /\ Seen(Tail(q), S) <=> Seen(q, S) /\ Head(q) \notin S
          /\ Head(q) \in S => Seen(q, S)
      BY ONLY <3>1, Get
    <3> QED
      BY Zenon, <1>2, <3>2 DEF q, S
  <2> QED
    BY Zenon, <1>2, <1>5, <1>6, <2>2 DEF Neat, Holds
<1> QED
    BY Zenon, <1>2, <1>4, <1>6

(* Sessions are told that the object is gone. *)
Told(i, z) == IF z \in obj[i].sessions /\ ses[z].conn = "open" THEN ses[z].detach \cup {i}
              ELSE ses[z].detach

LEMMA EvictedSessions ==
    ASSUME Kept, NEW i \in Topics
    PROVE  /\ DOMAIN Evicted(i) = Sessions
           /\ \A z \in Sessions :
                 IsSession(Evicted(i)[z], ses[z].conn, ses[z].inflight, ses[z].sub, Told(i, z))
<1>1. ASSUME NEW z \in Sessions
      PROVE  IsSession(Evicted(i)[z], ses[z].conn, ses[z].inflight, ses[z].sub, Told(i, z))
  <2>0. WholeSession(ses[z])
    BY Untaken
  <2>1. CASE z \in obj[i].sessions /\ ses[z].conn = "open"
    <3>1. Evicted(i)[z] = [ses[z] EXCEPT !.detach = ses[z].detach \cup {i}]
      BY <2>1 DEF Evicted
    <3>2. Told(i, z) = ses[z].detach \cup {i}
      BY Zenon, <2>1 DEF Told
    <3> QED
      BY <2>0, <3>1, <3>2 DEF IsSession, WholeSession
  <2>2. CASE ~(z \in obj[i].sessions /\ ses[z].conn = "open")
    <3>1. Evicted(i)[z] = ses[z] /\ Told(i, z) = ses[z].detach
      BY Zenon, <2>2 DEF Evicted, Told
    <3> QED
      BY <2>0, <3>1 DEF IsSession
  <2> QED
    BY Zenon, <2>1, <2>2
<1> QED
    BY Zenon, <1>1 DEF Evicted

LEMMA LinkedEvict ==
    ASSUME Kept, NEW i \in Topics, obj[i].phase = "running", Others(i), NEW z \in Sessions,
           ~Serves(obj'[i], z),
           ses'[z].sub = ses[z].sub, ses'[z].conn = ses[z].conn, ses'[z].detach = Told(i, z)
    PROVE  Linked(z)'
<1>0. Linked(z)
    BY Zenon, Untaken
<1>1. ASSUME NEW j \in Topics, j # i
      PROVE  /\ Serves(obj'[j], z) <=> Serves(obj[j], z)
             /\ j \in ses'[z].detach <=> j \in ses[z].detach
    BY Zenon, <1>1 DEF Others, Told
<1>2. i \in ses'[z].detach => ses[z].sub = i
    BY Zenon, <1>0 DEF Linked, Told, Serves
<1>3. ses[z].conn = "open" /\ ses[z].sub = i => i \in ses'[z].detach
    BY Zenon, <1>0 DEF Linked, Told, Serves
<1>4. ASSUME NEW j \in Topics
      PROVE  /\ Serves(obj'[j], z) => ses'[z].sub = j
             /\ j \in ses'[z].detach => ses'[z].sub = j /\ ~Serves(obj'[j], z)
             /\ ses'[z].conn = "open" /\ ses'[z].sub = j => j \in ses'[z].detach \/ Serves(obj'[j], z)
  <2>1. CASE j = i
    BY Zenon, <1>2, <1>3, <2>1
  <2>2. CASE j # i
    BY Zenon, <1>0, <1>1, <2>2 DEF Linked
  <2> QED
    BY Zenon, <2>1, <2>2
<1> QED
    BY Zenon, <1>4 DEF Linked

(* The topic is emptied by {del} or ends: nothing is taken from its queues. *)
LEMMA EvictStep ==
    ASSUME Kept, NEW i \in Topics, DelTopicMeta(i) \/ TopicTermination(i) PROVE Kept'
<1> DEFINE o == obj[i]
<1>0. Sound(o) /\ Whole(o) /\ Shape
    BY Untaken
<1>1. /\ join' = join /\ created' = created /\ topic' = topic /\ o.phase = "running"
      /\ ses' = Evicted(i)
    BY Zenon DEF DelTopicMeta, TopicTermination
<1>2. PICK ph, a : /\ Others(i) /\ Is(obj'[i], ph, o.initBy, o.reg, o.unreg, a)
                   /\ (ph = "running" /\ a = {}) \/ ph = "ended"
  <2>1. CASE DelTopicMeta(i)
    <3> DEFINE p == [Emptied(o) EXCEPT !.meta = FALSE]
    <3>1. obj' = [obj EXCEPT ![i] = p]
      BY <2>1 DEF DelTopicMeta
    <3>2. Is(p, "running", o.initBy, o.reg, o.unreg, {})
      BY <1>0, <1>1 DEF Is, Whole, Emptied
    <3> HIDE DEF p
    <3>3. Others(i) /\ Is(obj'[i], "running", o.initBy, o.reg, o.unreg, {})
      BY Zenon, <1>0, <3>1, <3>2, ObjectSet
    <3> QED
      BY Zenon, <3>3
  <2>2. CASE TopicTermination(i)
    <3> DEFINE p == [o EXCEPT !.phase = "ended", !.exit = <<>>, !.killTimer = FALSE]
    <3>1. obj' = [obj EXCEPT ![i] = p]
      BY Zenon, <1>0, <2>2 DEF TopicTermination, Shape
    <3>2. Is(p, "ended", o.initBy, o.reg, o.unreg, o.sessions)
      BY <1>0 DEF Is, Whole
    <3> HIDE DEF p
    <3>3. Others(i) /\ Is(obj'[i], "ended", o.initBy, o.reg, o.unreg, o.sessions)
      BY Zenon, <1>0, <3>1, <3>2, ObjectSet
    <3> QED
      BY Zenon, <3>3
  <2> QED
    BY <2>1, <2>2
<1>3. /\ Sound(obj'[i]) /\ obj'[i].phase # "absent" /\ Others(i)
      /\ \A z : /\ ~Serves(obj'[i], z)
                /\ Neat(obj'[i], z) <=> Neat(o, z)
                /\ Holds(obj'[i], z) <=> Holds(o, z)
  <2>1. /\ obj'[i].phase = ph /\ obj'[i].initBy = o.initBy /\ obj'[i].reg = o.reg
        /\ obj'[i].unreg = o.unreg /\ obj'[i].sessions = a /\ Whole(obj'[i])
    BY Zenon, <1>2 DEF Is
  <2>2. Sound(obj'[i]) /\ obj'[i].phase # "absent"
    BY Zenon, <1>0, <1>1, <1>2, <2>1 DEF Sound
  <2>3. ASSUME NEW z PROVE ~Serves(obj'[i], z) /\ ~Loads(obj'[i], z) /\ ~Loads(o, z)
    BY Zenon, <1>1, <1>2, <2>1 DEF Serves, Loads, Initialising
  <2> QED
    BY Zenon, <1>2, <2>1, <2>2, <2>3 DEF Neat, Holds
<1>4. /\ DOMAIN ses' = Sessions
      /\ \A z \in Sessions : /\ WholeSession(ses'[z]) /\ ses'[z].sub = ses[z].sub
                             /\ ses'[z].detach = Told(i, z) /\ ses'[z].conn = ses[z].conn
                             /\ ses'[z].inflight = ses[z].inflight
    BY Zenon, <1>1, EvictedSessions DEF IsSession
<1>5. Typed'
  <2>1. ASSUME NEW z \in Sessions PROVE ses'[z].detach \subseteq Topics
    <3>1. ses[z].detach \subseteq Topics /\ ses'[z].detach = Told(i, z)
      BY Zenon, <1>4, Untaken
    <3> QED
      BY Zenon, <3>1 DEF Told
  <2> QED
    BY Zenon, <1>1, <1>3, <1>4, <2>1, Untaken, TypedStep
<1>6. ASSUME NEW z \in Sessions PROVE Linked(z)'
    BY Zenon, <1>1, <1>3, <1>4, LinkedEvict
<1>7. ASSUME NEW z \in Sessions PROVE Single(z)'
  <2>1. Single(z) /\ Neat(o, z) /\ Once(join, {z})
    BY Zenon, Untaken DEF Single
  <2> QED
    BY Zenon, <1>1, <1>3, <1>4, <2>1, SingleFrame
<1> QED
    BY Zenon, <1>5, <1>6, <1>7 DEF Kept

LEMMA UnregisterStep == ASSUME Kept, NEW i \in Topics, UnregisterSession(i) PROVE Kept'
<1> DEFINE o == obj[i]
           m == Head(o.unreg)
           s == m.sess
           took == [o EXCEPT !.unreg = Tail(@)]
           out == [took EXCEPT !.sessions = @ \ {s}]
           R(p, a) == Is(p, "running", o.initBy, o.reg, Tail(o.unreg), a)
           f == IF m.init THEN FALSE ELSE ses[s].inflight
           reply(x) == IF m.init THEN Answered(x) ELSE x
           dropped(x) == IF m.init THEN Dropped(x) ELSE x
           left(x) == [reply(x) EXCEPT !.sub = None]
<1>0. Sound(o) /\ Whole(o) /\ Shape
    BY Zenon, Untaken
<1>1. /\ join' = join /\ created' = created /\ topic' = topic
      /\ o.phase = "running" /\ o.unreg # <<>>
    BY Zenon DEF UnregisterSession
<1>2. m \in LeaveMsg /\ s \in Sessions /\ WholeSession(ses[s])
  <2>1. m \in LeaveMsg
    BY <1>0, <1>1 DEF Sound
  <2>2. s \in Sessions
    BY <2>1 DEF LeaveMsg
  <2> QED
    BY Zenon, <2>1, <2>2, Untaken
<1>3. \A z \in Sessions : m \in Mine(z) <=> m.init /\ z = s
    BY Zenon, <1>2 DEF Mine
<1>4. R(took, o.sessions)
    BY Zenon, <1>0, <1>1, FieldSet
<1>5. R(Emptied(took), {}) /\ R(out, o.sessions \ {s})
    BY <1>4 DEF Is, Whole, Emptied
<1>6. \/ /\ obj' = [obj EXCEPT ![i] = StartTimer(took)]
         /\ ses' = [ses EXCEPT ![s] = reply(ses[s])]
            \/ ses' = [ses EXCEPT ![s] = dropped(ses[s])]
      \/ /\ obj' = [obj EXCEPT ![i] = StartTimer(Emptied(took))]
         /\ ses' = [Evicted(i) EXCEPT ![s] = reply(Evicted(i)[s])]
      \/ /\ s \in o.sessions
         /\ obj' = [obj EXCEPT ![i] = StartTimer(out)]
         /\ ses' = [ses EXCEPT ![s] = left(ses[s])]
  <2>1. DOMAIN Evicted(i) = Sessions
    BY EvictedSessions
  <2> QED
    BY Zenon, <1>0, <1>2, <2>1 DEF UnregisterSession, Shape
<1> HIDE DEF took, out
<1>7. ASSUME NEW p, NEW a, R(p, a), obj' = [obj EXCEPT ![i] = StartTimer(p)]
      PROVE  Others(i) /\ R(obj'[i], a)
  <2>1. Whole(p)
    BY Zenon, <1>7 DEF Is
  <2>2. R(StartTimer(p), a)
    BY <1>7, <2>1, TimerSame, SameIs
  <2> QED
    BY Zenon, <1>0, <1>7, <2>2, ObjectSet
<1>8. ASSUME NEW x, NEW c, NEW b, NEW d, IsSession(x, c, ses[s].inflight, b, d)
      PROVE  /\ IsSession(reply(x), c, f, b, d)
             /\ IsSession(dropped(x), c, f, b, d)
             /\ IsSession(left(x), c, f, None, d)
    BY Zenon, <1>8 DEF IsSession, WholeSession, Answered, Dropped
<1>9. IsSession(ses[s], ses[s].conn, ses[s].inflight, ses[s].sub, ses[s].detach)
    BY Zenon, <1>2 DEF IsSession
<1> HIDE DEF m, s, R, f, reply, dropped, left
<1>10. ASSUME NEW a, Others(i), R(obj'[i], a),
              DOMAIN ses' = Sessions,
              \A z \in Sessions : /\ WholeSession(ses'[z]) /\ ses'[z].detach \subseteq Topics
                                  /\ ses'[z].sub \in {ses[z].sub, None},
              ses'[s].inflight = f, \A z \in Sessions : z # s => ses'[z].inflight = ses[z].inflight,
              \A z \in Sessions : Linked(z)'
       PROVE  Kept'
  <2>1. /\ Sound(obj'[i]) /\ obj'[i].phase = "running"
        /\ \A z : Neat(o, z) =>
                 /\ Neat(obj'[i], z)
                 /\ Holds(obj'[i], z) <=> Holds(o, z) /\ m \notin Mine(z)
                 /\ m \in Mine(z) => Holds(o, z)
    BY Zenon, <1>0, <1>1, <1>10, UnregGet DEF R, m
  <2>2. Typed'
    BY Zenon, <1>1, <1>10, <2>1, Untaken, TypedStep
  <2>3. ASSUME NEW z \in Sessions PROVE Single(z)'
    <3>1. /\ Single(z) /\ Neat(o, z) /\ Once(join, {z}) /\ ~(Seen(join, {z}) /\ Holds(o, z))
      BY Zenon, Untaken DEF Single
    <3>2. CASE m \in Mine(z)
      <4>1. ~ses'[z].inflight
        BY Zenon, <1>3, <1>10, <3>2 DEF f
      <4> QED
        BY Zenon, <1>1, <1>10, <2>1, <3>1, <3>2, <4>1, SingleMoves
    <3>3. CASE m \notin Mine(z)
      <4>1. ses'[z].inflight = ses[z].inflight
        BY Zenon, <1>3, <1>10, <3>3 DEF f
      <4> QED
        BY Zenon, <1>1, <1>10, <2>1, <3>1, <3>3, <4>1, SingleFrame
    <3> QED
      BY Zenon, <3>2, <3>3
  <2> QED
    BY <1>10, <2>2, <2>3 DEF Kept
<1>11. CASE /\ obj' = [obj EXCEPT ![i] = StartTimer(took)]
            /\ ses' = [ses EXCEPT ![s] = reply(ses[s])]
               \/ ses' = [ses EXCEPT ![s] = dropped(ses[s])]
  <2>1. Others(i) /\ R(obj'[i], o.sessions)
    BY Zenon, <1>4, <1>7, <1>11
  <2>2. Rest(s) /\ IsSession(ses'[s], ses[s].conn, f, ses[s].sub, ses[s].detach)
    <3>1. /\ IsSession(reply(ses[s]), ses[s].conn, f, ses[s].sub, ses[s].detach)
          /\ IsSession(dropped(ses[s]), ses[s].conn, f, ses[s].sub, ses[s].detach)
      BY Zenon, <1>8, <1>9
    <3> QED
      BY Zenon, <1>0, <1>2, <1>11, <3>1, SessionSet
  <2>3. ASSUME NEW z \in Sessions PROVE Linked(z)'
    <3>1. ses'[z].sub = ses[z].sub /\ ses'[z].conn = ses[z].conn /\ ses'[z].detach = ses[z].detach
      BY Zenon, <2>2 DEF Rest, IsSession
    <3>2. Serves(obj'[i], z) <=> Serves(o, z)
      BY Zenon, <1>1, <2>1 DEF Serves, R, Is
    <3> QED
      BY Zenon, <2>1, <3>1, <3>2, Untaken, LinkedFrame
  <2>4. /\ DOMAIN ses' = Sessions
        /\ \A z \in Sessions : /\ WholeSession(ses'[z]) /\ ses'[z].detach \subseteq Topics
                               /\ ses'[z].sub \in {ses[z].sub, None}
    BY Zenon, <1>2, <2>2, OneSession
  <2>5. ses'[s].inflight = f /\ \A z \in Sessions : z # s => ses'[z].inflight = ses[z].inflight
    BY Zenon, <2>2 DEF Rest, IsSession
  <2> QED
    BY Zenon, <1>10, <2>1, <2>3, <2>4, <2>5
<1>12. CASE /\ obj' = [obj EXCEPT ![i] = StartTimer(Emptied(took))]
            /\ ses' = [Evicted(i) EXCEPT ![s] = reply(Evicted(i)[s])]
  <2>1. Others(i) /\ R(obj'[i], {})
    BY Zenon, <1>5, <1>7, <1>12
  <2>2. \A z \in Sessions :
           IsSession(Evicted(i)[z], ses[z].conn, ses[z].inflight, ses[z].sub, Told(i, z))
    BY EvictedSessions
  <2>3. /\ DOMAIN ses' = Sessions /\ ses'[s] = reply(Evicted(i)[s])
        /\ \A z \in Sessions : z # s => ses'[z] = Evicted(i)[z]
    BY <1>2, <1>12, EvictedSessions
  <2>4. IsSession(ses'[s], ses[s].conn, f, ses[s].sub, Told(i, s))
    BY Zenon, <1>2, <1>8, <2>2, <2>3
  <2>5. ASSUME NEW z \in Sessions
        PROVE  /\ WholeSession(ses'[z]) /\ ses'[z].sub = ses[z].sub /\ ses'[z].conn = ses[z].conn
               /\ ses'[z].detach = Told(i, z) /\ (z # s => ses'[z].inflight = ses[z].inflight)
    BY Zenon, <2>2, <2>3, <2>4 DEF IsSession
  <2>6. ASSUME NEW z \in Sessions PROVE Linked(z)'
    <3>1. ~Serves(obj'[i], z)
      BY <2>1 DEF Serves, R, Is
    <3> QED
      BY Zenon, <1>1, <2>1, <2>5, <3>1, LinkedEvict
  <2>7. ASSUME NEW z \in Sessions PROVE ses'[z].detach \subseteq Topics
    <3>1. ses[z].detach \subseteq Topics /\ ses'[z].detach = Told(i, z)
      BY Zenon, <2>5, Untaken
    <3> QED
      BY Zenon, <3>1 DEF Told
  <2>8. ses'[s].inflight = f
    BY Zenon, <2>4 DEF IsSession
  <2> QED
    BY <1>10, <2>1, <2>3, <2>5, <2>6, <2>7, <2>8
<1>13. CASE /\ s \in o.sessions
            /\ obj' = [obj EXCEPT ![i] = StartTimer(out)]
            /\ ses' = [ses EXCEPT ![s] = left(ses[s])]
  <2>1. Others(i) /\ R(obj'[i], o.sessions \ {s})
    BY Zenon, <1>5, <1>7, <1>13
  <2>2. Rest(s) /\ IsSession(ses'[s], ses[s].conn, f, None, ses[s].detach)
    <3>1. IsSession(left(ses[s]), ses[s].conn, f, None, ses[s].detach)
      BY <1>8, <1>9
    <3> QED
      BY Zenon, <1>0, <1>2, <1>13, <3>1, SessionSet
  <2>3. ASSUME NEW z \in Sessions PROVE Linked(z)'
    <3>0. Linked(z) /\ obj'[i].phase = "running" /\ obj'[i].sessions = o.sessions \ {s}
      BY Zenon, <2>1, Untaken DEF R, Is
    <3>1. CASE z # s
      <4>1. ses'[z] = ses[z] /\ (Serves(obj'[i], z) <=> Serves(o, z))
        BY Zenon, <1>1, <2>2, <3>0, <3>1 DEF Rest, Serves
      <4> QED
        BY Zenon, <2>1, <3>0, <4>1, LinkedFrame
    <3>2. CASE z = s
      <4>1. ses[z].sub = i /\ i \notin ses[z].detach /\ ~Serves(obj'[i], z)
        BY Zenon, <1>1, <1>13, <3>0, <3>2 DEF Linked, Serves
      <4>2. ASSUME NEW j \in Topics PROVE ~Serves(obj'[j], z) /\ j \notin ses[z].detach
        BY Zenon, <2>1, <3>0, <4>1 DEF Linked, Others
      <4>3. ses'[z].sub = None /\ ses'[z].detach = ses[z].detach
        BY <2>2, <3>2 DEF IsSession
      <4>4. None \notin Topics
        BY NoneAssumption DEF Topics
      <4> QED
        BY Zenon, <4>2, <4>3, <4>4 DEF Linked
    <3> QED
      BY <3>1, <3>2
  <2>4. /\ DOMAIN ses' = Sessions
        /\ \A z \in Sessions : /\ WholeSession(ses'[z]) /\ ses'[z].detach \subseteq Topics
                               /\ ses'[z].sub \in {ses[z].sub, None}
    BY Zenon, <1>2, <2>2, OneSession
  <2>5. ses'[s].inflight = f /\ \A z \in Sessions : z # s => ses'[z].inflight = ses[z].inflight
    BY <2>2 DEF Rest, IsSession
  <2> QED
    BY Zenon, <1>10, <2>1, <2>3, <2>4, <2>5
<1> QED
    BY Zenon, <1>6, <1>11, <1>12, <1>13

-----------------------------------------------------------------------------
LEMMA KeptStep == Kept /\ [Next]_vars => Kept'
<1> SUFFICES ASSUME Kept, [Next]_vars PROVE Kept'
    OBVIOUS
<1>1. CASE UNCHANGED vars
  <2>1. obj' = obj /\ ses' = ses /\ join' = join /\ created' = created /\ topic' = topic
    BY <1>1 DEF vars
  <2> QED
    BY Zenon, <2>1, NoObject, QuietFrame
<1>2. CASE HubStep \/ StopperStep
    BY Zenon, <1>2, HubJoinStep, QuietSteps DEF HubStep
<1>3. CASE Environment
    BY Zenon, <1>3, QuietSteps, SubscribeStep, LeaveStep, DetachStep DEF Environment
<1>4. ASSUME NEW i \in Topics, InitStep(i) PROVE Kept'
    BY Zenon, <1>4, LoadStep, GiveUpStep, ReadyStep DEF InitStep
<1>5. ASSUME NEW i \in Topics, TopicStep(i) PROVE Kept'
    BY Zenon, <1>5, RegisterStep, UnregisterStep, EvictStep, QuietSteps DEF TopicStep
<1>6. ASSUME NEW s \in Sessions, SessionStep(s) PROVE Kept'
    BY <1>6, DetachStep, UnsubAllStep DEF SessionStep
<1> QED
    BY <1>1, <1>2, <1>3, <1>4, <1>5, <1>6 DEF Next

LEMMA KeptStart == Init => Kept
<1> SUFFICES ASSUME Init PROVE Kept
    OBVIOUS
<1>1. /\ topic = None /\ join = <<>> /\ created = 0
      /\ DOMAIN obj = Topics /\ \A i \in Topics : obj[i] = Absent
      /\ DOMAIN ses = Sessions /\ \A s \in Sessions : ses[s] = Connected
    BY Zenon DEF Init
<1>2. Is(Absent, "absent", None, <<>>, <<>>, {})
    BY Zenon DEF Absent, Is, Whole
<1>3. Sound(Absent) /\ Absent.phase = "absent"
    BY <1>2 DEF Sound, Is
<1>4. IsSession(Connected, "open", FALSE, None, {})
    BY Zenon DEF Connected, IsSession, WholeSession
<1>5. Typed
  <2>1. Shape
    BY Zenon, <1>1, <1>3, <1>4 DEF Shape, IsSession, Sound
  <2>2. join \in Seq(Sessions) /\ created \in Nat
    BY <1>1
  <2>3. \A s \in Sessions : ses[s].sub = None /\ ses[s].detach \subseteq Topics
    BY <1>1, <1>4 DEF IsSession
  <2> QED
    BY Zenon, <1>1, <1>3, <2>1, <2>2, <2>3 DEF Typed, Made
<1>6. \A z : ~Serves(Absent, z) /\ ~Holds(Absent, z)
    BY Zenon, <1>3, AbsentObject
<1>7. ASSUME NEW z \in Sessions PROVE Linked(z)
  <2>1. ses[z].sub = None /\ ses[z].detach = {}
    BY <1>1, <1>4 DEF IsSession
  <2>2. None \notin Topics
    BY NoneAssumption DEF Topics
  <2> QED
    BY Zenon, <1>1, <1>6, <2>1, <2>2 DEF Linked
<1>8. ASSUME NEW z \in Sessions PROVE Single(z)
  <2>1. ~ses[z].inflight
    BY <1>1, <1>4 DEF IsSession
  <2>2. ~Seen(join, {z}) /\ Once(join, {z})
    BY Zenon, <1>1, EmptyQueue
  <2>3. Neat(Absent, z)
    BY <1>2, EmptyQueue DEF Neat, Is, Loads, Initialising
  <2> QED
    BY Zenon, <1>1, <1>6, <2>1, <2>2, <2>3 DEF Single
<1> QED
    BY <1>5, <1>7, <1>8 DEF Kept

-----------------------------------------------------------------------------
(* A running topic and a session agree on whether the session is attached, up
   to a detach message on its way, whatever objects of the name there are: a
   detach message never unlinks a later object. *)
THEOREM AttachedCorrect == Spec => []AttachedBothWays
<1>1. Kept => AttachedBothWays
    BY DEF Kept, Linked, Serves, AttachedBothWays
<1> QED
    BY <1>1, KeptStep, KeptStart, PTL DEF Spec

(* The places of a request, one by one. *)
InPlace(p, s) ==
    \/ \E n \in DOMAIN join : join[n] \in {s} /\ p = <<"join", 0, n>>
    \/ \E i \in Topics : \/ \E n \in DOMAIN obj[i].reg : obj[i].reg[n] \in {s} /\ p = <<"reg", i, n>>
                         \/ \E n \in DOMAIN obj[i].unreg :
                               obj[i].unreg[n] \in Mine(s) /\ p = <<"unreg", i, n>>
                         \/ Loads(obj[i], s) /\ p = <<"init", i, 0>>

LEMMA PlacesEach == ASSUME Kept, NEW s \in Sessions, NEW p PROVE p \in Places(s) <=> InPlace(p, s)
<1>1. ASSUME NEW i \in Topics, NEW n \in DOMAIN obj[i].unreg
      PROVE  obj[i].unreg[n] \in Mine(s) <=> obj[i].unreg[n].sess = s /\ obj[i].unreg[n].init
  <2>1. obj[i].unreg \in Seq(LeaveMsg)
    BY Untaken DEF Sound
  <2>2. obj[i].unreg[n] \in LeaveMsg
    BY <2>1
  <2> QED
    BY Zenon, <2>2 DEF Mine
<1> DEFINE At(i) ==
              \/ \E n \in DOMAIN obj[i].reg : obj[i].reg[n] = s /\ p = <<"reg", i, n>>
              \/ \E n \in DOMAIN obj[i].unreg :
                    obj[i].unreg[n].sess = s /\ obj[i].unreg[n].init /\ p = <<"unreg", i, n>>
              \/ obj[i].initBy = s /\ obj[i].phase \in Initialising /\ p = <<"init", i, 0>>
<1>2. p \in Places(s) <=> \/ \E n \in DOMAIN join : join[n] = s /\ p = <<"join", 0, n>>
                          \/ \E i \in Topics : At(i)
  <2> DEFINE J == {<<"join", 0, k>> : k \in {n \in DOMAIN join : join[n] = s}}
             G(i) == {<<"reg", i, k>> : k \in {n \in DOMAIN obj[i].reg : obj[i].reg[n] = s}}
             U(i) == {<<"unreg", i, k>> : k \in {n \in DOMAIN obj[i].unreg :
                                        obj[i].unreg[n].sess = s /\ obj[i].unreg[n].init}}
             I(i) == {<<"init", i, k>> : k \in {n \in {0} :
                                        obj[i].initBy = s /\ obj[i].phase \in Initialising}}
  <2>1. p \in J <=> \E n \in DOMAIN join : join[n] = s /\ p = <<"join", 0, n>>
    BY Zenon
  <2>2. ASSUME NEW i \in Topics PROVE p \in G(i) \cup U(i) \cup I(i) <=> At(i)
    <3>1. p \in G(i) <=> \E n \in DOMAIN obj[i].reg : obj[i].reg[n] = s /\ p = <<"reg", i, n>>
      BY Zenon
    <3>2. p \in U(i) <=> \E n \in DOMAIN obj[i].unreg :
                    obj[i].unreg[n].sess = s /\ obj[i].unreg[n].init /\ p = <<"unreg", i, n>>
      BY Zenon
    <3>3. p \in I(i) <=> obj[i].initBy = s /\ obj[i].phase \in Initialising /\ p = <<"init", i, 0>>
      BY Zenon
    <3> HIDE DEF G, U, I
    <3> QED
      BY Zenon, <3>1, <3>2, <3>3
  <2>3. Places(s) = J \cup UNION {G(i) \cup U(i) \cup I(i) : i \in Topics}
    BY DEF Places
  <2> HIDE DEF J, G, U, I, At
  <2>4. p \in Places(s) <=> p \in J \/ \E i \in Topics : p \in G(i) \cup U(i) \cup I(i)
    BY Zenon, <2>3
  <2> QED
    BY Zenon, <2>1, <2>2, <2>4
<1>3. ASSUME NEW i \in Topics
      PROVE  At(i) <=> \/ \E n \in DOMAIN obj[i].reg : obj[i].reg[n] \in {s} /\ p = <<"reg", i, n>>
                       \/ \E n \in DOMAIN obj[i].unreg :
                             obj[i].unreg[n] \in Mine(s) /\ p = <<"unreg", i, n>>
                       \/ Loads(obj[i], s) /\ p = <<"init", i, 0>>
    BY Zenon, <1>1 DEF Loads
<1> HIDE DEF At
<1> QED
    BY Zenon, <1>2, <1>3 DEF InPlace

LEMMA PlacesSingle ==
    ASSUME Kept, NEW s \in Sessions
    PROVE  /\ \A p, q \in Places(s) : p = q
           /\ ses[s].inflight <=> Places(s) # {}
<1>0. Single(s)
    BY Untaken
<1>1. ASSUME NEW p, NEW q, InPlace(p, s), InPlace(q, s) PROVE p = q
  <2>1. CASE Seen(join, {s})
    <3>1. ASSUME NEW i \in Topics PROVE ~Holds(obj[i], s)
      BY <1>0, <2>1 DEF Single
    <3>2. ASSUME NEW r, InPlace(r, s) PROVE \E n \in DOMAIN join : join[n] \in {s} /\ r = <<"join", 0, n>>
      BY Zenon, <3>1, <3>2 DEF InPlace, Holds, Seen
    <3>3. Once(join, {s})
      BY <1>0 DEF Single
    <3>4. PICK m \in DOMAIN join : join[m] \in {s} /\ p = <<"join", 0, m>>
      BY <1>1, <3>2
    <3>5. PICK n \in DOMAIN join : join[n] \in {s} /\ q = <<"join", 0, n>>
      BY <1>1, <3>2
    <3>6. m = n
      BY Zenon, <3>3, <3>4, <3>5 DEF Once
    <3> QED
      BY Zenon, <3>4, <3>5, <3>6
  <2>2. CASE ~Seen(join, {s})
    <3> DEFINE At(r, i) ==
                 \/ \E n \in DOMAIN obj[i].reg : obj[i].reg[n] \in {s} /\ r = <<"reg", i, n>>
                 \/ \E n \in DOMAIN obj[i].unreg :
                       obj[i].unreg[n] \in Mine(s) /\ r = <<"unreg", i, n>>
                 \/ Loads(obj[i], s) /\ r = <<"init", i, 0>>
    <3>1. ASSUME NEW r, InPlace(r, s) PROVE \E i \in Topics : At(r, i)
      BY Zenon, <2>2, <3>1 DEF InPlace, Seen
    <3>2. PICK i \in Topics : At(p, i)
      BY Zenon, <1>1, <3>1
    <3>3. PICK j \in Topics : At(q, j)
      BY <1>1, <3>1
    <3>4. Holds(obj[i], s) /\ Holds(obj[j], s)
      BY Zenon, <3>2, <3>3 DEF Holds, Seen
    <3>5. i = j /\ Neat(obj[i], s)
      BY Zenon, <1>0, <3>4 DEF Single
    <3> DEFINE G(r) == \E n \in DOMAIN obj[i].reg : obj[i].reg[n] \in {s} /\ r = <<"reg", i, n>>
               U(r) == \E n \in DOMAIN obj[i].unreg :
                           obj[i].unreg[n] \in Mine(s) /\ r = <<"unreg", i, n>>
               I(r) == Loads(obj[i], s) /\ r = <<"init", i, 0>>
    <3>6. (G(p) \/ U(p) \/ I(p)) /\ (G(q) \/ U(q) \/ I(q))
      BY <3>2, <3>3, <3>5
    <3>7. ASSUME NEW r PROVE (G(r) => Seen(obj[i].reg, {s})) /\ (U(r) => Seen(obj[i].unreg, Mine(s)))
      BY Zenon DEF Seen
    <3>8. ASSUME G(p), G(q) PROVE p = q
      <4>1. PICK m \in DOMAIN obj[i].reg : obj[i].reg[m] \in {s} /\ p = <<"reg", i, m>>
        BY <3>8
      <4>2. PICK n \in DOMAIN obj[i].reg : obj[i].reg[n] \in {s} /\ q = <<"reg", i, n>>
        BY Zenon, <3>8
      <4>3. m = n
        BY Zenon, <3>5, <4>1, <4>2 DEF Neat, Once
      <4> QED
        BY Zenon, <4>1, <4>2, <4>3
    <3>9. ASSUME U(p), U(q) PROVE p = q
      <4>1. PICK m \in DOMAIN obj[i].unreg : obj[i].unreg[m] \in Mine(s) /\ p = <<"unreg", i, m>>
        BY <3>9
      <4>2. PICK n \in DOMAIN obj[i].unreg : obj[i].unreg[n] \in Mine(s) /\ q = <<"unreg", i, n>>
        BY Zenon, <3>9
      <4>3. m = n
        BY <3>5, <4>1, <4>2 DEF Neat, Once
      <4> QED
        BY Zenon, <4>1, <4>2, <4>3
    <3>10. I(p) /\ I(q) => p = q
      BY Zenon
    <3>11. /\ I(p) \/ I(q) => Loads(obj[i], s)
           /\ Loads(obj[i], s) => ~Seen(obj[i].reg, {s}) /\ ~Seen(obj[i].unreg, Mine(s))
           /\ ~(Seen(obj[i].reg, {s}) /\ Seen(obj[i].unreg, Mine(s)))
      BY <3>5 DEF Neat
    <3> HIDE DEF G, U, I
    <3> QED
      BY Zenon, <3>6, <3>7, <3>8, <3>9, <3>10, <3>11
  <2> QED
    BY <2>1, <2>2
<1>2. (\E p : InPlace(p, s)) <=> Seen(join, {s}) \/ \E i \in Topics : Holds(obj[i], s)
    BY Zenon DEF InPlace, Seen, Holds
<1>3. (\E p : InPlace(p, s)) <=> Places(s) # {}
    BY PlacesEach
<1>4. ses[s].inflight <=> Places(s) # {}
    BY <1>0, <1>2, <1>3 DEF Single
<1> QED
    BY Zenon, <1>1, <1>4, PlacesEach

(* inflightReqs of a session is taken exactly while one request of it is in the
   hub, in a topic or in topicInit, for any number of sessions and objects: Done
   is called once for every Add, whichever goroutine ends up with the request. *)
THEOREM OneRequestCorrect == Spec => []OneRequest
<1>1. ASSUME Kept PROVE OneRequest
  <2>1. ASSUME NEW s \in Sessions, ses[s].inflight PROVE \E p \in Places(s) : Places(s) = {p}
    <3>1. PICK p : p \in Places(s)
      BY <1>1, <2>1, PlacesSingle
    <3>2. Places(s) = {p}
      BY <1>1, <3>1, PlacesSingle
    <3> QED
      BY <3>1, <3>2
  <2>2. ASSUME NEW s \in Sessions, ~ses[s].inflight PROVE Places(s) = {}
    BY <1>1, <2>2, PlacesSingle
  <2> QED
    BY <2>1, <2>2 DEF OneRequest
<1> QED
    BY <1>1, KeptStep, KeptStart, PTL DEF Spec
=============================================================================
