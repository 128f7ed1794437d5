------------------------- MODULE TopicAccessSteps -------------------------
(***************************************************************************)
(* The steps that add a subscriber or a reader, change the access of       *)
(* another user, or answer without loading the topic keep the invariant of *)
(* access to a topic.                                                      *)
(***************************************************************************)
EXTENDS TopicAccessFacts

\* The provers of a leaf that names none.
USE SMTT(20), ZenonT(20)

LEMMA NewSubscriberStep ==
    ASSUME Inv, NEW u \in Users, NEW mode \in Wants, NewSubscriber(u, mode)
    PROVE  Inv'
<1> DEFINE sub == subs[u]
           given == GivenBefore(sub)
           want == IF mode = Unset THEN Default ELSE mode
           calls == IF sub.state = "live" THEN 0 ELSE 1
           p == Entry(want, given, FALSE)
<1>1. TypeOK /\ OwnerOK /\ \A x \in Users : UserOK(x)
    BY DEF Inv
<1>2. /\ t.loaded /\ ~Cached(u) /\ "J" \in given
      /\ UNCHANGED <<chnSubs, pending, offered, unseen>>
    BY DEF NewSubscriber
<1>3. PICK done \in 0..calls, ok \in BOOLEAN :
        /\ Calls(calls, done, ok)
        /\ IF done = 1 THEN Create(u, want, given) ELSE UNCHANGED <<subs, row>>
        /\ IF ok THEN Settle(t, u, p, TRUE, TRUE, FALSE) ELSE UNCHANGED <<t, sessions>>
        /\ Upset(FALSE, FALSE)
        /\ Followed(banned, Bans(selfBanned, u, want, ok))
    BY Zenon DEF NewSubscriber
<1>4. /\ sub \in Subscription /\ UserOK(u)
      /\ t \in Topics /\ sessions \in AttachedSessions /\ faults \in Nat
    BY <1>1 DEF TypeOK
<1>5. want \in Mode /\ given \in Mode /\ calls \in Nat /\ p \in Cache
    BY <1>4, ModesAssumption DEF GivenBefore, Subscription, Entry, Cache
<1>6. /\ "O" \in given => u \in offered
      /\ sub.state = "none" \/ given = sub.given
    BY <1>4, ModesAssumption DEF GivenBefore, UserOK, GivenOK
<1>7. sessions[u] = NoSess
    BY <1>2, <1>4 DEF UserOK, AttachedOK, Attached
<1>8. /\ p.want = want /\ p.given = given /\ p.isChan = FALSE /\ p.online = 0
    BY DEF Entry
<1>9. /\ subs' \in [Users -> Subscription] /\ row' \in [owner : Users, usebt : BOOLEAN]
      /\ \A x \in Users \ {u} : subs'[x] = subs[x]
      /\ subs'[u] = IF done = 1 THEN Row(want, given) ELSE sub
      /\ row'.owner # row.owner => row'.owner = u /\ done = 1 /\ "O" \in want \cap given
    <2> HIDE DEF want, given
    <2> QED
      BY <1>1, <1>3, <1>5, CreateFacts
<1> HIDE DEF given, want, calls, p
<1>10. /\ faults' \in Nat /\ banned' \subseteq Users /\ selfBanned' \subseteq Users
       /\ ok => done = calls
       /\ Calm' => /\ Calm /\ ok
                   /\ banned' = banned /\ selfBanned' = Bans(selfBanned, u, want, ok)
       /\ "slipped" \in upset => "slipped" \in upset'
       /\ Calm' /\ "shared" \notin upset' =>
             "shared" \notin upset /\ ~Shared'
  <2>1. banned \in SUBSET Users /\ Bans(selfBanned, u, want, ok) \in SUBSET Users
    BY <1>1 DEF TypeOK, Bans
  <2>2. faults' \in Nat /\ (faults' = 0 => faults = 0 /\ ok) /\ (ok => done = calls)
    BY <1>3, <1>4, <1>5, CallsFacts
  <2>3. History(ok, FALSE, FALSE, banned, Bans(selfBanned, u, want, ok))
    BY Zenon, <2>1, <2>2, <1>3, <1>4, HistoryFacts
  <2> QED
    BY <2>2, <2>3 DEF History
<1> DEFINE joined == "J" \in want
<1>11. ASSUME ok
       PROVE  /\ t' \in Topics /\ t'.loaded = t.loaded /\ t'.owner = t.owner
              /\ sessions' \in AttachedSessions
              /\ \A x \in Users \ {u} : sessions'[x] = sessions[x]
              /\ \A x \in Users \ {u} :
                    /\ x \in DOMAIN t'.perUser <=> x \in DOMAIN t.perUser
                    /\ x \in DOMAIN t.perUser => t'.perUser[x] = t.perUser[x]
              /\ u \in DOMAIN t'.perUser
              /\ t'.perUser[u].want = want /\ t'.perUser[u].given = given
              /\ ~t'.perUser[u].isChan
              /\ t'.perUser[u].online = IF joined THEN 1 ELSE 0
              /\ sessions'[u].grp = IF joined THEN 1 ELSE 0
              /\ sessions'[u].chn = 0
  <2>1. Settle(t, u, p, TRUE, TRUE, FALSE)
    BY Zenon, <1>3, <1>11
  <2>2. Settled(t, u, p, TRUE /\ Joined(p, TRUE), FALSE)
    BY Zenon, <2>1, <1>4, <1>5, <1>8, SettleFacts
  <2>3. /\ u \in DOMAIN t'.perUser
        /\ t'.perUser[u].want = want /\ t'.perUser[u].given = given
        /\ ~t'.perUser[u].isChan
    BY Zenon, <2>2, <1>8 DEF Settled
  <2>4. t'.perUser[u].online = IF joined THEN 1 ELSE 0
    BY <2>2, <2>3, <1>2, <1>8 DEF Settled, Joined, Effective
  <2>5. sessions'[u].grp = (IF joined THEN 1 ELSE 0) /\ sessions'[u].chn = 0
    BY <2>2, <1>2, <1>7, <1>8 DEF Settled, Joined, Effective, NoSess
  <2>6. /\ t' \in Topics /\ t'.loaded = t.loaded /\ t'.owner = t.owner
        /\ sessions' \in AttachedSessions
        /\ \A x \in Users \ {u} : sessions'[x] = sessions[x]
        /\ \A x \in Users \ {u} :
              /\ x \in DOMAIN t'.perUser <=> x \in DOMAIN t.perUser
              /\ x \in DOMAIN t.perUser => t'.perUser[x] = t.perUser[x]
    BY <2>2 DEF Settled
  <2> QED
    BY <2>3, <2>4, <2>5, <2>6
<1>12. TypeOK'
    BY Zenon, <1>1, <1>2, <1>3, <1>9, <1>10, <1>11 DEF TypeOK
<1>13. t'.loaded = t.loaded /\ t'.owner = t.owner
    BY Zenon, <1>3, <1>11
<1>14. ASSUME NEW x \in Users \ {u} PROVE UserOK(x)'
  <2>1. Keeps(x)
    BY Zenon, <1>2, <1>3, <1>9, <1>10, <1>11 DEF Keeps, Bans
  <2> QED
    BY <2>1, <1>1, <1>10, <1>13, KeepsOK DEF Course
<1>15. UserOK(u)'
  <2>1. /\ subs'[u].state = "live" \/ subs'[u] = sub
        /\ subs'[u].given = given \/ subs'[u] = sub
    BY <1>9 DEF Row
  <2>2. GivenOK(u)'
    <3>1. "O" \in subs'[u].given => u \in offered'
      BY <1>2, <1>4, <1>6, <2>1 DEF UserOK, GivenOK
    <3>2. u \in DOMAIN t'.perUser /\ "O" \in t'.perUser[u].given => u \in offered'
      BY Zenon, <1>2, <1>3, <1>6, <1>11 DEF Cached
    <3> QED
      BY <3>1, <3>2, <1>2, <1>4, <2>1 DEF UserOK, GivenOK, Cached
  <2>3. AttachedOK(u)'
    <3>1. CASE ok
      <4>1. sessions'[u] # NoSess => joined
        BY <3>1, <1>11, SomeSession DEF AttachedSessions
      <4>2. sessions'[u] # NoSess =>
               /\ t'.perUser[u].online >= sessions'[u].grp + sessions'[u].chn
               /\ "J" \in t'.perUser[u].want \cap t'.perUser[u].given
        BY <3>1, <4>1, <1>2, <1>11
      <4>3. ~(sessions'[u].chn > 0)
        BY <3>1, <1>11
      <4> QED
        BY Zenon, <3>1, <4>2, <4>3, <1>2, <1>11 DEF AttachedOK, Attached, Cached, Effective
    <3>2. CASE ~ok
      BY <3>2, <1>3, <1>4, <1>7, <1>2 DEF AttachedOK, Attached, Cached, NoSess
    <3> QED
      BY <3>1, <3>2
  <2>4. Calm' => sub.state # "live" /\ done = 1 /\ subs'[u] = Row(want, given)
    BY <1>2, <1>4, <1>9, <1>10 DEF UserOK, MirrorOK, calls, Subscriber
  <2>5. MirrorOK(u)'
    BY <2>4, <1>10, <1>11 DEF MirrorOK, Subscriber, Cached, Row
  <2>6. BanOK(u)'
    BY <2>4, <1>2, <1>4, <1>6, <1>10, <1>11
       DEF BanOK, Subscriber, Cached, Row, Bans, UserOK
  <2> QED
    BY <2>2, <2>3, <2>5, <2>6 DEF UserOK
<1>16. OwnerOK'
  <2>1. Calm' => u \notin Owners
    BY <1>2, <1>4, <1>10 DEF UserOK, MirrorOK, Owners, Subscriber
  <2>2. Calm' => t.owner \in Owners'
    BY <2>1, <1>1, <1>2, <1>9, <1>10 DEF OwnerOK, Owners
  <2>3. row'.owner # row.owner => row'.owner \in Owners'
    BY <1>9 DEF Owners, Row, Effective
  <2> QED
    BY <2>2, <2>3, <1>1, <1>2, <1>10, <1>13, OwnerStays
<1> QED
    BY <1>12, <1>14, <1>15, <1>16 DEF Inv

LEMMA OfflineGetStep ==
    ASSUME Inv, NEW u \in Users, NEW asChan \in BOOLEAN, NEW mode \in Wants,
           OfflineGet(u, asChan, mode)
    PROVE  Inv'
<1>1. TypeOK /\ OwnerOK /\ \A x \in Users : UserOK(x)
    BY DEF Inv
<1>2. /\ UNCHANGED <<t, sessions, subs, chnSubs, row,
                     offered, banned, selfBanned, unseen, upset, faults>>
      /\ pending' = [pending EXCEPT ![u] = [asChan |-> asChan, mode |-> mode]]
      /\ ~asChan => subs[u].state = "live"
      /\ mode # Unset
    BY DEF OfflineGet
<1>3. [asChan |-> asChan, mode |-> mode] \in Request
    BY <1>2, ModesAssumption DEF Request
<1>4. /\ pending' \in [Users -> {NoOne} \cup Request]
      /\ pending'[u] = [asChan |-> asChan, mode |-> mode]
      /\ \A x \in Users \ {u} : pending'[x] = pending[x]
    BY <1>1, <1>2, <1>3 DEF TypeOK
<1>5. TypeOK'
    BY <1>1, <1>2, <1>4 DEF TypeOK
<1>6. ASSUME NEW x \in Users \ {u} PROVE UserOK(x)'
  <2>1. Keeps(x) /\ Course
    BY <1>2, <1>4 DEF Keeps, Course, Calm
  <2> QED
    BY <2>1, <1>1, KeepsOK
<1>7. UserOK(u)'
  <2>1. UserOK(u)
    BY <1>1
  <2>2. GivenOK(u)'
    BY Zenon, <2>1, <1>2, <1>4 DEF UserOK, GivenOK, Cached
  <2>3. AttachedOK(u)' /\ MirrorOK(u)' /\ BanOK(u)'
    BY <2>1, <1>2 DEF UserOK, AttachedOK, MirrorOK, BanOK, Attached, Cached, Subscriber, Calm
  <2> QED
    BY <2>2, <2>3 DEF UserOK
<1>8. OwnerOK'
    BY <1>1, <1>2, OwnersSame DEF Calm, Owners
<1> QED
    BY <1>5, <1>6, <1>7, <1>8 DEF Inv

LEMMA OfflinePutStep ==
    ASSUME Inv, NEW u \in Users, OfflinePut(u)
    PROVE  Inv'
<1> DEFINE req == pending[u]
           torn == ("O" \in subs[u].want) # ("O" \in subs'[u].want)
           self == IF req.asChan THEN selfBanned ELSE Bans(selfBanned, u, req.mode, ~t.loaded)
<1>1. TypeOK /\ OwnerOK /\ \A x \in Users : UserOK(x)
    BY DEF Inv
<1>2. /\ req # NoOne
      /\ pending' = [pending EXCEPT ![u] = NoOne]
      /\ unseen' = IF t.loaded /\ ~req.asChan THEN unseen \cup {u} ELSE unseen
      /\ Upset(torn, FALSE)
      /\ Followed(banned, self)
      /\ UNCHANGED <<t, sessions, row, offered>>
    BY Zenon DEF OfflinePut
<1>3. PICK done \in 0..1, ok \in BOOLEAN :
         /\ Calls(1, done, ok)
         /\ subs' = IF done = 1 /\ ~req.asChan THEN Updated(subs, u, req.mode, Unset) ELSE subs
         /\ chnSubs' = IF done = 1 /\ req.asChan THEN Updated(chnSubs, u, req.mode, Unset)
                       ELSE chnSubs
    BY DEF OfflinePut
<1>4. /\ faults \in Nat /\ req \in Request
      /\ subs \in [Users -> Subscription] /\ chnSubs \in [Users -> Subscription]
      /\ banned \in SUBSET Users
    BY <1>1, <1>2 DEF TypeOK
<1>5. self \in SUBSET Users
    BY <1>1 DEF TypeOK, Bans
<1>6. (ok => done = 1) /\ History(ok, torn, FALSE, banned, self)
  <2>1. 1 \in Nat /\ torn \in BOOLEAN
    OBVIOUS
  <2> HIDE DEF torn, self
  <2>2. faults' \in Nat /\ (faults' = 0 => faults = 0 /\ ok) /\ (ok => done = 1)
    BY <2>1, <1>3, <1>4, CallsFacts
  <2> QED
    BY Zenon, <2>1, <2>2, <1>2, <1>4, <1>5, HistoryFacts
<1>7. req.mode \in Mode /\ req.mode # Unset /\ req.mode \in {Unset} \cup Mode
    BY <1>4, ModesAssumption DEF Request
<1>8. /\ subs' \in [Users -> Subscription]
      /\ \A x \in Users \ {u} : subs'[x] = subs[x]
      /\ subs'[u].state = subs[u].state /\ subs'[u].given = subs[u].given
      /\ req.asChan => subs' = subs
      /\ done = 1 /\ ~req.asChan /\ subs[u].state # "none" => subs'[u].want = req.mode
  <2>1. CASE done = 1 /\ ~req.asChan
    <3> DEFINE m == req.mode
    <3>1. m \in {Unset} \cup Mode /\ Unset \in {Unset} \cup Mode /\ m # Unset
      BY <1>7
    <3>2. subs' = Updated(subs, u, m, Unset)
      BY <1>3, <2>1
    <3> HIDE DEF m
    <3>3. Overwritten(subs', subs, u, m, Unset)
      BY <3>1, <3>2, <1>4, UpdatedOne
    <3> QED
      BY <2>1, <3>1, <3>3 DEF Overwritten, m
  <2>2. CASE ~(done = 1 /\ ~req.asChan)
    BY <1>3, <1>4, <2>2
  <2> QED
    BY <2>1, <2>2
<1>9. chnSubs' \in [Users -> Subscription]
  <2>1. Unset \in {Unset} \cup Mode /\ u \in Users \cup {NoOne}
    OBVIOUS
  <2>2. Updated(chnSubs, u, req.mode, Unset) \in [Users -> Subscription]
    BY <2>1, <1>4, <1>7, UpdatedOne DEF Overwritten
  <2> QED
    BY <2>2, <1>3, <1>4
<1>10. /\ pending' \in [Users -> {NoOne} \cup Request] /\ pending'[u] = NoOne
       /\ \A x \in Users \ {u} : pending'[x] = pending[x]
    BY Zenon, <1>1, <1>2 DEF TypeOK
<1>11. TypeOK'
    BY Zenon, <1>1, <1>2, <1>6, <1>8, <1>9, <1>10 DEF TypeOK, History
<1>12. Course
    BY <1>2, <1>6 DEF Course, History
<1>13. ASSUME NEW x \in Users \ {u} PROVE UserOK(x)'
  <2>1. x \in self <=> x \in selfBanned
    BY DEF Bans
  <2> HIDE DEF self, req, torn
  <2>2. Keeps(x)
    BY <2>1, <1>2, <1>6, <1>8, <1>10 DEF Keeps, History
  <2> QED
    BY <2>2, <1>1, <1>12, KeepsOK
<1>14. UserOK(u)'
  <2>1. UserOK(u)
    BY <1>1
  <2>2. Calm' => Calm /\ ok /\ done = 1 /\ ~torn /\ banned' = banned /\ selfBanned' = self
    BY Zenon, <1>6 DEF History
  <2>3. ~req.asChan => subs[u].state # "none"
    BY <2>1, <1>2 DEF UserOK, GivenOK
  <2>4. GivenOK(u)'
    BY Zenon, <2>1, <1>2, <1>8, <1>10 DEF UserOK, GivenOK, Cached
  <2>5. AttachedOK(u)'
    BY Zenon, <2>1, <1>2, <1>12 DEF UserOK, AttachedOK, Course, Attached, Cached
  <2>6. MirrorOK(u)'
    <3> HIDE DEF req, self
    <3> QED
      BY Zenon, <2>1, <2>2, <1>2, <1>8 DEF UserOK, MirrorOK, Cached, Subscriber
  <2>7. BanOK(u)'
    <3>1. Subscriber(u)' <=> Subscriber(u)
      BY <1>2 DEF Subscriber, Cached
    <3>2. Subscriber(u) => t.loaded
      BY <2>1 DEF UserOK, AttachedOK, Subscriber
    <3>3. ASSUME Calm', u \in self
          PROVE  /\ subs'[u].state # "none" /\ "J" \notin subs'[u].want
                 /\ Subscriber(u) => "J" \notin t.perUser[u].want
      <4>1. CASE req.asChan
        BY <3>3, <4>1, <2>1, <2>2, <1>8 DEF UserOK, BanOK
      <4>2. CASE ~req.asChan
        <5>1. "J" \notin req.mode /\ (u \in selfBanned \/ ~t.loaded)
          BY <3>3, <4>2 DEF Bans
        <5> QED
          BY <5>1, <3>2, <3>3, <4>2, <2>1, <2>2, <2>3, <1>8 DEF UserOK, BanOK
      <4> QED
        BY <4>1, <4>2
    <3> HIDE DEF self, req, torn
    <3> QED
      BY Zenon, <3>1, <3>3, <2>1, <2>2, <1>2, <1>8 DEF UserOK, BanOK
  <2> QED
    BY <2>4, <2>5, <2>6, <2>7 DEF UserOK
<1>15. OwnerOK'
  <2>1. Calm' => Owners' = Owners
    BY <1>6, <1>8 DEF History, Owners, Effective
  <2> HIDE DEF torn, self
  <2> QED
    BY <2>1, <1>1, <1>2, <1>6, OwnersSame DEF History
<1> QED
    BY <1>11, <1>13, <1>14, <1>15 DEF Inv

LEMMA NewReaderStep ==
    ASSUME Inv, NEW u \in Users, NEW mode \in Wants, NewReader(u, mode)
    PROVE  Inv'
<1> DEFINE live == chnSubs[u].state = "live"
           oldWant == IF live THEN chnSubs[u].want ELSE ModeCChnReader
           want == IF mode = Unset THEN oldWant
                   ELSE (mode \cap ModeCChnReader) \cup {"R", "J"}
           calls == IF live /\ want = oldWant THEN 0 ELSE 1
           p == Entry(want, ModeCChnReader, TRUE)
<1>1. TypeOK /\ OwnerOK /\ \A x \in Users : UserOK(x)
    BY DEF Inv
<1>2. t.loaded /\ ~Cached(u) /\ UNCHANGED <<pending, offered, unseen>>
    BY DEF NewReader
<1>3. PICK done \in 0..calls, ok \in BOOLEAN :
        /\ Calls(calls, done, ok)
        /\ chnSubs' = CASE done = 0 -> chnSubs
                        [] done = 1 /\ live -> Updated(chnSubs, u, want, Unset)
                        [] OTHER -> [chnSubs EXCEPT ![u] = Row(want, ModeCChnReader)]
        /\ IF ok THEN Settle(t, u, p, TRUE, TRUE, TRUE) ELSE UNCHANGED <<t, sessions>>
        /\ UNCHANGED <<subs, row>>
        /\ Upset(FALSE, FALSE)
        /\ Followed(banned, selfBanned)
    BY Zenon DEF NewReader
<1>4. /\ faults \in Nat /\ t \in Topics /\ sessions \in AttachedSessions
      /\ chnSubs \in [Users -> Subscription]
      /\ banned \in SUBSET Users /\ selfBanned \in SUBSET Users
    BY <1>1 DEF TypeOK
<1>5. UserOK(u) /\ sessions[u] = NoSess
    BY <1>1, <1>2 DEF UserOK, AttachedOK, Attached
<1>6. ModeCChnReader \in Mode /\ "J" \in ModeCChnReader /\ "O" \notin ModeCChnReader
    BY ModesAssumption
<1>7. want \in Mode /\ calls \in Nat
  <2>1. oldWant \in Mode
    BY <1>4, <1>6 DEF Subscription
  <2> QED
    BY Zenon, <2>1, <1>6 DEF Mode
<1> HIDE DEF want, calls, oldWant
<1>8. /\ p \in Cache /\ p.want = want /\ p.given = ModeCChnReader /\ p.isChan /\ p.online = 0
    BY <1>6, <1>7 DEF Entry, Cache
<1> HIDE DEF p
<1>9. History(ok, FALSE, FALSE, banned, selfBanned)
  <2>1. faults' \in Nat /\ (faults' = 0 => faults = 0 /\ ok) /\ (ok => done = calls)
    BY <1>3, <1>4, <1>7, CallsFacts
  <2> QED
    BY Zenon, <2>1, <1>3, <1>4, HistoryFacts
<1>10. chnSubs' \in [Users -> Subscription]
  <2>1. Row(want, ModeCChnReader) \in Subscription
    BY Zenon, <1>6, <1>7 DEF Row, Subscription
  <2>2. Updated(chnSubs, u, want, Unset) \in [Users -> Subscription]
    <3>1. Unset \in {Unset} \cup Mode /\ want \in {Unset} \cup Mode
      BY <1>7
    <3> QED
      BY <3>1, <1>4, UpdatedOne DEF Overwritten
  <2> QED
    BY <2>1, <2>2, <1>3, <1>4
<1>11. ASSUME ok
       PROVE  /\ t' \in Topics /\ t'.loaded = t.loaded /\ t'.owner = t.owner
              /\ sessions' \in AttachedSessions
              /\ \A x \in Users \ {u} :
                    /\ sessions'[x] = sessions[x]
                    /\ x \in DOMAIN t'.perUser <=> x \in DOMAIN t.perUser
                    /\ x \in DOMAIN t.perUser => t'.perUser[x] = t.perUser[x]
              /\ u \in DOMAIN t'.perUser <=> "J" \in want
              /\ "J" \in want => /\ t'.perUser[u].want = want
                                 /\ t'.perUser[u].given = ModeCChnReader
                                 /\ t'.perUser[u].isChan /\ t'.perUser[u].online = 1
              /\ sessions'[u].grp = 0 /\ sessions'[u].chn = IF "J" \in want THEN 1 ELSE 0
  <2> DEFINE yes == TRUE
  <2>1. yes \in BOOLEAN /\ yes /\ Settle(t, u, p, yes, yes, yes)
    BY Zenon, <1>3, <1>11
  <2> HIDE DEF yes
  <2>2. Settled(t, u, p, yes /\ Joined(p, yes), yes)
    BY Zenon, <2>1, <1>4, <1>8, SettleFacts
  <2>3. /\ u \in DOMAIN t'.perUser <=> "J" \in want
        /\ "J" \in want => /\ t'.perUser[u].want = want
                           /\ t'.perUser[u].given = ModeCChnReader
                           /\ t'.perUser[u].isChan
    BY <2>2, <1>8 DEF Settled
  <2>4. "J" \in want => t'.perUser[u].online = 1
    BY <2>1, <2>2, <2>3, <1>6, <1>8 DEF Settled, Joined, Effective
  <2>5. sessions'[u].grp = 0 /\ sessions'[u].chn = IF "J" \in want THEN 1 ELSE 0
    BY <2>1, <2>2, <1>5, <1>6, <1>8 DEF Settled, Joined, Effective, NoSess
  <2>6. /\ t' \in Topics /\ t'.loaded = t.loaded /\ t'.owner = t.owner
        /\ sessions' \in AttachedSessions
        /\ \A x \in Users \ {u} :
              /\ sessions'[x] = sessions[x]
              /\ x \in DOMAIN t'.perUser <=> x \in DOMAIN t.perUser
              /\ x \in DOMAIN t.perUser => t'.perUser[x] = t.perUser[x]
    BY Zenon, <2>2 DEF Settled
  <2> QED
    BY <2>3, <2>4, <2>5, <2>6
<1>12. TypeOK'
    BY Zenon, <1>1, <1>2, <1>3, <1>9, <1>10, <1>11 DEF TypeOK, History
<1>13. t'.loaded = t.loaded /\ t'.owner = t.owner /\ subs' = subs /\ row' = row
    BY Zenon, <1>3, <1>11
<1>14. Course
    BY <1>9, <1>13 DEF Course, History
<1>15. ASSUME NEW x \in Users \ {u} PROVE UserOK(x)'
  <2>1. Keeps(x)
    BY Zenon, <1>2, <1>3, <1>9, <1>11 DEF Keeps, History
  <2> QED
    BY <2>1, <1>1, <1>14, KeepsOK
<1>16. UserOK(u)'
  <2>1. CASE ~ok
    <3>1. Keeps(u)
      BY <2>1, <1>2, <1>3, <1>9 DEF Keeps, History
    <3> QED
      BY <3>1, <1>1, <1>14, KeepsOK
  <2>2. CASE ok
    <3>1. GivenOK(u)'
      BY <2>2, <1>2, <1>5, <1>6, <1>11, <1>13 DEF UserOK, GivenOK, Cached
    <3>2. AttachedOK(u)'
      <4>1. sessions'[u] # NoSess => "J" \in want
        BY <2>2, <1>11, SomeSession DEF AttachedSessions
      <4>2. sessions'[u] # NoSess =>
               /\ t'.perUser[u].online >= sessions'[u].grp + sessions'[u].chn
               /\ "J" \in t'.perUser[u].want \cap t'.perUser[u].given
        BY <2>2, <4>1, <1>6, <1>11
      <4>3. sessions'[u].chn > 0 => "J" \in want
        BY <2>2, <1>11
      <4> QED
        BY Zenon, <2>2, <4>1, <4>2, <4>3, <1>2, <1>11
           DEF AttachedOK, Attached, Cached, Effective
    <3>3. ~Subscriber(u)' /\ ~Subscriber(u)
      BY Zenon, <2>2, <1>2, <1>11 DEF Subscriber, Cached
    <3>4. MirrorOK(u)'
      BY Zenon, <2>2, <3>3, <1>5, <1>9, <1>11, <1>13 DEF UserOK, MirrorOK, Cached, History
    <3>5. BanOK(u)'
      BY <3>3, <1>5, <1>9, <1>13 DEF UserOK, BanOK, History
    <3> QED
      BY <3>1, <3>2, <3>4, <3>5 DEF UserOK
  <2> QED
    BY <2>1, <2>2
<1>17. OwnerOK'
    BY <1>1, <1>9, <1>13, OwnersSame DEF History, Owners
<1> QED
    BY <1>12, <1>15, <1>16, <1>17 DEF Inv
-----------------------------------------------------------------------------
(* An invitation that is sent again evicts a user who may not join. *)
LEMMA ReinviteStep ==
    ASSUME Inv, NEW h \in Users, NEW u \in Users, Reinvite(h, u)
    PROVE  Inv'
<1> DEFINE f == t.perUser
<1>1. TypeOK /\ OwnerOK /\ \A x \in Users : UserOK(x)
    BY DEF Inv
<1>2. /\ Cached(u) /\ Evict(f, u, FALSE)
      /\ UNCHANGED <<subs, chnSubs, row, pending,
                     offered, banned, selfBanned, unseen, upset, faults, outside>>
    BY Zenon DEF Reinvite
<1>3. t \in Topics /\ f \in Caches /\ sessions \in AttachedSessions
    BY <1>1 DEF TypeOK, Topics
<1>4. Gone(f, u, FALSE)
    BY Zenon, <1>2, <1>3, EvictFacts
<1>5. TypeOK'
    BY Zenon, <1>1, <1>2, <1>4 DEF TypeOK, Gone
<1>6. Course
    BY <1>2, <1>4 DEF Course, Calm, Gone
<1>7. ASSUME NEW x \in Users \ {u} PROVE UserOK(x)'
  <2>1. Keeps(x)
    BY <1>2, <1>4 DEF Keeps, Gone
  <2> QED
    BY <2>1, <1>1, <1>6, KeepsOK
<1>8. UserOK(u)'
  <2>1. UserOK(u) /\ (Calm' => Calm)
    BY <1>1, <1>6 DEF Course
  <2>2. ~Attached(u)' /\ ~(sessions'[u].chn > 0)
    BY <1>4 DEF Gone, Attached, NoSess
  <2>3. GivenOK(u)'
    BY Zenon, <2>1, <1>2, <1>4 DEF UserOK, GivenOK, Cached, Gone
  <2>4. AttachedOK(u)'
    BY Zenon, <2>1, <2>2, <1>4 DEF UserOK, AttachedOK, Cached, Gone
  <2>5. MirrorOK(u)'
    BY Zenon, <2>1, <1>2, <1>4 DEF UserOK, MirrorOK, Cached, Subscriber, Gone
  <2>6. BanOK(u)'
    BY Zenon, <2>1, <1>2, <1>4 DEF UserOK, BanOK, Cached, Subscriber, Gone
  <2> QED
    BY <2>3, <2>4, <2>5, <2>6 DEF UserOK
<1>9. OwnerOK'
    BY <1>1, <1>2, <1>4, OwnersSame DEF Gone, Owners, Calm
<1> QED
    BY <1>5, <1>7, <1>8, <1>9 DEF Inv
-----------------------------------------------------------------------------
(* An administrator changes the access of another user. *)
LEMMA GrantStep ==
    ASSUME Inv, NEW h \in Users, NEW u \in Users, NEW mode \in Grants, Grant(h, u, mode)
    PROVE  Inv'
<1> DEFINE p == t.perUser[u]
           f == t.perUser
           q == [p EXCEPT !.given = mode]
           put == [f EXCEPT ![u] = q]
<1>1. TypeOK /\ OwnerOK /\ \A x \in Users : UserOK(x)
    BY DEF Inv
<1>2. /\ Attached(h) /\ Cached(u) /\ mode # Unset
      /\ t.owner = u => {"O", "J"} \subseteq mode
      /\ UNCHANGED <<chnSubs, row, pending, unseen>>
    BY DEF Grant
<1>3. PICK done \in 0..1, ok \in BOOLEAN :
         /\ Calls(1, done, ok)
         /\ subs' = IF done = 1 THEN Updated(subs, u, Unset, mode) ELSE subs
         /\ CASE ~ok -> UNCHANGED <<t, sessions>>
              [] ok /\ "J" \notin mode -> Evict(put, u, FALSE)
              [] OTHER -> t' = [t EXCEPT !.perUser = put] /\ UNCHANGED sessions
         /\ offered' = IF "O" \in mode THEN offered \cup {u} ELSE offered
         /\ Upset(p.isChan, FALSE)
         /\ Followed(Bans(banned, u, mode, ok /\ ~p.isChan), selfBanned)
    BY Zenon DEF Grant
<1>4. /\ faults \in Nat /\ t \in Topics /\ f \in Caches /\ subs \in [Users -> Subscription]
      /\ sessions \in AttachedSessions /\ selfBanned \in SUBSET Users
      /\ mode \in Mode /\ mode \in {Unset} \cup Mode
    BY <1>1, <1>2, ModesAssumption DEF TypeOK, Topics
<1>5. UserOK(u) /\ t.loaded
    BY <1>1, <1>2 DEF UserOK, AttachedOK
<1>6. f \in [DOMAIN f -> Cache] /\ DOMAIN f \subseteq Users \cup {NoOne} /\ u \in DOMAIN f
    BY <1>2, <1>4, CachesFacts DEF Cached
<1>7. /\ p \in Cache /\ p.isChan \in BOOLEAN /\ q \in Cache
      /\ q.want = p.want /\ q.given = mode /\ q.isChan = p.isChan /\ q.online = p.online
    BY <1>4, <1>6 DEF Cache
<1> HIDE DEF q
<1>8. /\ put \in Caches /\ DOMAIN put = DOMAIN f /\ put[u] = q
      /\ \A x \in DOMAIN f : x # u => put[x] = f[x]
  <2>1. put \in [DOMAIN f -> Cache] /\ DOMAIN put = DOMAIN f
    BY <1>6, <1>7
  <2> QED
    BY <2>1, <1>6, CachesFacts
<1> HIDE DEF put
<1>9. Placed(put, u, mode, ok)
    BY Zenon, <1>1, <1>3, <1>6, <1>8, PlacedFacts
<1> DEFINE torn == p.isChan
           bans == Bans(banned, u, mode, ok /\ ~p.isChan)
<1>10. (ok => done = 1) /\ History(ok, torn, FALSE, bans, selfBanned)
  <2>1. 1 \in Nat /\ torn \in BOOLEAN /\ bans \in SUBSET Users
    BY <1>1, <1>7 DEF TypeOK, Bans
  <2>2. Upset(torn, FALSE) /\ Followed(bans, selfBanned)
    BY Zenon, <1>3
  <2> HIDE DEF torn, bans
  <2>3. faults' \in Nat /\ (faults' = 0 => faults = 0 /\ ok) /\ (ok => done = 1)
    BY <2>1, <1>3, <1>4, CallsFacts
  <2> QED
    BY Zenon, <2>1, <2>2, <2>3, <1>4, HistoryFacts
<1>11. /\ subs' \in [Users -> Subscription]
       /\ \A x \in Users \ {u} : subs'[x] = subs[x]
       /\ subs'[u].state = subs[u].state
       /\ subs'[u].state # "none" => subs'[u].want = subs[u].want
       /\ subs[u].state = "none" \/ done # 1 => subs'[u] = subs[u]
       /\ done = 1 /\ subs[u].state # "none" => subs'[u].given = mode
  <2>1. CASE done = 1
    <3>1. subs' = Updated(subs, u, Unset, mode)
      BY <1>3, <2>1
    <3>2. /\ subs \in [Users -> Subscription] /\ Unset \in {Unset} \cup Mode
          /\ mode \in {Unset} \cup Mode /\ mode # Unset
      BY <1>2, <1>4
    <3>3. Overwritten(subs', subs, u, Unset, mode)
      BY <3>1, <3>2, UpdatedOne
    <3> QED
      BY <2>1, <3>2, <3>3 DEF Overwritten
  <2>2. CASE done # 1
    BY <1>3, <1>4, <2>2
  <2> QED
    BY <2>1, <2>2
<1>12. /\ \A x \in Users : x \in offered => x \in offered'
       /\ "O" \in mode => u \in offered'
    BY <1>3
<1>13. TypeOK'
    BY Zenon, <1>1, <1>2, <1>9, <1>10, <1>11 DEF TypeOK, History, Placed
<1>14. Course
    BY <1>9, <1>10 DEF Course, History, Placed
<1>15. ASSUME NEW x \in Users \ {u} PROVE UserOK(x)'
  <2>1. x \in bans <=> x \in banned
    BY DEF Bans
  <2>2. /\ x \in DOMAIN t'.perUser <=> x \in DOMAIN t.perUser
        /\ x \in DOMAIN t.perUser => t'.perUser[x] = t.perUser[x]
        /\ sessions'[x] = sessions[x]
    BY <1>8, <1>9 DEF Placed
  <2> HIDE DEF bans, torn
  <2>3. Keeps(x)
    BY <2>1, <2>2, <1>2, <1>10, <1>11, <1>12 DEF Keeps, History
  <2> QED
    BY <2>3, <1>1, <1>14, KeepsOK
<1>16. UserOK(u)'
  <2>1. Calm' => Calm /\ ok /\ done = 1 /\ ~p.isChan /\ banned' = bans /\ selfBanned' = selfBanned
    BY <1>10 DEF History
  <2>2. ASSUME ok
        PROVE  /\ u \in DOMAIN t'.perUser <=> "J" \in mode \/ ~p.isChan
               /\ u \in DOMAIN t'.perUser =>
                     /\ t'.perUser[u].want = p.want /\ t'.perUser[u].given = mode
                     /\ t'.perUser[u].isChan <=> p.isChan
               /\ "J" \in mode => sessions' = sessions /\ t'.perUser[u].online = p.online
               /\ "J" \notin mode => sessions'[u] = NoSess
    BY <2>2, <1>7, <1>8, <1>9 DEF Placed
  <2>3. ~ok => t' = t /\ sessions' = sessions
    BY <1>9 DEF Placed
  <2>4. GivenOK(u)'
    <3>1. "O" \in subs'[u].given => u \in offered'
      BY <1>5, <1>11, <1>12 DEF UserOK, GivenOK
    <3>2. u \in DOMAIN t'.perUser /\ "O" \in t'.perUser[u].given => u \in offered'
      BY Zenon, <2>2, <2>3, <1>5, <1>12 DEF UserOK, GivenOK, Cached
    <3>3. subs'[u].state = "none" => subs'[u].given = {}
      BY <1>5, <1>11 DEF UserOK, GivenOK
    <3> QED
      BY Zenon, <3>1, <3>2, <3>3, <1>2, <1>5, <1>11 DEF UserOK, GivenOK, Cached
  <2>5. AttachedOK(u)'
    <3>1. CASE ok /\ "J" \in mode
      BY Zenon, <3>1, <2>2, <1>2, <1>5, <1>14
         DEF UserOK, AttachedOK, Attached, Cached, Effective, Course
    <3>2. CASE ok /\ "J" \notin mode
      <4>1. ~Attached(u)' /\ ~(sessions'[u].chn > 0)
        BY <3>2, <2>2 DEF Attached, NoSess
      <4> QED
        BY Zenon, <4>1, <3>2, <2>2, <1>5, <1>14 DEF AttachedOK, Cached, Course
    <3>3. CASE ~ok
      BY Zenon, <3>3, <2>3, <1>5, <1>14
         DEF UserOK, AttachedOK, Attached, Cached, Effective, Course
    <3> QED
      BY Zenon, <3>1, <3>2, <3>3
  <2>6. Calm' => subs[u].state = "live"
    BY Zenon, <2>1, <1>2, <1>5 DEF UserOK, MirrorOK, Subscriber
  <2>7. MirrorOK(u)'
    BY Zenon, <2>1, <2>2, <2>6, <1>2, <1>5, <1>11 DEF UserOK, MirrorOK, Subscriber, Cached
  <2>8. BanOK(u)'
    BY Zenon, <2>1, <2>2, <2>6, <1>2, <1>5, <1>11 DEF UserOK, BanOK, Subscriber, Cached, Bans
  <2> QED
    BY <2>4, <2>5, <2>7, <2>8 DEF UserOK
<1>17. OwnerOK'
  <2>1. Calm' => Calm /\ done = 1
    BY <1>10 DEF History
  <2>2. Calm' => t.owner \in Owners'
    <3>1. CASE t.owner = u
      BY Zenon, <3>1, <2>1, <1>1, <1>2, <1>5, <1>11 DEF OwnerOK, Owners, Effective
    <3>2. CASE t.owner # u
      BY Zenon, <3>2, <2>1, <1>1, <1>5, <1>11 DEF OwnerOK, Owners
    <3> QED
      BY Zenon, <3>1, <3>2
  <2> HIDE DEF torn, bans
  <2> QED
    BY Zenon, <2>2, <1>1, <1>2, <1>5, <1>9, <1>10, OwnerStays DEF History, Placed
<1> QED
    BY <1>13, <1>15, <1>16, <1>17 DEF Inv

LEMMA InviteStep ==
    ASSUME Inv, NEW h \in Users, NEW u \in Users, NEW mode \in Grants, Invite(h, u, mode)
    PROVE  Inv'
<1> DEFINE sub == subs[u]
           given == IF mode = Unset THEN Default \cup {"J"} ELSE mode
           want == WantBefore(sub, given)
           f == t.perUser
           p == Entry(want, given, FALSE)
           put == Put(f, u, p)
<1>1. TypeOK /\ OwnerOK /\ \A x \in Users : UserOK(x)
    BY DEF Inv
<1>2. /\ Attached(h) /\ ~Cached(u) /\ "J" \in want
      /\ UNCHANGED <<chnSubs, pending, unseen>>
    BY DEF Invite
<1>3. PICK done \in 0..1, ok \in BOOLEAN :
         /\ Calls(1, done, ok)
         /\ IF done = 1 THEN Create(u, want, given) ELSE UNCHANGED <<subs, row>>
         /\ CASE ~ok -> UNCHANGED <<t, sessions>>
              [] ok /\ "J" \notin given -> Evict(put, u, FALSE)
              [] OTHER -> t' = [t EXCEPT !.perUser = put] /\ UNCHANGED sessions
         /\ offered' = IF "O" \in given THEN offered \cup {u} ELSE offered
         /\ Upset(FALSE, FALSE)
         /\ Followed(Bans(banned, u, given, ok), selfBanned)
    BY Zenon DEF Invite
<1>4. /\ faults \in Nat /\ f \in Caches /\ sub \in Subscription
      /\ selfBanned \in SUBSET Users
    BY <1>1 DEF TypeOK, Topics
<1>5. UserOK(u) /\ t.loaded /\ sessions[u] = NoSess
    BY <1>1, <1>2 DEF UserOK, AttachedOK, Attached
<1>6. given \in Mode /\ want \in Mode
    BY <1>4, ModesAssumption DEF WantBefore, Subscription, Mode
<1>7. sub.state # "none" => want = sub.want
    BY DEF WantBefore
<1> HIDE DEF given, want
<1>8. p \in Cache /\ p.want = want /\ p.given = given /\ ~p.isChan /\ p.online = 0
    BY <1>6 DEF Entry, Cache
<1> HIDE DEF p, f
<1>9. /\ put \in Caches /\ DOMAIN put = DOMAIN f \cup {u} /\ put[u] = p
      /\ \A x \in DOMAIN f : x # u => put[x] = f[x]
  <2>1. u \in Users \cup {NoOne}
    OBVIOUS
  <2> QED
    BY <2>1, <1>4, <1>8, PutFacts
<1> HIDE DEF put
<1>10. Placed(put, u, given, ok)
    BY Zenon, <1>1, <1>3, <1>9, PlacedFacts
<1> DEFINE bans == Bans(banned, u, given, ok)
<1>11. (ok => done = 1) /\ History(ok, FALSE, FALSE, bans, selfBanned)
  <2>1. 1 \in Nat /\ bans \in SUBSET Users
    BY <1>1 DEF TypeOK, Bans
  <2>2. faults' \in Nat /\ (faults' = 0 => faults = 0 /\ ok) /\ (ok => done = 1)
    BY <2>1, <1>3, <1>4, CallsFacts
  <2> QED
    BY Zenon, <2>1, <2>2, <1>3, <1>4, HistoryFacts
<1>12. /\ subs' \in [Users -> Subscription] /\ row' \in [owner : Users, usebt : BOOLEAN]
       /\ \A x \in Users \ {u} : subs'[x] = subs[x]
       /\ subs'[u] = IF done = 1 THEN Row(want, given) ELSE sub
       /\ row'.owner # row.owner => row'.owner = u /\ done = 1 /\ "O" \in want \cap given
    BY <1>1, <1>3, <1>6, CreateFacts
<1>13. /\ \A x \in Users : x \in offered => x \in offered'
       /\ "O" \in given => u \in offered'
    BY Zenon, <1>3
<1>14. TypeOK'
    BY <1>1, <1>2, <1>10, <1>11, <1>12 DEF TypeOK, History, Placed
<1>15. Course
    BY <1>10, <1>11 DEF Course, History, Placed
<1>16. ASSUME NEW x \in Users \ {u} PROVE UserOK(x)'
  <2>1. x \in bans <=> x \in banned
    BY DEF Bans
  <2>2. /\ x \in DOMAIN t'.perUser <=> x \in DOMAIN t.perUser
        /\ x \in DOMAIN t.perUser => t'.perUser[x] = t.perUser[x]
        /\ sessions'[x] = sessions[x]
    BY Zenon, <1>9, <1>10 DEF Placed, f
  <2> HIDE DEF bans
  <2>3. Keeps(x)
    BY <2>1, <2>2, <1>2, <1>11, <1>12, <1>13 DEF Keeps, History
  <2> QED
    BY <2>3, <1>1, <1>15, KeepsOK
<1>17. UserOK(u)'
  <2>1. Calm' => Calm /\ ok /\ done = 1 /\ banned' = bans /\ selfBanned' = selfBanned
    BY <1>11 DEF History
  <2>2. ASSUME ok
        PROVE  /\ u \in DOMAIN t'.perUser
               /\ t'.perUser[u].want = want /\ t'.perUser[u].given = given
               /\ ~t'.perUser[u].isChan
    BY Zenon, <2>2, <1>8, <1>9, <1>10 DEF Placed
  <2>3. ~ok => t' = t
    BY <1>10 DEF Placed
  <2>4. sessions'[u] = NoSess
    BY <1>5, <1>10 DEF Placed
  <2>5. /\ done = 1 => subs'[u].state = "live" /\ subs'[u].want = want /\ subs'[u].given = given
        /\ done # 1 => subs'[u] = sub
    BY <1>12 DEF Row
  <2>6. GivenOK(u)'
    <3>1. "O" \in subs'[u].given => u \in offered'
      BY <2>5, <1>5, <1>13 DEF UserOK, GivenOK
    <3>2. u \in DOMAIN t'.perUser /\ "O" \in t'.perUser[u].given => u \in offered'
      BY Zenon, <2>2, <2>3, <1>2, <1>13 DEF Cached
    <3>3. subs'[u].state = "none" => subs'[u].given = {}
      BY Zenon, <2>5, <1>5 DEF UserOK, GivenOK
    <3> QED
      BY Zenon, <3>1, <3>2, <3>3, <2>5, <1>2, <1>5 DEF UserOK, GivenOK, Cached
  <2>7. AttachedOK(u)'
    <3>1. ~Attached(u)' /\ ~(sessions'[u].chn > 0)
      BY <2>4 DEF Attached, NoSess
    <3> QED
      BY Zenon, <3>1, <2>2, <2>3, <1>2, <1>5, <1>15 DEF AttachedOK, Cached, Course
  <2>8. MirrorOK(u)'
    BY Zenon, <2>1, <2>2, <2>5 DEF MirrorOK, Subscriber, Cached
  <2>9. Calm' => u \notin selfBanned
    BY Zenon, <2>1, <1>2, <1>5, <1>7 DEF UserOK, BanOK
  <2>10. BanOK(u)'
    BY <2>1, <2>5, <2>9 DEF BanOK, Bans
  <2> QED
    BY <2>6, <2>7, <2>8, <2>10 DEF UserOK
<1>18. OwnerOK'
  <2>1. Calm' => Calm /\ u \notin Owners
    BY Zenon, <1>2, <1>5, <1>11 DEF History, UserOK, MirrorOK, Owners, Subscriber
  <2>2. Calm' => t.owner \in Owners'
    BY Zenon, <2>1, <1>1, <1>5, <1>12 DEF OwnerOK, Owners
  <2>3. row'.owner # row.owner => row'.owner \in Owners'
    BY <1>12 DEF Owners, Row, Effective
  <2> HIDE DEF bans
  <2> QED
    BY Zenon, <2>2, <2>3, <1>1, <1>5, <1>10, <1>11, OwnerStays DEF History, Placed
<1> QED
    BY <1>14, <1>16, <1>17, <1>18 DEF Inv

=============================================================================
