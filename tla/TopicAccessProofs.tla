------------------------- MODULE TopicAccessProofs -------------------------
(***************************************************************************)
(* Proofs about access to a topic, for any users, modes, bounds, readers   *)
(* and absent users.                                                       *)
(***************************************************************************)
EXTENDS TopicAccessSteps

\* The provers of a leaf that names none.
USE SMTT(20), ZenonT(20)

-----------------------------------------------------------------------------
(* A user changes or confirms the own subscription, and may take the topic *)
(* over.  First the permissions that ExistingSub decides on ...            *)
Decided(u, mode) ==
    LET p == t.perUser[u]
        want == WantAfter(p, mode)
        given == GivenAfter(p, mode)
    IN  /\ p \in Cache /\ want \in Mode /\ given \in Mode /\ want # Unset /\ given # Unset
        /\ p.given \subseteq given /\ ("O" \in given => "O" \in p.given)
        /\ ~IsAdmin(p.given) => given = p.given
        /\ p.isChan /\ "J" \notin want => want # p.want \/ given # p.given
        /\ OwnerChange(p, mode) =>
              "O" \in want /\ "O" \in p.given /\ "O" \notin p.want /\ want # p.want
        /\ t.owner = u /\ "O" \in p.want \cap p.given => "O" \in want

LEMMA DecidedFacts ==
    ASSUME Inv, NEW u \in Users, NEW mode \in Wants, Cached(u),
           mode # Unset => /\ t.owner = u => {"O", "J"} \subseteq mode
                           /\ "O" \in mode => "O" \in t.perUser[u].given
    PROVE  Decided(u, mode)
<1> DEFINE p == t.perUser[u]
           want == WantAfter(p, mode)
           given == GivenAfter(p, mode)
<1>1. p \in Cache /\ p.want \in Mode /\ p.given \in Mode
    BY CachesFacts DEF Inv, TypeOK, Topics, Cached, Cache
<1>2. /\ mode # Unset => mode \in Mode
      /\ Default \in Mode /\ "O" \notin Default /\ \A m \in Mode : m # Unset
    BY ModesAssumption
<1>3. p.isChan => "J" \in p.want
    BY DEF Inv, UserOK, AttachedOK
<1>4. CASE mode = Unset
  <2>1. /\ given = p.given /\ ~OwnerChange(p, mode)
        /\ want = IF "J" \notin p.want THEN p.given \cup Default ELSE p.want
    BY <1>4 DEF GivenAfter, WantAfter, OwnerChange
  <2>2. want \in Mode
    BY <2>1, <1>1, <1>2 DEF Mode
  <2> QED
    BY <2>1, <2>2, <1>1, <1>2, <1>3 DEF Decided
<1>5. CASE mode # Unset
  <2>1. want = mode /\ want \in Mode
    BY <1>2, <1>5 DEF WantAfter
  <2>2. /\ given \in Mode /\ p.given \subseteq given
        /\ "O" \in given => "O" \in p.given
        /\ ~IsAdmin(p.given) => given = p.given
    BY <1>1, <1>2, <1>5 DEF GivenAfter, Mode, IsAdmin
  <2> QED
    BY <2>1, <2>2, <1>1, <1>2, <1>3, <1>5 DEF Decided, OwnerChange
<1> QED
    BY <1>4, <1>5

LEMMA OldOwnerFacts ==
    ASSUME Inv
    PROVE  /\ Stripped(OldOwner) \in Cache
           /\ Stripped(OldOwner).want = OldOwner.want \ {"O"}
           /\ Stripped(OldOwner).given = OldOwner.given \ {"O"}
           /\ Stripped(OldOwner).isChan = OldOwner.isChan
           /\ Stripped(OldOwner).online = OldOwner.online
           /\ Stripped(OldOwner).want \in Mode /\ Stripped(OldOwner).given \in Mode
           /\ Cached(t.owner) => OldOwner = t.perUser[t.owner]
           /\ ~Cached(t.owner) => ~OldOwner.isChan
<1>1. /\ Cached(t.owner) => OldOwner = t.perUser[t.owner]
      /\ ~Cached(t.owner) => OldOwner = Entry({}, {}, FALSE)
    BY Zenon DEF OldOwner
<1>2. OldOwner \in Cache /\ (~Cached(t.owner) => ~OldOwner.isChan)
  <2>1. CASE Cached(t.owner)
    BY <1>1, <2>1, CachesFacts DEF Inv, TypeOK, Topics, Cached
  <2>2. CASE ~Cached(t.owner)
    <3>1. Entry({}, {}, FALSE) \in Cache /\ ~Entry({}, {}, FALSE).isChan
      BY DEF Entry, Cache, Mode
    <3> QED
      BY Zenon, <1>1, <2>2, <3>1
  <2> QED
    BY <2>1, <2>2
<1>3. \A m \in Mode : m \ {"O"} \in Mode
    BY DEF Mode
<1> QED
    BY Zenon, <1>1, <1>2, <1>3 DEF Stripped, Cache

\* ... then the rows it writes: the user's own, and then those of the former owner and
\* of the topic, unless a call fails before ...
Rewritten(u, mode, ok) ==
    LET p == t.perUser[u]
        want == WantAfter(p, mode)
        given == GivenAfter(p, mode)
        takes == OwnerChange(p, mode)
    IN  /\ subs' \in [Users -> Subscription] /\ row' \in [owner : Users, usebt : BOOLEAN]
        /\ \A x \in Users :
              /\ subs'[x].state = subs[x].state
              /\ subs[x].state = "none" => subs'[x] = subs[x]
              /\ \/ subs'[x].given = subs[x].given
                 \/ "O" \notin subs'[x].given
                 \/ x = u /\ subs'[x].given = given
        /\ ok => \A x \in Users \ {u} :
              /\ ~takes \/ t.owner \notin {x, NoOne} => subs'[x] = subs[x]
              /\ takes /\ t.owner = x /\ subs[x].state # "none" =>
                    /\ subs'[x].want = Stripped(OldOwner).want
                    /\ subs'[x].given = Stripped(OldOwner).given
        /\ ok /\ (~takes \/ t.owner \notin {u, NoOne}) =>
              /\ want = p.want => subs'[u].want = subs[u].want
              /\ given = p.given => subs'[u].given = subs[u].given
              /\ subs[u].state # "none" /\ want # p.want => subs'[u].want = want
              /\ subs[u].state # "none" /\ given # p.given => subs'[u].given = given
        /\ ok => row'.owner = IF takes THEN u ELSE row.owner

Writes(u, mode, self, done, ok) ==
    LET p == t.perUser[u]
        gone == Stripped(OldOwner)
    IN  /\ self = Updated(subs, u, Column(WantAfter(p, mode), p.want),
                                   Column(GivenAfter(p, mode), p.given))
        /\ done \in Int /\ (done = 0 \/ done = 1 \/ OwnerChange(p, mode))
        /\ ok => done = IF OwnerChange(p, mode) THEN 3 ELSE IF Changed(p, mode) THEN 1 ELSE 0
        /\ subs' = CASE done = 0 -> subs
                     [] done = 1 -> self
                     [] OTHER -> Updated(self, t.owner, gone.want, gone.given)
        /\ row' = IF done = 3 THEN [row EXCEPT !.owner = u] ELSE row

LEMMA OwnRow ==
    ASSUME Inv, NEW u \in Users, NEW mode \in Wants, Decided(u, mode), NEW self, NEW done,
           NEW ok \in BOOLEAN, Writes(u, mode, self, done, ok)
    PROVE  LET p == t.perUser[u]
               want == WantAfter(p, mode)
               given == GivenAfter(p, mode)
           IN  /\ self \in [Users -> Subscription]
               /\ \A x \in Users \ {u} : self[x] = subs[x]
               /\ self[u].state = subs[u].state
               /\ subs[u].state = "none" => self[u] = subs[u]
               /\ want = p.want => self[u].want = subs[u].want
               /\ given = p.given => self[u].given = subs[u].given
               /\ subs[u].state # "none" /\ want # p.want => self[u].want = want
               /\ subs[u].state # "none" /\ given # p.given => self[u].given = given
<1> DEFINE p == t.perUser[u]
           want == WantAfter(p, mode)
           given == GivenAfter(p, mode)
           w == Column(want, p.want)
           g == Column(given, p.given)
<1>1. /\ w \in {Unset} \cup Mode /\ g \in {Unset} \cup Mode
      /\ want = p.want => w = Unset
      /\ want # p.want => w = want /\ w # Unset
      /\ given = p.given => g = Unset
      /\ given # p.given => g = given /\ g # Unset
    BY DEF Column, Decided
<1>2. subs \in [Users -> Subscription]
    BY DEF Inv, TypeOK
<1> HIDE DEF w, g
<1>3. Overwritten(Updated(subs, u, w, g), subs, u, w, g)
    BY <1>1, <1>2, UpdatedOne
<1>4. self = Updated(subs, u, w, g)
    BY DEF Writes, w, g
<1> QED
    BY <1>1, <1>3, <1>4 DEF Overwritten

LEMMA RewrittenFacts ==
    ASSUME Inv, NEW u \in Users, NEW mode \in Wants, Decided(u, mode), NEW self, NEW done,
           NEW ok \in BOOLEAN, Writes(u, mode, self, done, ok)
    PROVE  Rewritten(u, mode, ok)
<1> DEFINE p == t.perUser[u]
           want == WantAfter(p, mode)
           given == GivenAfter(p, mode)
           takes == OwnerChange(p, mode)
           w == Stripped(OldOwner).want
           g == Stripped(OldOwner).given
           both == Updated(self, t.owner, w, g)
<1>1. /\ self \in [Users -> Subscription]
      /\ \A x \in Users \ {u} : self[x] = subs[x]
      /\ self[u].state = subs[u].state
      /\ subs[u].state = "none" => self[u] = subs[u]
      /\ want = p.want => self[u].want = subs[u].want
      /\ given = p.given => self[u].given = subs[u].given
      /\ subs[u].state # "none" /\ want # p.want => self[u].want = want
      /\ subs[u].state # "none" /\ given # p.given => self[u].given = given
    BY OwnRow
<1>2. /\ w \in {Unset} \cup Mode /\ g \in {Unset} \cup Mode /\ w # Unset /\ g # Unset
      /\ "O" \notin g /\ t.owner \in Users \cup {NoOne} /\ subs \in [Users -> Subscription]
      /\ row \in [owner : Users, usebt : BOOLEAN]
    BY OldOwnerFacts, ModesAssumption DEF Inv, TypeOK, Topics
<1>3. /\ done = 0 => subs' = subs
      /\ done = 1 => subs' = self
      /\ ~(done = 0 \/ done = 1) => subs' = both
    BY DEF Writes
<1> HIDE DEF w, g, takes, want, given, p
<1>4. OverwrittenAll(both, self, t.owner, w, g)
    BY Zenon, <1>1, <1>2, UpdatedFacts
<1> HIDE DEF both
<1>5. /\ both \in [Users -> Subscription]
      /\ \A x \in Users :
            /\ both[x].state = self[x].state
            /\ t.owner \notin {x, NoOne} \/ self[x].state = "none" => both[x] = self[x]
            /\ t.owner \in {x, NoOne} /\ self[x].state # "none" =>
                  both[x].want = w /\ both[x].given = g
    BY <1>2, <1>4 DEF OverwrittenAll
<1>6. /\ \A x \in Users : self[x].state = subs[x].state
      /\ \A x \in Users : subs[x].state = "none" => self[x] = subs[x]
      /\ \A x \in Users : self[x].given = subs[x].given \/ (x = u /\ self[x].given = given)
  <2>1. self[u].given = subs[u].given \/ self[u].given = given
    BY <1>1
  <2> QED
    BY <2>1, <1>1
<1>7. /\ subs' \in [Users -> Subscription]
      /\ \A x \in Users :
            /\ subs'[x].state = subs[x].state
            /\ subs[x].state = "none" => subs'[x] = subs[x]
            /\ \/ subs'[x].given = subs[x].given
               \/ "O" \notin subs'[x].given
               \/ x = u /\ subs'[x].given = given
  <2>1. CASE subs' = subs
    BY <2>1, <1>2
  <2>2. CASE subs' = self
    BY <2>2, <1>1, <1>6
  <2>3. CASE subs' = both
    <3>1. ASSUME NEW x \in Users
          PROVE  /\ both[x].state = subs[x].state
                 /\ subs[x].state = "none" => both[x] = subs[x]
                 /\ \/ both[x].given = subs[x].given
                    \/ "O" \notin both[x].given
                    \/ x = u /\ both[x].given = given
      <4>1. CASE t.owner \notin {x, NoOne} \/ self[x].state = "none"
        BY <4>1, <1>5, <1>6
      <4>2. CASE ~(t.owner \notin {x, NoOne} \/ self[x].state = "none")
        BY <4>2, <1>2, <1>5, <1>6
      <4> QED
        BY <4>1, <4>2
    <3> QED
      BY <2>3, <3>1, <1>5
  <2> QED
    BY <2>1, <2>2, <2>3, <1>3
<1>8. ok => done = IF takes THEN 3 ELSE IF want # p.want \/ given # p.given THEN 1 ELSE 0
    BY DEF Writes, Changed, takes, want, given, p
<1>9. row' \in [owner : Users, usebt : BOOLEAN] /\ (ok => row'.owner = IF takes THEN u ELSE row.owner)
    BY <1>2, <1>8 DEF Writes
<1>10. ASSUME ok, NEW x \in Users \ {u}
      PROVE  /\ ~takes \/ t.owner \notin {x, NoOne} => subs'[x] = subs[x]
             /\ takes /\ t.owner = x /\ subs[x].state # "none" =>
                   subs'[x].want = w /\ subs'[x].given = g
  <2>1. CASE takes
    <3>1. subs' = both
      BY <2>1, <1>3, <1>8, <1>10
    <3> QED
      BY <2>1, <3>1, <1>1, <1>5
  <2>2. CASE ~takes
    BY <2>2, <1>1, <1>3, <1>8, <1>10
  <2> QED
    BY <2>1, <2>2
<1>11. ASSUME ok, ~takes \/ t.owner \notin {u, NoOne}
       PROVE  /\ want = p.want => subs'[u].want = subs[u].want
              /\ given = p.given => subs'[u].given = subs[u].given
              /\ subs[u].state # "none" /\ want # p.want => subs'[u].want = want
              /\ subs[u].state # "none" /\ given # p.given => subs'[u].given = given
  <2>1. CASE takes
    <3>1. subs' = both
      BY <2>1, <1>3, <1>8, <1>11
    <3>2. both[u] = self[u]
      BY <2>1, <1>5, <1>11
    <3> QED
      BY <3>1, <3>2, <1>1
  <2>2. CASE ~takes
    BY <2>2, <1>1, <1>3, <1>8, <1>11
  <2> QED
    BY <2>1, <2>2
<1> QED
    BY <1>7, <1>9, <1>10, <1>11 DEF Rewritten, takes, want, given, p, w, g

\* ... and what is cached and attached when it is done.
Shown(u, asChan, mode, joining, ok) ==
    LET p == t.perUser[u]
        want == WantAfter(p, mode)
        given == GivenAfter(p, mode)
        takes == OwnerChange(p, mode)
        left == IF "J" \in want THEN sessions[u] ELSE NoSess
    IN  /\ t' \in Topics /\ sessions' \in AttachedSessions /\ t'.loaded = t.loaded
        /\ t'.owner = IF ok /\ takes THEN u ELSE t.owner
        /\ \A x \in Users \ {u} :
              /\ sessions'[x] = sessions[x]
              /\ ~(ok /\ takes /\ x = t.owner) =>
                    /\ x \in DOMAIN t'.perUser <=> x \in DOMAIN t.perUser
                    /\ x \in DOMAIN t.perUser => t'.perUser[x] = t.perUser[x]
        /\ ok /\ takes /\ t.owner # u =>
              t.owner \in DOMAIN t'.perUser /\ t'.perUser[t.owner] = Stripped(OldOwner)
        /\ ~ok => t' = t /\ sessions' = sessions
        /\ ok => /\ u \in DOMAIN t'.perUser <=> (p.isChan => "J" \in want)
                 /\ u \in DOMAIN t'.perUser =>
                       /\ t'.perUser[u].want = want /\ t'.perUser[u].given = given
                       /\ t'.perUser[u].isChan <=> p.isChan
                 /\ \E joined \in BOOLEAN :
                       /\ joined => /\ joining
                                    /\ Changed(p, mode) => "J" \in want \cap given
                                    /\ "J" \in want => "J" \in given
                       /\ u \in DOMAIN t'.perUser =>
                             t'.perUser[u].online = (IF "J" \in want THEN p.online ELSE 0)
                                                    + (IF joined THEN 1 ELSE 0)
                       /\ sessions'[u].grp = left.grp + (IF joined /\ ~asChan THEN 1 ELSE 0)
                       /\ sessions'[u].chn = left.chn + (IF joined /\ asChan THEN 1 ELSE 0)

\* The topic with the former owner stripped, before the user's own entry is put.
Handed(u, takes, after) ==
    /\ after \in Topics /\ after.loaded = t.loaded
    /\ after.owner = IF takes THEN u ELSE t.owner
    /\ \A x : ~(takes /\ x = t.owner) =>
          /\ x \in DOMAIN after.perUser <=> x \in DOMAIN t.perUser
          /\ x \in DOMAIN t.perUser => after.perUser[x] = t.perUser[x]
    /\ takes => /\ t.owner \in DOMAIN after.perUser
                /\ after.perUser[t.owner] = Stripped(OldOwner)

LEMMA HandedOver ==
    ASSUME Inv, NEW u \in Users, NEW takes \in BOOLEAN, NEW after,
           after = IF takes
                   THEN [t EXCEPT !.owner = u, !.perUser = Put(@, t.owner, Stripped(OldOwner))]
                   ELSE t
    PROVE  Handed(u, takes, after)
<1> DEFINE f == t.perUser
           o == t.owner
           p == Stripped(OldOwner)
           put == Put(f, o, p)
<1>1. f \in Caches /\ o \in Users \cup {NoOne} /\ p \in Cache /\ t \in Topics
    BY OldOwnerFacts DEF Inv, TypeOK, Topics
<1>2. CASE takes
  <2>1. after = [t EXCEPT !.owner = u, !.perUser = put]
    BY <1>2
  <2> HIDE DEF f, o, p
  <2>2. /\ put \in Caches /\ DOMAIN put = DOMAIN f \cup {o} /\ put[o] = p
        /\ \A x \in DOMAIN f : x # o => put[x] = f[x]
    BY Zenon, <1>1, PutFacts
  <2> HIDE DEF put
  <2>3. /\ after \in Topics /\ after.loaded = t.loaded /\ after.owner = u
        /\ after.perUser = put
    BY Zenon, <2>1, <2>2, <1>1 DEF Topics
  <2> QED
    BY <1>2, <2>2, <2>3 DEF Handed, f, o, p
<1>3. CASE ~takes
    BY <1>1, <1>3 DEF Handed
<1> QED
    BY <1>2, <1>3

LEMMA ShownFacts ==
    ASSUME Inv, NEW u \in Users, NEW asChan \in BOOLEAN, NEW mode \in Wants,
           NEW joining \in BOOLEAN, NEW ok \in BOOLEAN, Cached(u), Decided(u, mode), NEW after,
           after = IF OwnerChange(t.perUser[u], mode)
                   THEN [t EXCEPT !.owner = u, !.perUser = Put(@, t.owner, Stripped(OldOwner))]
                   ELSE t,
           IF ok THEN Settle(after, u, [t.perUser[u] EXCEPT !.want = WantAfter(t.perUser[u], mode),
                                                            !.given = GivenAfter(t.perUser[u], mode)],
                             Changed(t.perUser[u], mode), joining, asChan)
                 ELSE UNCHANGED <<t, sessions>>
    PROVE  Shown(u, asChan, mode, joining, ok)
<1> DEFINE p == t.perUser[u]
           want == WantAfter(p, mode)
           given == GivenAfter(p, mode)
           takes == OwnerChange(p, mode)
           changed == Changed(p, mode)
           q == [p EXCEPT !.want = want, !.given = given]
           joined == joining /\ Joined(q, changed)
<1>1. /\ t \in Topics /\ sessions \in AttachedSessions
      /\ takes \in BOOLEAN /\ changed \in BOOLEAN
    BY DEF Inv, TypeOK, OwnerChange, Changed
<1>2. /\ q \in Cache /\ q.want = want /\ q.given = given
      /\ q.isChan = p.isChan /\ q.online = p.online
      /\ q.isChan /\ "J" \notin q.want => changed
    BY Zenon DEF Decided, Cache, Changed
<1>3. IF ok THEN Settle(after, u, q, changed, joining, asChan) ELSE UNCHANGED <<t, sessions>>
    OBVIOUS
<1>4. after = IF takes
              THEN [t EXCEPT !.owner = u, !.perUser = Put(@, t.owner, Stripped(OldOwner))]
              ELSE t
    OBVIOUS
<1> HIDE DEF takes, changed
<1>5. Handed(u, takes, after)
    BY Zenon, <1>1, <1>4, HandedOver
<1> HIDE DEF q
<1>6. CASE ~ok
    BY <1>1, <1>3, <1>6 DEF Shown
<1>7. CASE ok
  <2>1. after \in Topics
    BY <1>5 DEF Handed
  <2>2. Settled(after, u, q, joined, asChan)
    BY <1>1, <1>2, <1>3, <2>1, <1>7, SettleFacts
  <2>3. joined => /\ joining
                  /\ changed => "J" \in want \cap given
                  /\ "J" \in want => "J" \in given
    BY <1>2 DEF Joined, Effective
  <2>4. joined \in BOOLEAN
    BY DEF Joined
  <2> HIDE DEF joined
  <2>5. /\ t' \in Topics /\ sessions' \in AttachedSessions /\ t'.loaded = t.loaded
        /\ t'.owner = IF takes THEN u ELSE t.owner
        /\ \A x \in Users \ {u} :
              /\ sessions'[x] = sessions[x]
              /\ ~(takes /\ x = t.owner) =>
                    /\ x \in DOMAIN t'.perUser <=> x \in DOMAIN t.perUser
                    /\ x \in DOMAIN t.perUser => t'.perUser[x] = t.perUser[x]
        /\ takes /\ t.owner # u =>
              t.owner \in DOMAIN t'.perUser /\ t'.perUser[t.owner] = Stripped(OldOwner)
    BY <2>2, <1>5 DEF Settled, Handed
  <2>6. /\ u \in DOMAIN t'.perUser <=> (p.isChan => "J" \in want)
        /\ u \in DOMAIN t'.perUser =>
              /\ t'.perUser[u].want = want /\ t'.perUser[u].given = given
              /\ t'.perUser[u].isChan <=> p.isChan
              /\ t'.perUser[u].online = (IF "J" \in want THEN p.online ELSE 0)
                                        + (IF joined THEN 1 ELSE 0)
    BY <2>2, <1>2 DEF Settled
  <2>7. LET left == IF "J" \in want THEN sessions[u] ELSE NoSess
        IN  /\ sessions'[u].grp = left.grp + (IF joined /\ ~asChan THEN 1 ELSE 0)
            /\ sessions'[u].chn = left.chn + (IF joined /\ asChan THEN 1 ELSE 0)
    BY <2>2, <1>2 DEF Settled
  <2> HIDE DEF want, given, p
  <2> QED
    BY <1>7, <2>3, <2>4, <2>5, <2>6, <2>7 DEF Shown, takes, changed, want, given, p
<1> QED
    BY <1>6, <1>7

\* The whole of the request.
Told(u, mode, joining, ok) ==
    LET p == t.perUser[u]
        want == WantAfter(p, mode)
        given == GivenAfter(p, mode)
    IN  /\ offered' = IF ok /\ OwnerChange(p, mode) THEN (offered \ {t.owner}) \cup {u} ELSE offered
        /\ faults' \in Nat /\ banned' \subseteq Users /\ selfBanned' \subseteq Users
        /\ Calm' =>
              /\ Calm /\ ok
              /\ banned' = IF IsAdmin(p.given) /\ "J" \in given THEN banned \ {u} ELSE banned
              /\ selfBanned' = Bans(selfBanned, u, want, ~p.isChan /\ u \notin unseen)
        /\ "slipped" \notin upset' =>
              "slipped" \notin upset /\ ~(joining /\ ok /\ ~Changed(p, mode) /\ "J" \notin want)
        /\ Calm' /\ "shared" \notin upset' => "shared" \notin upset /\ ~Shared'

Answered(u, asChan, mode, joining, ok) ==
    /\ Decided(u, mode) /\ Rewritten(u, mode, ok) /\ Shown(u, asChan, mode, joining, ok)
    /\ Told(u, mode, joining, ok)
    /\ asChan => t.perUser[u].isChan
    /\ UNCHANGED <<chnSubs, pending, unseen>>

LEMMA ToldFacts ==
    ASSUME Inv, NEW u \in Users, NEW mode \in Wants, NEW joining \in BOOLEAN,
           NEW calls \in Nat, NEW done \in 0..calls, NEW ok \in BOOLEAN, Calls(calls, done, ok),
           offered' = IF ok /\ OwnerChange(t.perUser[u], mode)
                      THEN (offered \ {t.owner}) \cup {u} ELSE offered,
           Upset(FALSE, joining /\ ok /\ ~Changed(t.perUser[u], mode)
                                /\ "J" \notin WantAfter(t.perUser[u], mode)),
           Followed(IF IsAdmin(t.perUser[u].given) /\ "J" \in GivenAfter(t.perUser[u], mode)
                    THEN banned \ {u} ELSE banned,
                    Bans(selfBanned, u, WantAfter(t.perUser[u], mode),
                         ok /\ ~t.perUser[u].isChan /\ u \notin unseen))
    PROVE  Told(u, mode, joining, ok)
<1> DEFINE p == t.perUser[u]
           want == WantAfter(p, mode)
           given == GivenAfter(p, mode)
           slips == joining /\ ok /\ ~Changed(p, mode) /\ "J" \notin want
           byManager == IF IsAdmin(p.given) /\ "J" \in given THEN banned \ {u} ELSE banned
           bySelf == Bans(selfBanned, u, want, ok /\ ~p.isChan /\ u \notin unseen)
           torn == FALSE
<1>1. /\ torn \in BOOLEAN /\ slips \in BOOLEAN
      /\ byManager \in SUBSET Users /\ bySelf \in SUBSET Users /\ faults \in Nat
    BY DEF Inv, TypeOK, Bans
<1>2. Upset(torn, slips) /\ Followed(byManager, bySelf)
    BY Zenon
<1>3. faults' \in Nat /\ (faults' = 0 => faults = 0 /\ ok)
    BY <1>1, CallsFacts
<1>4. ok => bySelf = Bans(selfBanned, u, want, ~p.isChan /\ u \notin unseen)
    BY DEF Bans
<1> HIDE DEF torn, slips, byManager, bySelf
<1>5. History(ok, torn, slips, byManager, bySelf)
    BY <1>1, <1>2, <1>3, HistoryFacts
<1>6. /\ faults' \in Nat /\ banned' \subseteq Users /\ selfBanned' \subseteq Users
      /\ Calm' => Calm /\ ok /\ banned' = byManager /\ selfBanned' = bySelf
      /\ "slipped" \notin upset' => "slipped" \notin upset /\ ~slips
      /\ Calm' /\ "shared" \notin upset' => "shared" \notin upset /\ ~Shared'
    BY <1>5 DEF History
<1> QED
    BY <1>4, <1>6 DEF Told, slips, byManager

LEMMA AnsweredFacts ==
    ASSUME Inv, NEW u \in Users, NEW asChan \in BOOLEAN, NEW mode \in Wants,
           NEW joining \in BOOLEAN, Cached(u), ExistingSub(u, asChan, mode, joining)
    PROVE  \E ok \in BOOLEAN : Answered(u, asChan, mode, joining, ok)
<1> DEFINE p == t.perUser[u]
           takes == OwnerChange(p, mode)
           self == Updated(subs, u, Column(WantAfter(p, mode), p.want),
                                    Column(GivenAfter(p, mode), p.given))
           calls == IF takes THEN 3 ELSE IF Changed(p, mode) THEN 1 ELSE 0
           after == IF takes
                    THEN [t EXCEPT !.owner = u, !.perUser = Put(@, t.owner, Stripped(OldOwner))]
                    ELSE t
<1>1. /\ asChan => p.isChan
      /\ mode # Unset => (t.owner = u => {"O", "J"} \subseteq mode) /\ ("O" \in mode => "O" \in p.given)
      /\ UNCHANGED <<chnSubs, pending, unseen>>
    BY DEF ExistingSub
<1>2. PICK done \in 0..calls, ok \in BOOLEAN :
        /\ Calls(calls, done, ok)
        /\ subs' = CASE done = 0 -> subs
                     [] done = 1 -> self
                     [] OTHER -> Updated(self, t.owner, Stripped(OldOwner).want,
                                                        Stripped(OldOwner).given)
        /\ row' = IF done = 3 THEN [row EXCEPT !.owner = u] ELSE row
        /\ IF ok THEN Settle(after, u, [p EXCEPT !.want = WantAfter(p, mode),
                                                 !.given = GivenAfter(p, mode)],
                             Changed(p, mode), joining, asChan)
                 ELSE UNCHANGED <<t, sessions>>
        /\ offered' = IF ok /\ takes THEN (offered \ {t.owner}) \cup {u} ELSE offered
        /\ Upset(FALSE, joining /\ ok /\ ~Changed(p, mode) /\ "J" \notin WantAfter(p, mode))
        /\ Followed(IF IsAdmin(p.given) /\ "J" \in GivenAfter(p, mode) THEN banned \ {u} ELSE banned,
                    Bans(selfBanned, u, WantAfter(p, mode), ok /\ ~p.isChan /\ u \notin unseen))
    BY Zenon DEF ExistingSub
<1>3. Decided(u, mode)
    BY <1>1, DecidedFacts
<1>4. calls \in Nat /\ done \in Int /\ (done = 0 \/ done = 1 \/ takes)
    OBVIOUS
<1>5. ok => done = calls
    BY <1>2, <1>4 DEF Calls
<1>6. Rewritten(u, mode, ok)
  <2>1. Writes(u, mode, self, done, ok)
    <3> HIDE DEF p, takes, after
    <3> QED
      BY <1>2, <1>4, <1>5 DEF Writes, p, takes
  <2> HIDE DEF self
  <2> QED
    BY <2>1, <1>3, RewrittenFacts
<1>7. Shown(u, asChan, mode, joining, ok)
    BY Zenon, <1>2, <1>3, ShownFacts
<1>8. Told(u, mode, joining, ok)
  <2> HIDE DEF calls
  <2> QED
    BY Zenon, <1>2, <1>4, ToldFacts
<1> QED
    BY <1>1, <1>3, <1>6, <1>7, <1>8 DEF Answered

LEMMA AnsweredTypes ==
    ASSUME Inv, NEW u \in Users, NEW asChan \in BOOLEAN, NEW mode \in Wants,
           NEW joining \in BOOLEAN, NEW ok \in BOOLEAN, Answered(u, asChan, mode, joining, ok)
    PROVE  TypeOK' /\ Course
<1>1. /\ t' \in Topics /\ sessions' \in AttachedSessions /\ t'.loaded = t.loaded
      /\ subs' \in [Users -> Subscription] /\ row' \in [owner : Users, usebt : BOOLEAN]
      /\ banned' \subseteq Users /\ selfBanned' \subseteq Users /\ faults' \in Nat
      /\ chnSubs' = chnSubs /\ pending' = pending
      /\ Calm' => Calm
      /\ "slipped" \notin upset' => "slipped" \notin upset
    BY Zenon DEF Answered, Rewritten, Shown, Told
<1> QED
    BY Zenon, <1>1 DEF Inv, TypeOK, Course

LEMMA AnsweredGiven ==
    ASSUME Inv, NEW u \in Users, NEW asChan \in BOOLEAN, NEW mode \in Wants,
           NEW joining \in BOOLEAN, NEW ok \in BOOLEAN, Cached(u),
           Answered(u, asChan, mode, joining, ok), NEW x \in Users
    PROVE  GivenOK(x)'
<1> DEFINE p == t.perUser[u]
           given == GivenAfter(p, mode)
           moved == ok /\ OwnerChange(p, mode)
<1>1. UserOK(x) /\ UserOK(u)
    BY DEF Inv
<1>2. /\ x \in offered => x \in offered' \/ (moved /\ x = t.owner /\ t.owner # u)
      /\ moved => u \in offered'
    BY Zenon DEF Answered, Told
<1>3. /\ subs'[x].state = subs[x].state
      /\ subs[x].state = "none" => subs'[x] = subs[x]
      /\ \/ subs'[x].given = subs[x].given
         \/ "O" \notin subs'[x].given
         \/ x = u /\ subs'[x].given = given
      /\ moved /\ t.owner = x /\ x # u /\ subs[x].state # "none" =>
            subs'[x].given = Stripped(OldOwner).given
    BY Zenon DEF Answered, Rewritten
<1>4. "O" \in given => u \in offered
    BY Zenon, <1>1 DEF Answered, Decided, UserOK, GivenOK
<1>5. /\ ok /\ u \in DOMAIN t'.perUser => t'.perUser[u].given = given
      /\ ~ok => t' = t
      /\ x # u /\ ~(moved /\ x = t.owner) =>
            /\ x \in DOMAIN t'.perUser <=> x \in DOMAIN t.perUser
            /\ x \in DOMAIN t.perUser => t'.perUser[x] = t.perUser[x]
      /\ moved /\ t.owner # u => t'.perUser[t.owner] = Stripped(OldOwner)
    BY DEF Answered, Shown
<1>6. "O" \notin Stripped(OldOwner).given
    BY OldOwnerFacts
<1> HIDE DEF given, moved
<1>7. "O" \in subs'[x].given => x \in offered'
    BY <1>1, <1>2, <1>3, <1>4, <1>6 DEF UserOK, GivenOK
<1>8. ASSUME x \in DOMAIN t'.perUser, "O" \in t'.perUser[x].given PROVE x \in offered'
  <2>1. CASE x = u
    BY <2>1, <1>1, <1>2, <1>4, <1>5, <1>8 DEF UserOK, GivenOK, Cached
  <2>2. CASE x # u /\ moved /\ x = t.owner
    BY Zenon, <2>2, <1>5, <1>6, <1>8
  <2>3. CASE x # u /\ ~(moved /\ x = t.owner)
    BY <2>3, <1>1, <1>2, <1>5, <1>8 DEF UserOK, GivenOK, Cached
  <2> QED
    BY <2>1, <2>2, <2>3
<1>9. pending' = pending
    BY DEF Answered
<1> QED
    BY <1>1, <1>3, <1>7, <1>8, <1>9 DEF UserOK, GivenOK, Cached

LEMMA AnsweredAttachedOther ==
    ASSUME Inv, NEW u \in Users, NEW asChan \in BOOLEAN, NEW mode \in Wants,
           NEW joining \in BOOLEAN, NEW ok \in BOOLEAN, Cached(u),
           Answered(u, asChan, mode, joining, ok), NEW x \in Users \ {u}
    PROVE  AttachedOK(x)'
<1> DEFINE moved == ok /\ OwnerChange(t.perUser[u], mode)
           gone == Stripped(OldOwner)
<1>1. UserOK(x) /\ sessions[x] \in [grp : Nat, chn : Nat] /\ UserOK(u) /\ Course
    BY AnsweredTypes DEF Inv, TypeOK, AttachedSessions
<1>2. t.loaded
    BY Zenon, <1>1 DEF UserOK, AttachedOK
<1>3. /\ sessions'[x] = sessions[x]
      /\ ~(moved /\ x = t.owner) =>
            /\ x \in DOMAIN t'.perUser <=> x \in DOMAIN t.perUser
            /\ x \in DOMAIN t.perUser => t'.perUser[x] = t.perUser[x]
      /\ moved /\ x = t.owner => x \in DOMAIN t'.perUser /\ t'.perUser[x] = gone
    BY DEF Answered, Shown
<1> HIDE DEF moved
<1>4. CASE moved /\ x = t.owner
  <2>1. CASE Cached(x)
    <3>1. /\ t'.perUser[x].online = t.perUser[x].online
          /\ t'.perUser[x].isChan = t.perUser[x].isChan
          /\ t'.perUser[x].given = t.perUser[x].given \ {"O"}
          /\ t'.perUser[x].want = t.perUser[x].want \ {"O"}
      BY Zenon, <2>1, <1>3, <1>4, OldOwnerFacts
    <3> QED
      BY Zenon, <3>1, <2>1, <1>1, <1>3, <1>4
         DEF UserOK, AttachedOK, Attached, Cached, Course, Effective
  <2>2. CASE ~Cached(x)
    <3>1. sessions[x] = NoSess /\ ~t'.perUser[x].isChan
      BY Zenon, <2>2, <1>1, <1>3, <1>4, OldOwnerFacts DEF UserOK, AttachedOK, Attached
    <3>2. ~Attached(x)' /\ ~(sessions'[x].chn > 0)
      BY <3>1, <1>3 DEF Attached, NoSess
    <3> QED
      BY Zenon, <3>1, <3>2, <1>1, <1>2 DEF AttachedOK, Cached, Course
  <2> QED
    BY Zenon, <2>1, <2>2
<1>5. CASE ~(moved /\ x = t.owner)
  <2>1. (Attached(x)' <=> Attached(x)) /\ (Cached(x)' <=> Cached(x))
    BY <1>3, <1>5 DEF Attached, Cached
  <2>2. Cached(x) => t'.perUser[x] = t.perUser[x]
    BY Zenon, <1>3, <1>5 DEF Cached
  <2>3. CASE Cached(x)
    BY Zenon, <2>1, <2>2, <2>3, <1>1, <1>3 DEF UserOK, AttachedOK, Course, Effective
  <2>4. CASE ~Cached(x)
    <3>1. ~Attached(x)' /\ ~(sessions'[x].chn > 0)
      BY <2>1, <2>4, <1>1, <1>3 DEF UserOK, AttachedOK, Attached, NoSess
    <3> QED
      BY Zenon, <3>1, <2>1, <2>4 DEF AttachedOK
  <2> QED
    BY Zenon, <2>3, <2>4
<1> QED
    BY Zenon, <1>4, <1>5

LEMMA AnsweredAttached ==
    ASSUME Inv, NEW u \in Users, NEW asChan \in BOOLEAN, NEW mode \in Wants,
           NEW joining \in BOOLEAN, NEW ok \in BOOLEAN, Cached(u),
           Answered(u, asChan, mode, joining, ok)
    PROVE  AttachedOK(u)'
<1> DEFINE p == t.perUser[u]
           want == WantAfter(p, mode)
           given == GivenAfter(p, mode)
           changed == want # p.want \/ given # p.given
           s == sessions[u]
           z == sessions'[u]
<1>1. UserOK(u) /\ Course
    BY AnsweredTypes DEF Inv
<1>2. t.loaded /\ t'.loaded
    BY Zenon, <1>1 DEF UserOK, AttachedOK, Answered, Shown
<1>3. CASE ~ok
  <2>1. t' = t /\ sessions' = sessions
    BY Zenon, <1>3 DEF Answered, Shown
  <2> QED
    BY <2>1, <1>1 DEF UserOK, AttachedOK, Attached, Cached, Course
<1>4. CASE ok
  <2>1. s \in [grp : Nat, chn : Nat] /\ z \in [grp : Nat, chn : Nat]
    BY Zenon DEF Inv, TypeOK, Answered, Shown, AttachedSessions
  <2>2. (s # NoSess <=> s.grp + s.chn > 0) /\ (z # NoSess <=> z.grp + z.chn > 0)
    BY Zenon, <2>1, SomeSession
  <2>3. /\ s # NoSess => /\ p.online >= s.grp + s.chn
                         /\ "slipped" \notin upset => "J" \in p.want \cap p.given
        /\ s.chn > 0 => p.isChan
    BY Zenon, <1>1 DEF UserOK, AttachedOK, Attached, Effective
  <2>4. /\ p.online \in Nat /\ p.given \subseteq given /\ (asChan => p.isChan)
        /\ p.isChan /\ "J" \notin want => changed
    BY Zenon DEF Answered, Decided, Cache
  <2>5. "slipped" \notin upset' =>
            "slipped" \notin upset /\ ~(joining /\ ~changed /\ "J" \notin want)
    BY Zenon, <1>4 DEF Answered, Told, Changed
  <2>6. /\ u \in DOMAIN t'.perUser <=> (p.isChan => "J" \in want)
        /\ u \in DOMAIN t'.perUser =>
              /\ t'.perUser[u].want = want /\ t'.perUser[u].given = given
              /\ t'.perUser[u].isChan <=> p.isChan
    BY Zenon, <1>4 DEF Answered, Shown
  <2>7. PICK joined \in BOOLEAN :
          /\ joined => /\ joining
                       /\ changed => "J" \in want \cap given
                       /\ "J" \in want => "J" \in given
          /\ u \in DOMAIN t'.perUser =>
                t'.perUser[u].online = (IF "J" \in want THEN p.online ELSE 0)
                                       + (IF joined THEN 1 ELSE 0)
          /\ z.grp = (IF "J" \in want THEN s.grp ELSE 0) + (IF joined /\ ~asChan THEN 1 ELSE 0)
          /\ z.chn = (IF "J" \in want THEN s.chn ELSE 0) + (IF joined /\ asChan THEN 1 ELSE 0)
    <3>1. NoSess.grp = 0 /\ NoSess.chn = 0
      BY Zenon DEF NoSess
    <3> QED
      BY Zenon, <3>1, <1>4 DEF Answered, Shown, Changed
  <2> HIDE DEF p, want, given, s, z
  <2>8. CASE "J" \in want
    <3>1. u \in DOMAIN t'.perUser
      BY <2>6, <2>8
    <3>2. p.online >= s.grp + s.chn
      BY <2>1, <2>2, <2>3, <2>4
    <3>3. t'.perUser[u].online >= z.grp + z.chn
      BY <3>1, <3>2, <2>1, <2>4, <2>7, <2>8
    <3>4. z # NoSess => s # NoSess \/ joined
      BY <2>1, <2>2, <2>7, <2>8
    <3>5. z # NoSess /\ "slipped" \notin upset' => "J" \in given
      BY <3>4, <2>3, <2>4, <2>5, <2>7, <2>8
    <3>6. z.chn > 0 => p.isChan
      BY <2>1, <2>3, <2>4, <2>7, <2>8
    <3> QED
      BY Zenon, <3>1, <3>3, <3>5, <3>6, <2>6, <2>8, <1>2
         DEF AttachedOK, Attached, Cached, Effective, z
  <2>9. CASE "J" \notin want
    <3>1. joined => ~changed /\ joining /\ ~p.isChan
      BY <2>4, <2>7, <2>9
    <3>2. joined => u \in DOMAIN t'.perUser /\ t'.perUser[u].online = 1
      BY <3>1, <2>6, <2>7, <2>9
    <3>3. z.chn = 0 /\ (z # NoSess => joined /\ z.grp = 1)
      BY <3>1, <2>1, <2>2, <2>4, <2>7, <2>9
    <3>4. z # NoSess => t'.perUser[u].online >= z.grp + z.chn
      BY <3>2, <3>3
    <3>5. ~(z.chn > 0)
      BY <3>3
    <3>6. z # NoSess => "slipped" \in upset'
      BY Zenon, <3>1, <3>3, <2>5, <2>9
    <3> QED
      BY Zenon, <3>2, <3>3, <3>4, <3>5, <3>6, <2>6, <2>9, <1>2
         DEF AttachedOK, Attached, Cached, z
  <2> QED
    BY Zenon, <2>8, <2>9
<1> QED
    BY <1>3, <1>4

\* Who owns the topic before the request, as long as it is calm.
LEMMA CalmOwner ==
    ASSUME Inv, NEW u \in Users, NEW mode \in Wants, Cached(u), Calm, Decided(u, mode)
    PROVE  LET p == t.perUser[u] IN
           /\ t.owner \in Users /\ t.owner # NoOne /\ t.owner \in Owners /\ Subscriber(t.owner)
           /\ subs[t.owner].state = "live" /\ "O" \in t.perUser[t.owner].want
           /\ p.isChan => /\ GivenAfter(p, mode) = p.given /\ p.given = ModeCChnReader
                          /\ ~OwnerChange(p, mode) /\ subs[u].state # "live"
           /\ ~p.isChan => subs[u].state = "live" /\ p.given = subs[u].given
           /\ OwnerChange(p, mode) => t.owner # u
<1> DEFINE o == t.owner
           p == t.perUser[u]
<1>1. t.loaded /\ OwnerOK /\ UserOK(u)
    BY Zenon DEF Inv, UserOK, AttachedOK
<1>2. o \in Owners
    BY <1>1 DEF OwnerOK
<1>3. o \in Users /\ o # NoOne /\ subs[o].state = "live" /\ "O" \in subs[o].want
    BY Zenon, <1>2, UsersAssumption DEF Owners, Effective
<1>4. Subscriber(o) /\ "O" \in t.perUser[o].want
    BY Zenon, <1>1, <1>3 DEF Inv, UserOK, MirrorOK
<1>5. /\ p.isChan => p.given = ModeCChnReader /\ subs[u].state # "live"
      /\ ~p.isChan => subs[u].state = "live" /\ p.given = subs[u].given
    BY <1>1 DEF UserOK, MirrorOK, Subscriber
<1>6. ~IsAdmin(ModeCChnReader) /\ "O" \notin ModeCChnReader
    BY Zenon, ModesAssumption DEF IsAdmin
<1>7. OwnerChange(p, mode) => "O" \in p.given /\ "O" \notin p.want
    BY DEF Decided
<1> QED
    BY Zenon, <1>2, <1>3, <1>4, <1>5, <1>6, <1>7 DEF Decided

LEMMA AnsweredCalmOther ==
    ASSUME Inv, NEW u \in Users, NEW asChan \in BOOLEAN, NEW mode \in Wants,
           NEW joining \in BOOLEAN, NEW ok \in BOOLEAN, Cached(u),
           Answered(u, asChan, mode, joining, ok), NEW x \in Users \ {u}, Calm'
    PROVE  MirrorOK(x)' /\ BanOK(x)'
<1> DEFINE takes == OwnerChange(t.perUser[u], mode)
           gone == Stripped(OldOwner)
<1>1. UserOK(x) /\ Calm /\ ok /\ Course /\ unseen' = unseen
    BY Zenon, AnsweredTypes DEF Inv, Answered, Told
<1>2. (x \in banned' => x \in banned) /\ (x \in selfBanned' => x \in selfBanned)
    BY Zenon DEF Answered, Told, Bans
<1>3. /\ subs'[x].state = subs[x].state
      /\ ~takes \/ t.owner \notin {x, NoOne} => subs'[x] = subs[x]
      /\ takes /\ t.owner = x /\ subs[x].state # "none" =>
            subs'[x].want = gone.want /\ subs'[x].given = gone.given
    BY Zenon, <1>1 DEF Answered, Rewritten
<1>4. /\ ~(takes /\ x = t.owner) =>
            /\ x \in DOMAIN t'.perUser <=> x \in DOMAIN t.perUser
            /\ x \in DOMAIN t.perUser => t'.perUser[x] = t.perUser[x]
      /\ takes /\ x = t.owner => x \in DOMAIN t'.perUser /\ t'.perUser[x] = gone
  <2>1. ~(takes /\ x = t.owner) =>
            /\ x \in DOMAIN t'.perUser <=> x \in DOMAIN t.perUser
            /\ x \in DOMAIN t.perUser => t'.perUser[x] = t.perUser[x]
    BY Zenon, <1>1 DEF Answered, Shown
  <2>2. takes /\ t.owner # u => t.owner \in DOMAIN t'.perUser /\ t'.perUser[t.owner] = gone
    BY Zenon, <1>1 DEF Answered, Shown
  <2> QED
    BY Zenon, <2>1, <2>2
<1>5. t.owner # NoOne /\ Subscriber(t.owner) /\ subs[t.owner].state = "live" /\ t.loaded
    BY Zenon, <1>1, CalmOwner DEF Answered, Inv, UserOK, AttachedOK
<1> HIDE DEF takes
<1>6. CASE takes /\ x = t.owner
  <2>1. /\ gone.want = t.perUser[x].want \ {"O"} /\ gone.given = t.perUser[x].given \ {"O"}
        /\ ~gone.isChan
    BY <1>5, <1>6, OldOwnerFacts DEF Subscriber
  <2>2. /\ subs'[x].state = "live" /\ subs'[x].want = gone.want /\ subs'[x].given = gone.given
        /\ x \in DOMAIN t'.perUser /\ t'.perUser[x] = gone
    BY <1>3, <1>4, <1>5, <1>6
  <2>3. MirrorOK(x)'
    BY <2>1, <2>2 DEF MirrorOK, Subscriber, Cached
  <2>4. t.perUser[x].given = subs[x].given
    BY <1>1, <1>5, <1>6 DEF UserOK, MirrorOK
  <2>5. BanOK(x)'
    BY Zenon, <2>1, <2>2, <2>4, <1>1, <1>2, <1>5, <1>6 DEF UserOK, BanOK, Subscriber, Cached
  <2> QED
    BY <2>3, <2>5
<1>7. CASE ~(takes /\ x = t.owner)
  <2>1. subs'[x] = subs[x]
    BY Zenon, <1>3, <1>5, <1>7
  <2> QED
    BY Zenon, <2>1, <1>1, <1>2, <1>4, <1>7
       DEF UserOK, MirrorOK, BanOK, Subscriber, Cached, Course
<1> QED
    BY <1>6, <1>7

LEMMA AnsweredCalm ==
    ASSUME Inv, NEW u \in Users, NEW asChan \in BOOLEAN, NEW mode \in Wants,
           NEW joining \in BOOLEAN, NEW ok \in BOOLEAN, Cached(u),
           Answered(u, asChan, mode, joining, ok), Calm'
    PROVE  MirrorOK(u)' /\ BanOK(u)'
<1> DEFINE p == t.perUser[u]
           want == WantAfter(p, mode)
           given == GivenAfter(p, mode)
<1>1. UserOK(u) /\ Calm /\ ok /\ unseen' = unseen /\ Decided(u, mode)
    BY Zenon DEF Inv, Answered, Told
<1>2. t.loaded
    BY Zenon, <1>1 DEF UserOK, AttachedOK
<1>3. /\ banned' = IF IsAdmin(p.given) /\ "J" \in given THEN banned \ {u} ELSE banned
      /\ selfBanned' = Bans(selfBanned, u, want, ~p.isChan /\ u \notin unseen)
    BY Zenon DEF Answered, Told
<1>4. /\ subs'[u].state = subs[u].state
      /\ subs[u].state = "none" => subs'[u] = subs[u]
      /\ want = p.want => subs'[u].want = subs[u].want
      /\ given = p.given => subs'[u].given = subs[u].given
      /\ subs[u].state # "none" /\ want # p.want => subs'[u].want = want
      /\ subs[u].state # "none" /\ given # p.given => subs'[u].given = given
  <2>1. ~OwnerChange(p, mode) \/ t.owner \notin {u, NoOne}
    BY Zenon, <1>1, CalmOwner
  <2> QED
    BY Zenon, <1>1, <2>1 DEF Answered, Rewritten
<1>5. /\ u \in DOMAIN t'.perUser <=> (p.isChan => "J" \in want)
      /\ u \in DOMAIN t'.perUser =>
            /\ t'.perUser[u].want = want /\ t'.perUser[u].given = given
            /\ t'.perUser[u].isChan <=> p.isChan
    BY Zenon, <1>1 DEF Answered, Shown
<1>6. (~IsAdmin(p.given) => given = p.given) /\ p.given \subseteq given /\ p.isChan \in BOOLEAN
    BY Zenon, <1>1 DEF Decided, Cache
<1>7. CASE p.isChan
  <2>1. subs[u].state # "live" /\ given = p.given /\ p.given = ModeCChnReader
    BY <1>1, <1>7, CalmOwner
  <2> HIDE DEF p, want, given
  <2>2. ~Subscriber(u)'
    BY Zenon, <1>5, <1>7 DEF Subscriber, Cached
  <2>3. MirrorOK(u)'
    BY Zenon, <2>1, <2>2, <1>4, <1>5 DEF MirrorOK, Cached
  <2>4. subs'[u].given = subs[u].given
    BY <2>1, <1>4
  <2>5. u \in banned' => u \in banned
    BY <1>3
  <2>6. u \in selfBanned' => u \in selfBanned /\ "J" \notin want
    BY Zenon, <1>3, <1>7 DEF Bans
  <2>7. u \in selfBanned' => "J" \notin subs'[u].want
    BY <2>6, <1>1, <1>4 DEF UserOK, BanOK
  <2> QED
    BY Zenon, <2>2, <2>3, <2>4, <2>5, <2>6, <2>7, <1>1, <1>4 DEF UserOK, BanOK
<1>8. CASE ~p.isChan
  <2>1. /\ subs[u].state = "live" /\ p.given = subs[u].given
        /\ "O" \in p.want <=> "O" \in subs[u].want
        /\ u \notin unseen => p.want = subs[u].want
    BY Zenon, <1>1, <1>2, <1>8 DEF UserOK, MirrorOK, Subscriber
  <2>2. /\ u \in banned => "J" \notin subs[u].given
        /\ u \in selfBanned => "J" \notin subs[u].want
    BY Zenon, <1>1 DEF UserOK, BanOK
  <2> HIDE DEF p, want, given
  <2>3. /\ u \in DOMAIN t'.perUser /\ ~t'.perUser[u].isChan
        /\ t'.perUser[u].want = want /\ t'.perUser[u].given = given
    BY <1>5, <1>8
  <2>4. /\ subs'[u].given = given
        /\ subs'[u].want = want \/ (want = p.want /\ subs'[u].want = subs[u].want)
    BY Zenon, <2>1, <1>4
  <2>5. MirrorOK(u)'
    BY Zenon, <2>1, <2>3, <2>4, <1>1, <1>4 DEF MirrorOK, Subscriber, Cached
  <2>6. u \in banned' => "J" \notin given
    BY <2>1, <2>2, <1>3, <1>6
  <2>7. u \in selfBanned' => "J" \notin want /\ (u \in selfBanned \/ u \notin unseen)
    BY <1>3 DEF Bans
  <2>8. u \in selfBanned' => "J" \notin subs'[u].want
    BY Zenon, <2>1, <2>2, <2>4, <2>7
  <2>9. BanOK(u)'
    BY <2>1, <2>3, <2>4, <2>6, <2>7, <2>8, <1>4 DEF BanOK
  <2> QED
    BY Zenon, <2>5, <2>9
<1> QED
    BY Zenon, <1>6, <1>7, <1>8

LEMMA AnsweredOwner ==
    ASSUME Inv, NEW u \in Users, NEW asChan \in BOOLEAN, NEW mode \in Wants,
           NEW joining \in BOOLEAN, NEW ok \in BOOLEAN, Cached(u),
           Answered(u, asChan, mode, joining, ok)
    PROVE  OwnerOK'
<1> DEFINE p == t.perUser[u]
           want == WantAfter(p, mode)
           given == GivenAfter(p, mode)
           takes == OwnerChange(p, mode)
<1>1. /\ Calm' => Calm /\ ok
      /\ Calm' /\ "shared" \notin upset' => "shared" \notin upset /\ ~Shared'
    BY DEF Answered, Told
<1>2. CASE ~Calm'
    BY <1>2 DEF OwnerOK
<1>3. CASE Calm'
  <2>1. /\ Calm /\ ok /\ Decided(u, mode) /\ OwnerOK /\ UserOK(u)
    BY Zenon, <1>1, <1>3 DEF Answered, Inv
  <2>2. t.loaded
    BY Zenon, <2>1 DEF UserOK, AttachedOK
  <2>3. /\ t'.owner = (IF takes THEN u ELSE t.owner)
        /\ row'.owner = (IF takes THEN u ELSE row.owner)
    BY Zenon, <2>1 DEF Answered, Shown, Rewritten
  <2>4. /\ subs'[u].state = subs[u].state
        /\ want = p.want => subs'[u].want = subs[u].want
        /\ given = p.given => subs'[u].given = subs[u].given
        /\ subs[u].state # "none" /\ want # p.want => subs'[u].want = want
        /\ subs[u].state # "none" /\ given # p.given => subs'[u].given = given
    <3>1. ~takes \/ t.owner \notin {u, NoOne}
      BY Zenon, <2>1, CalmOwner
    <3> QED
      BY Zenon, <2>1, <3>1 DEF Answered, Rewritten
  <2>5. /\ p.given \subseteq given
        /\ takes => "O" \in want /\ "O" \in p.given /\ want # p.want
        /\ t.owner = u /\ "O" \in p.want \cap p.given => "O" \in want
    BY Zenon, <2>1 DEF Decided
  <2>6. /\ ~p.isChan => subs[u].state = "live" /\ p.given = subs[u].given
        /\ p.isChan => ~takes
        /\ t.owner \in Users /\ t.owner \in Owners /\ subs[t.owner].state = "live"
        /\ Subscriber(t.owner) /\ "O" \in t.perUser[t.owner].want
    BY Zenon, <2>1, CalmOwner
  <2>7. p.isChan \in BOOLEAN
    BY <2>1 DEF Decided, Cache
  <2>8. CASE takes
    <3> HIDE DEF p, want, given, takes
    <3>1. "O" \in subs'[u].want /\ "O" \in subs'[u].given /\ subs'[u].state = "live"
      BY <2>4, <2>5, <2>6, <2>7, <2>8
    <3>2. u \in Owners'
      BY Zenon, <3>1 DEF Owners, Effective
    <3> QED
      BY Zenon, <3>2, <2>3, <2>8, <1>1, OwnerOKStep
  <2>9. CASE ~takes
    <3>1. t.owner \in Owners'
      <4>1. CASE t.owner = u
        <5>1. ~p.isChan /\ "O" \in p.want /\ "O" \in subs[u].want /\ "O" \in subs[u].given
          BY <4>1, <2>6 DEF Subscriber, Owners, Effective
        <5> HIDE DEF p, want, given, takes
        <5>2. "O" \in want /\ "O" \in given
          BY Zenon, <4>1, <5>1, <2>5, <2>6
        <5>3. "O" \in subs'[u].want /\ "O" \in subs'[u].given /\ subs'[u].state = "live"
          BY Zenon, <5>1, <5>2, <2>4, <2>6
        <5> QED
          BY Zenon, <4>1, <5>3 DEF Owners, Effective
      <4>2. CASE t.owner # u
        <5>1. subs'[t.owner] = subs[t.owner]
          BY Zenon, <4>2, <2>1, <2>6, <2>9 DEF Answered, Rewritten
        <5> QED
          BY Zenon, <5>1, <2>6 DEF Owners, Effective
      <4> QED
        BY <4>1, <4>2
    <3> HIDE DEF takes
    <3> QED
      BY Zenon, <3>1, <2>1, <2>2, <2>3, <2>9, <1>1, OwnerStays
  <2> QED
    BY <2>8, <2>9
<1> QED
    BY Zenon, <1>2, <1>3

LEMMA ExistingSubStep ==
    ASSUME Inv, NEW u \in Users, NEW asChan \in BOOLEAN, NEW mode \in Wants,
           NEW joining \in BOOLEAN, Cached(u), ExistingSub(u, asChan, mode, joining)
    PROVE  Inv'
<1>1. PICK ok \in BOOLEAN : Answered(u, asChan, mode, joining, ok)
    BY AnsweredFacts
<1>2. TypeOK' /\ OwnerOK'
    BY <1>1, AnsweredTypes, AnsweredOwner
<1>3. ASSUME NEW x \in Users PROVE UserOK(x)'
  <2>1. GivenOK(x)'
    BY <1>1, AnsweredGiven
  <2>2. AttachedOK(x)'
    BY <1>1, AnsweredAttached, AnsweredAttachedOther
  <2>3. MirrorOK(x)' /\ BanOK(x)'
    <3>1. CASE Calm'
      BY <1>1, <3>1, AnsweredCalm, AnsweredCalmOther
    <3>2. CASE ~Calm'
      BY <3>2 DEF MirrorOK, BanOK
    <3> QED
      BY <3>1, <3>2
  <2> QED
    BY <2>1, <2>2, <2>3 DEF UserOK
<1> QED
    BY <1>2, <1>3 DEF Inv

-----------------------------------------------------------------------------
(* Every step keeps the invariant, and what follows from it. *)
LEMMA OwnRequestStep ==
    ASSUME Inv, NEW u \in Users, NEW mode \in Wants,
           SetSelf(u, mode) \/ \E asChan \in BOOLEAN : Rejoin(u, asChan, mode)
    PROVE  Inv'
<1>1. CASE SetSelf(u, mode)
  <2> DEFINE no == FALSE
  <2>1. ExistingSub(u, no, mode, no) /\ Attached(u) /\ no \in BOOLEAN
    BY Zenon, <1>1 DEF SetSelf
  <2>2. Cached(u)
    BY <2>1 DEF Inv, UserOK, AttachedOK
  <2> HIDE DEF no
  <2> QED
    BY <2>1, <2>2, ExistingSubStep
<1>2. CASE \E asChan \in BOOLEAN : Rejoin(u, asChan, mode)
  <2> DEFINE yes == TRUE
  <2>1. PICK asChan \in BOOLEAN : Rejoin(u, asChan, mode)
    BY <1>2
  <2>2. ExistingSub(u, asChan, mode, yes) /\ Cached(u) /\ yes \in BOOLEAN
    BY Zenon, <2>1 DEF Rejoin
  <2> HIDE DEF yes
  <2> QED
    BY <2>2, ExistingSubStep
<1> QED
    BY <1>1, <1>2

LEMMA NextStep == ASSUME Inv, [Next]_vars PROVE Inv'
<1>1. CASE UNCHANGED vars
  <2>1. /\ t' = t /\ sessions' = sessions /\ subs' = subs /\ chnSubs' = chnSubs
        /\ row' = row /\ pending' = pending /\ offered' = offered /\ banned' = banned
        /\ selfBanned' = selfBanned /\ unseen' = unseen /\ upset' = upset
        /\ faults' = faults
    BY <1>1 DEF vars
  <2>2. TypeOK'
    BY Zenon, <2>1 DEF Inv, TypeOK
  <2>3. ASSUME NEW u \in Users PROVE UserOK(u)'
    BY Zenon, <2>1
       DEF Inv, UserOK, GivenOK, AttachedOK, MirrorOK, BanOK, Calm, Attached, Cached,
                Subscriber
  <2>4. OwnerOK'
    BY <2>1 DEF Inv, OwnerOK, Calm, Owners, Shared
  <2> QED
    BY <2>2, <2>3, <2>4 DEF Inv
<1>2. CASE Load \/ Unload
    BY <1>2, LoadStep, UnloadStep
<1>3. CASE \E u \in Users, m \in Wants :
              \/ NewSubscriber(u, m) \/ NewReader(u, m) \/ SetSelf(u, m)
              \/ \E c \in BOOLEAN : Rejoin(u, c, m) \/ OfflineGet(u, c, m)
    BY <1>3, NewSubscriberStep, NewReaderStep, OwnRequestStep, OfflineGetStep
<1>4. CASE \E h, u \in Users :
              \/ DelSub(h, u) \/ Reinvite(h, u)
              \/ \E m \in Grants : Invite(h, u, m) \/ Grant(h, u, m)
    BY <1>4, DelSubStep, ReinviteStep, InviteStep, GrantStep
<1>5. CASE \E u \in Users : \/ LeaveUnsub(u) \/ OfflinePut(u)
                            \/ \E s, c \in BOOLEAN : Leave(u, s, c)
    BY <1>5, LeaveUnsubStep, OfflinePutStep, LeaveStep
<1> QED
    BY <1>1, <1>2, <1>3, <1>4, <1>5 DEF Next

\* The inductive invariant: types; for every user, what is known of the given and the
\* wanted permissions, the cached entry, the sessions and the bans; and who owns the topic.
THEOREM Invariant == Spec => []Inv
<1>1. Init => Inv
    BY InitInv
<1>2. Inv /\ [Next]_vars => Inv'
    BY NextStep
<1> QED
    BY <1>1, <1>2, PTL DEF Spec

\* The topic row, the table of subscriptions and the loaded topic agree on one owner
\* through transfers, departures, bans and reloads, for any number of users.
THEOREM OwnersAgreeCorrect == Spec => []OwnersAgree
<1>1. Inv => OwnersAgree
    BY DEF Inv, OwnerOK, OwnersAgree, Shared
<1> QED
    BY <1>1, Invariant, PTL

\* Whatever database calls fail, O is in the given permissions of nobody whom an owner
\* did not give it to, neither in the table nor in the loaded topic.
THEOREM GivenByOwnerCorrect == Spec => []GivenByOwner
<1>1. Inv => GivenByOwner
    BY DEF Inv, UserOK, GivenOK, GivenByOwner, Cached
<1> QED
    BY <1>1, Invariant, PTL

\* A ban survives unsubscribing, subscribing again, requests of the user's own and
\* reloads; and a user who banned the topic is not brought back by others.
THEOREM BansKeptCorrect == Spec => []BansKept
<1>1. Inv => BansKept
    BY DEF Inv, TypeOK, UserOK, BanOK, BansKept
<1> QED
    BY <1>1, Invariant, PTL

\* Whoever has a session in the topic is cached, counted online for each of them and,
\* unless somebody slipped in, allowed to join.
THEOREM AttachedAllowedCorrect == Spec => []AttachedAllowed
<1>1. Inv => AttachedAllowed
    BY DEF Inv, UserOK, AttachedOK, AttachedAllowed
<1> QED
    BY <1>1, Invariant, PTL

\* What is cached of the subscribers is what is stored, so that unloading the topic and
\* loading it again changes nothing.
THEOREM MirrorsStoreCorrect == Spec => []MirrorsStore
<1>1. Inv => MirrorsStore
    BY DEF Inv, UserOK, MirrorOK, MirrorsStore
<1> QED
    BY <1>1, Invariant, PTL
=============================================================================
