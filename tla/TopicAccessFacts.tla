------------------------- MODULE TopicAccessFacts -------------------------
(***************************************************************************)
(* The inductive invariant of access to a topic, what the operators of the *)
(* handlers return and preserve, and that the invariant holds at the start *)
(* and through the steps that load, unload and leave a topic.              *)
(***************************************************************************)
EXTENDS TopicAccess, TLAPS

\* The provers of a leaf that names none.
USE SMTT(20), ZenonT(20)

-----------------------------------------------------------------------------
(* Types. *)
Cache == [want : Mode, given : Mode, isChan : BOOLEAN, online : Nat]
Caches == UNION {[D -> Cache] : D \in SUBSET (Users \cup {NoOne})}
Topics == [loaded : BOOLEAN, owner : Users \cup {NoOne}, perUser : Caches]
AttachedSessions == [Users -> [grp : Nat, chn : Nat]]
Subscription == [state : {"none", "live", "deleted"}, want : Mode, given : Mode]
Request == [asChan : BOOLEAN, mode : Mode]

TypeOK ==
    /\ t \in Topics /\ sessions \in AttachedSessions
    /\ subs \in [Users -> Subscription] /\ chnSubs \in [Users -> Subscription]
    /\ row \in [owner : Users, usebt : BOOLEAN]
    /\ pending \in [Users -> {NoOne} \cup Request]
    /\ banned \subseteq Users /\ selfBanned \subseteq Users
    /\ faults \in Nat

\* What is known of a user, whatever fails.
GivenOK(u) ==
    /\ "O" \in subs[u].given => u \in offered
    /\ Cached(u) /\ "O" \in t.perUser[u].given => u \in offered
    /\ subs[u].state = "none" => subs[u].given = {}
    /\ pending[u] # NoOne /\ ~pending[u].asChan => subs[u].state # "none"

AttachedOK(u) ==
    /\ Attached(u) =>
          /\ Cached(u)
          /\ t.perUser[u].online >= sessions[u].grp + sessions[u].chn
          /\ "slipped" \notin upset => "J" \in Effective(t.perUser[u])
    /\ sessions[u].chn > 0 => t.perUser[u].isChan
    /\ Cached(u) => t.loaded
    /\ Cached(u) /\ t.perUser[u].isChan => "J" \in t.perUser[u].want

\* What is known of a user as long as it is calm.
MirrorOK(u) ==
    Calm /\ t.loaded =>
        /\ Subscriber(u) <=> subs[u].state = "live"
        /\ Subscriber(u) => /\ t.perUser[u].given = subs[u].given
                            /\ "O" \in t.perUser[u].want <=> "O" \in subs[u].want
                            /\ u \notin unseen => t.perUser[u].want = subs[u].want
        /\ Cached(u) /\ t.perUser[u].isChan => t.perUser[u].given = ModeCChnReader

BanOK(u) ==
    Calm =>
        /\ u \in banned => subs[u].state # "none" /\ "J" \notin subs[u].given
        /\ u \in selfBanned => /\ subs[u].state # "none" /\ "J" \notin subs[u].want
                               /\ Subscriber(u) => "J" \notin t.perUser[u].want

UserOK(u) == GivenOK(u) /\ AttachedOK(u) /\ MirrorOK(u) /\ BanOK(u)

OwnerOK ==
    Calm => /\ Owners # {}
            /\ t.loaded => t.owner \in Owners
            /\ "shared" \notin upset => row.owner \in Owners /\ ~Shared

Inv == TypeOK /\ (\A u \in Users : UserOK(u)) /\ OwnerOK

-----------------------------------------------------------------------------
(* The maps of cached users. *)
LEMMA CachesFacts ==
    ASSUME NEW f
    PROVE  f \in Caches <=> f \in [DOMAIN f -> Cache] /\ DOMAIN f \subseteq Users \cup {NoOne}
    BY DEF Caches

LEMMA NoneCached == <<>> \in Caches
<1>1. <<>> = [x \in {} |-> x]
    OBVIOUS
<1>2. [x \in {} |-> x] \in [{} -> Cache]
    OBVIOUS
<1> QED
    BY <1>1, <1>2 DEF Caches

LEMMA PutFacts ==
    ASSUME NEW f \in Caches, NEW u \in Users \cup {NoOne}, NEW p \in Cache
    PROVE  /\ Put(f, u, p) \in Caches
           /\ DOMAIN Put(f, u, p) = DOMAIN f \cup {u}
           /\ Put(f, u, p)[u] = p
           /\ \A x \in DOMAIN f : x # u => Put(f, u, p)[x] = f[x]
<1>1. f \in [DOMAIN f -> Cache] /\ DOMAIN f \subseteq Users \cup {NoOne}
    BY CachesFacts
<1>2. Put(f, u, p) \in [DOMAIN f \cup {u} -> Cache]
    BY <1>1 DEF Put
<1>3. Put(f, u, p) \in Caches
    BY <1>1, <1>2, CachesFacts
<1> QED
    BY <1>3 DEF Put

LEMMA WithoutFacts ==
    ASSUME NEW f, NEW u
    PROVE  /\ DOMAIN Without(f, u) = DOMAIN f \ {u}
           /\ \A x \in DOMAIN f \ {u} : Without(f, u)[x] = f[x]
           /\ f \in Caches => Without(f, u) \in Caches
<1>1. DOMAIN Without(f, u) = DOMAIN f \ {u}
    BY DEF Without
<1>2. \A x \in DOMAIN f \ {u} : Without(f, u)[x] = f[x]
    BY DEF Without
<1>3. ASSUME f \in Caches PROVE Without(f, u) \in Caches
  <2>1. f \in [DOMAIN f -> Cache] /\ DOMAIN f \subseteq Users \cup {NoOne}
    BY <1>3, CachesFacts
  <2>2. Without(f, u) \in [DOMAIN f \ {u} -> Cache]
    BY <2>1 DEF Without
  <2> QED
    BY <2>1, <2>2, <1>1, CachesFacts
<1> QED
    BY <1>1, <1>2, <1>3

(* Evicting a user: away with the entry, or nobody online. *)
LEMMA EvictedFacts ==
    ASSUME NEW f \in Caches, NEW u \in Users, NEW unsub \in BOOLEAN
    PROVE  /\ Evicted(f, u, unsub) \in Caches
           /\ u \in DOMAIN Evicted(f, u, unsub) <=> u \in DOMAIN f /\ ~unsub /\ ~f[u].isChan
           /\ u \in DOMAIN Evicted(f, u, unsub) =>
                 Evicted(f, u, unsub)[u] = [f[u] EXCEPT !.online = 0]
           /\ \A x : x # u =>
                 /\ x \in DOMAIN Evicted(f, u, unsub) <=> x \in DOMAIN f
                 /\ x \in DOMAIN f => Evicted(f, u, unsub)[x] = f[x]
<1>1. f \in [DOMAIN f -> Cache] /\ DOMAIN f \subseteq Users \cup {NoOne}
    BY CachesFacts
<1>2. CASE u \notin DOMAIN f
    BY <1>2 DEF Evicted
<1>3. CASE u \in DOMAIN f /\ (unsub \/ f[u].isChan)
  <2>1. Evicted(f, u, unsub) = Without(f, u)
    BY <1>3 DEF Evicted
  <2>2. /\ Without(f, u) \in Caches
        /\ DOMAIN Without(f, u) = DOMAIN f \ {u}
        /\ \A x \in DOMAIN f \ {u} : Without(f, u)[x] = f[x]
    BY Zenon, WithoutFacts
  <2> QED
    BY <2>1, <2>2, <1>3
<1>4. CASE u \in DOMAIN f /\ ~(unsub \/ f[u].isChan)
  <2>1. Evicted(f, u, unsub) = [f EXCEPT ![u] = [f[u] EXCEPT !.online = 0]]
    BY <1>4 DEF Evicted
  <2>2. [f[u] EXCEPT !.online = 0] \in Cache
    BY <1>1, <1>4 DEF Cache
  <2>3. Evicted(f, u, unsub) \in [DOMAIN f -> Cache]
    BY Zenon, <2>1, <2>2, <1>1
  <2>4. Evicted(f, u, unsub) \in Caches
    BY <2>3, <1>1, CachesFacts
  <2> QED
    BY <2>1, <2>4, <1>4, <1>1
<1> QED
    BY <1>2, <1>3, <1>4

-----------------------------------------------------------------------------
(* The steps that do not concern a user leave what is known of the user. *)
Course ==
    /\ t'.loaded = t.loaded
    /\ Calm' => Calm
    /\ "slipped" \in upset => "slipped" \in upset'

Keeps(x) ==
    /\ x \in DOMAIN t'.perUser <=> x \in DOMAIN t.perUser
    /\ x \in DOMAIN t.perUser => t'.perUser[x] = t.perUser[x]
    /\ sessions'[x] = sessions[x] /\ subs'[x] = subs[x] /\ pending'[x] = pending[x]
    /\ x \in offered => x \in offered'
    /\ x \in unseen => x \in unseen'
    /\ Calm' => (x \in banned' => x \in banned) /\ (x \in selfBanned' => x \in selfBanned)

LEMMA KeepsOK ==
    ASSUME NEW x \in Users, UserOK(x), Course, Keeps(x)
    PROVE  UserOK(x)'
<1>1. GivenOK(x)'
    BY DEF UserOK, GivenOK, Keeps, Cached
<1>2. AttachedOK(x)'
    BY DEF UserOK, AttachedOK, Keeps, Course, Cached, Attached, Effective, NoSess
<1>3. MirrorOK(x)'
    BY DEF UserOK, MirrorOK, Keeps, Course, Cached, Subscriber
<1>4. BanOK(x)'
    BY DEF UserOK, BanOK, Keeps, Course, Cached, Subscriber
<1> QED
    BY <1>1, <1>2, <1>3, <1>4 DEF UserOK

(* The histories. *)
LEMMA CallsFacts ==
    ASSUME faults \in Nat, NEW calls \in Nat, NEW done \in 0..calls, NEW ok \in BOOLEAN,
           Calls(calls, done, ok)
    PROVE  /\ faults' \in Nat
           /\ faults' = 0 => faults = 0 /\ ok
           /\ ok => done = calls
    BY DEF Calls

LEMMA UpsetFacts ==
    ASSUME faults \in Nat, faults' \in Nat, faults' = 0 => faults = 0,
           NEW torn \in BOOLEAN, NEW slipped \in BOOLEAN, Upset(torn, slipped)
    PROVE  /\ Calm' => Calm /\ ~torn
           /\ slipped \/ "slipped" \in upset => "slipped" \in upset'
           /\ Calm' /\ "shared" \notin upset' =>
                "shared" \notin upset /\ ~Shared'
<1>1. CASE faults' > 0
  <2>1. upset' = (upset \cup (IF slipped THEN {"slipped"} ELSE {})) \cap {"slipped"}
    BY <1>1 DEF Upset
  <2> QED
    BY <1>1, <2>1 DEF Calm
<1>2. CASE faults' = 0 /\ (torn \/ "torn" \in upset)
  <2>1. upset' = ((upset \cup (IF slipped THEN {"slipped"} ELSE {})) \ {"shared"}) \cup {"torn"}
    BY <1>2 DEF Upset
  <2> QED
    BY <1>2, <2>1 DEF Calm
<1>3. CASE faults' = 0 /\ ~(torn \/ "torn" \in upset)
  <2>1. upset' = upset \cup (IF slipped THEN {"slipped"} ELSE {})
                       \cup (IF Shared' THEN {"shared"} ELSE {})
    BY <1>3 DEF Upset
  <2> QED
    BY <1>3, <2>1 DEF Calm
<1> QED
    BY <1>1, <1>2, <1>3

LEMMA FollowedFacts ==
    ASSUME NEW a \in SUBSET Users, NEW b \in SUBSET Users, Followed(a, b)
    PROVE  /\ banned' \subseteq Users /\ selfBanned' \subseteq Users
           /\ Calm' => banned' = a /\ selfBanned' = b
    BY DEF Followed

History(ok, torn, slipped, a, b) ==
    /\ faults' \in Nat /\ banned' \subseteq Users /\ selfBanned' \subseteq Users
    /\ Calm' => Calm /\ ok /\ ~torn /\ banned' = a /\ selfBanned' = b
    /\ slipped \/ "slipped" \in upset => "slipped" \in upset'
    /\ Calm' /\ "shared" \notin upset' =>
          "shared" \notin upset /\ ~Shared'

LEMMA HistoryFacts ==
    ASSUME NEW ok \in BOOLEAN, NEW torn \in BOOLEAN, NEW slipped \in BOOLEAN,
           NEW a \in SUBSET Users, NEW b \in SUBSET Users,
           faults \in Nat, faults' \in Nat, faults' = 0 => faults = 0 /\ ok,
           Upset(torn, slipped), Followed(a, b)
    PROVE  History(ok, torn, slipped, a, b)
<1>1. Calm' => ok
    BY DEF Calm
<1> QED
    BY <1>1, UpsetFacts, FollowedFacts DEF History

-----------------------------------------------------------------------------
(* Owners. *)
\* A step of a handler after which the loaded topic has an owner who owns it.
LEMMA OwnerOKStep ==
    ASSUME Calm' => Calm,
           Calm' /\ "shared" \notin upset' => ~Shared',
           Calm' => t'.owner \in Owners',
           Calm' /\ "shared" \notin upset' => row'.owner \in Owners'
    PROVE  OwnerOK'
    BY DEF OwnerOK

\* If the owner in the loaded topic stays, so does the one in the row, unless it was shared.
LEMMA OwnerStays ==
    ASSUME OwnerOK, t.loaded, t'.owner = t.owner,
           Calm' => Calm /\ t.owner \in Owners' /\ row'.owner \in {row.owner} \cup Owners',
           Calm' /\ "shared" \notin upset' =>
               "shared" \notin upset /\ ~Shared'
    PROVE  OwnerOK'
<1>1. Calm /\ "shared" \notin upset => row.owner = t.owner
    BY DEF OwnerOK, Shared
<1> QED
    BY <1>1, OwnerOKStep

LEMMA OwnersSame ==
    ASSUME OwnerOK, t'.owner = t.owner, t'.loaded = t.loaded, row'.owner = row.owner,
           Calm' => Calm /\ Owners' = Owners,
           Calm' /\ "shared" \notin upset' => "shared" \notin upset
    PROVE  OwnerOK'
    BY DEF OwnerOK, Shared

-----------------------------------------------------------------------------
(* The end of a subscription request. *)
Settled(tt, u, p, joined, asChan) ==
    LET left == IF "J" \in p.want THEN sessions[u] ELSE NoSess
    IN  /\ t' \in Topics /\ t'.loaded = tt.loaded /\ t'.owner = tt.owner
        /\ sessions' \in AttachedSessions
        /\ \A x \in Users \ {u} : sessions'[x] = sessions[x]
        /\ \A x : x # u =>
              /\ x \in DOMAIN t'.perUser <=> x \in DOMAIN tt.perUser
              /\ x \in DOMAIN tt.perUser => t'.perUser[x] = tt.perUser[x]
        /\ u \in DOMAIN t'.perUser <=> (p.isChan => "J" \in p.want)
        /\ u \in DOMAIN t'.perUser =>
              /\ t'.perUser[u].want = p.want /\ t'.perUser[u].given = p.given
              /\ t'.perUser[u].isChan <=> p.isChan
              /\ t'.perUser[u].online = (IF "J" \in p.want THEN p.online ELSE 0)
                                        + (IF joined THEN 1 ELSE 0)
        /\ sessions'[u].grp = left.grp + (IF joined /\ ~asChan THEN 1 ELSE 0)
        /\ sessions'[u].chn = left.chn + (IF joined /\ asChan THEN 1 ELSE 0)

LEMMA SettleFacts ==
    ASSUME NEW tt \in Topics, NEW u \in Users, NEW p \in Cache, NEW changed \in BOOLEAN,
           NEW joining \in BOOLEAN, NEW asChan \in BOOLEAN, sessions \in AttachedSessions,
           Settle(tt, u, p, changed, joining, asChan),
           p.isChan /\ "J" \notin p.want => changed
    PROVE  Settled(tt, u, p, joining /\ Joined(p, changed), asChan)
<1> DEFINE joined == joining /\ Joined(p, changed)
           banSelf == "J" \notin p.want
           left == IF banSelf THEN NoSess ELSE sessions[u]
           put == Put(tt.perUser, u, p)
           perUser == IF banSelf THEN Evicted(put, u, FALSE) ELSE put
           data == IF u \in DOMAIN perUser THEN perUser[u] ELSE Entry({}, {}, FALSE)
           more == [data EXCEPT !.online = @ + 1]
           after == IF joined THEN Put(perUser, u, more) ELSE perUser
           stays == p.isChan => "J" \in p.want
<1>1. t' = [tt EXCEPT !.perUser = after]
    BY DEF Settle
<1>2. /\ put \in Caches /\ DOMAIN put = DOMAIN tt.perUser \cup {u} /\ put[u] = p
      /\ \A x \in DOMAIN tt.perUser : x # u => put[x] = tt.perUser[x]
  <2> DEFINE f == tt.perUser
  <2>1. f \in Caches /\ u \in Users \cup {NoOne}
    BY DEF Topics
  <2> HIDE DEF f
  <2>2. /\ Put(f, u, p) \in Caches /\ DOMAIN Put(f, u, p) = DOMAIN f \cup {u}
        /\ Put(f, u, p)[u] = p /\ \A x \in DOMAIN f : x # u => Put(f, u, p)[x] = f[x]
    BY <2>1, PutFacts
  <2> QED
    BY <2>2 DEF f
<1>3. /\ perUser \in Caches
      /\ u \in DOMAIN perUser <=> stays
      /\ stays => perUser[u] = [p EXCEPT !.online = IF banSelf THEN 0 ELSE p.online]
      /\ \A x : x # u => /\ x \in DOMAIN perUser <=> x \in DOMAIN tt.perUser
                         /\ x \in DOMAIN tt.perUser => perUser[x] = tt.perUser[x]
  <2> HIDE DEF put
  <2>1. CASE ~banSelf
    <3>1. [p EXCEPT !.online = p.online] = p
      BY DEF Cache
    <3> QED
      BY <2>1, <3>1, <1>2
  <2>2. CASE banSelf
    <3>1. perUser = Evicted(put, u, FALSE)
      BY <2>2
    <3> HIDE DEF perUser
    <3>2. /\ perUser \in Caches
          /\ u \in DOMAIN perUser <=> u \in DOMAIN put /\ ~put[u].isChan
          /\ u \in DOMAIN perUser => perUser[u] = [put[u] EXCEPT !.online = 0]
          /\ \A x : x # u => /\ x \in DOMAIN perUser <=> x \in DOMAIN put
                             /\ x \in DOMAIN put => perUser[x] = put[x]
      <4> DEFINE unsub == FALSE
      <4>1. unsub \in BOOLEAN /\ ~unsub /\ perUser = Evicted(put, u, unsub)
        BY <3>1
      <4> HIDE DEF unsub
      <4> QED
        BY <4>1, <1>2, EvictedFacts
    <3>3. (u \in DOMAIN perUser <=> stays) /\ (stays => perUser[u] = [p EXCEPT !.online = 0])
      BY <2>2, <3>2, <1>2
    <3> QED
      BY <2>2, <3>2, <3>3, <1>2
  <2> QED
    BY Zenon, <2>1, <2>2
<1>4. joined => stays
    BY DEF Joined, Effective
<1>5. stays => data = [p EXCEPT !.online = IF banSelf THEN 0 ELSE p.online]
    BY Zenon, <1>3
<1> HIDE DEF perUser
<1>6. stays => /\ data \in Cache /\ more \in Cache
               /\ data.want = p.want /\ data.given = p.given /\ data.isChan = p.isChan
               /\ data.online = (IF banSelf THEN 0 ELSE p.online)
               /\ more = [data EXCEPT !.online = data.online + 1]
               /\ more.online = data.online + 1
               /\ more.want = data.want /\ more.given = data.given
               /\ more.isChan = data.isChan
  <2> HIDE DEF data
  <2>1. stays => /\ data \in Cache /\ data.want = p.want /\ data.given = p.given
                 /\ data.isChan = p.isChan /\ data.online = (IF banSelf THEN 0 ELSE p.online)
    BY <1>5 DEF Cache
  <2> QED
    BY <2>1 DEF Cache
<1>7. /\ after \in Caches
      /\ u \in DOMAIN after <=> stays
      /\ stays => after[u] = IF joined THEN more ELSE data
      /\ \A x : x # u => /\ x \in DOMAIN after <=> x \in DOMAIN tt.perUser
                         /\ x \in DOMAIN tt.perUser => after[x] = tt.perUser[x]
  <2>1. CASE joined
    <3> HIDE DEF data, more, joined
    <3>1. /\ Put(perUser, u, more) \in Caches
          /\ DOMAIN Put(perUser, u, more) = DOMAIN perUser \cup {u}
          /\ Put(perUser, u, more)[u] = more
          /\ \A x \in DOMAIN perUser : x # u => Put(perUser, u, more)[x] = perUser[x]
      <4>1. perUser \in Caches /\ u \in Users \cup {NoOne} /\ more \in Cache
        BY <2>1, <1>3, <1>4, <1>6
      <4> QED
        BY <4>1, PutFacts
    <3> QED
      BY <2>1, <3>1, <1>3, <1>4
  <2>2. CASE ~joined
    <3>1. stays => data = perUser[u]
      BY Zenon, <1>3
    <3> HIDE DEF data, more, joined
    <3> QED
      BY <2>2, <3>1, <1>3
  <2> QED
    BY Zenon, <2>1, <2>2
<1> HIDE DEF after, data, more
<1>8. /\ t' \in Topics /\ t'.loaded = tt.loaded /\ t'.owner = tt.owner /\ t'.perUser = after
    BY <1>1, <1>7 DEF Topics
<1>9. left \in [grp : Nat, chn : Nat]
    BY DEF NoSess, AttachedSessions
<1>10. sessions' = [sessions EXCEPT ![u] =
                      CASE joined /\ asChan -> [left EXCEPT !.chn = left.chn + 1]
                        [] joined /\ ~asChan -> [left EXCEPT !.grp = left.grp + 1]
                        [] OTHER -> left]
    BY DEF Settle
<1>11. /\ sessions' \in AttachedSessions
       /\ \A x \in Users \ {u} : sessions'[x] = sessions[x]
       /\ sessions'[u].grp = left.grp + (IF joined /\ ~asChan THEN 1 ELSE 0)
       /\ sessions'[u].chn = left.chn + (IF joined /\ asChan THEN 1 ELSE 0)
  <2> HIDE DEF joined, left
  <2>1. CASE joined /\ asChan
    BY <2>1, <1>9, <1>10 DEF AttachedSessions
  <2>2. CASE joined /\ ~asChan
    BY <2>2, <1>9, <1>10 DEF AttachedSessions
  <2>3. CASE ~joined
    BY <2>3, <1>9, <1>10 DEF AttachedSessions
  <2> QED
    BY <2>1, <2>2, <2>3
<1>12. stays => /\ after[u].want = p.want /\ after[u].given = p.given
                /\ after[u].isChan = p.isChan
                /\ after[u].online = (IF banSelf THEN 0 ELSE p.online)
                                     + (IF joined THEN 1 ELSE 0)
  <2>1. (IF banSelf THEN 0 ELSE p.online) \in Nat
    BY DEF Cache
  <2> HIDE DEF joined, banSelf
  <2> QED
    BY <2>1, <1>6, <1>7
<1>13. left = IF "J" \in p.want THEN sessions[u] ELSE NoSess
    OBVIOUS
<1> HIDE DEF joined, left
<1> QED
    BY <1>7, <1>8, <1>11, <1>12, <1>13 DEF joined, Settled

LEMMA SomeSession ==
    ASSUME NEW s \in [grp : Nat, chn : Nat]
    PROVE  s # NoSess <=> s.grp + s.chn > 0
<1>1. s = [grp |-> s.grp, chn |-> s.chn]
    OBVIOUS
<1>2. s.grp \in Nat /\ s.chn \in Nat
    OBVIOUS
<1>3. CASE s.grp = 0 /\ s.chn = 0
    BY <1>1, <1>3 DEF NoSess
<1>4. CASE ~(s.grp = 0 /\ s.chn = 0)
    BY <1>2, <1>4 DEF NoSess
<1> QED
    BY <1>3, <1>4

LEMMA CreateFacts ==
    ASSUME TypeOK, NEW u \in Users, NEW want \in Mode, NEW given \in Mode, NEW done,
           IF done = 1 THEN Create(u, want, given) ELSE UNCHANGED <<subs, row>>
    PROVE  /\ subs' \in [Users -> Subscription] /\ row' \in [owner : Users, usebt : BOOLEAN]
           /\ \A x \in Users \ {u} : subs'[x] = subs[x]
           /\ subs'[u] = IF done = 1 THEN Row(want, given) ELSE subs[u]
           /\ row'.owner # row.owner => row'.owner = u /\ done = 1 /\ "O" \in want \cap given
<1>1. CASE done = 1
  <2>1. Row(want, given) \in Subscription
    BY DEF Row, Subscription
  <2>2. subs' = [subs EXCEPT ![u] = Row(want, given)]
    BY <1>1 DEF Create
  <2>3. row' = IF "O" \in want \cap given THEN [row EXCEPT !.owner = u] ELSE row
    BY <1>1 DEF Create
  <2> QED
    BY <1>1, <2>1, <2>2, <2>3 DEF TypeOK
<1>2. CASE done # 1
    BY <1>2 DEF TypeOK
<1> QED
    BY <1>1, <1>2

OverwrittenAll(new, rows, u, want, given) ==
    /\ new \in [Users -> Subscription]
    /\ \A x \in Users :
          /\ new[x].state = rows[x].state
          /\ u \notin {x, NoOne} \/ rows[x].state = "none" => new[x] = rows[x]
          /\ u \in {x, NoOne} /\ rows[x].state # "none" =>
                /\ new[x].want = IF want = Unset THEN rows[x].want ELSE want
                /\ new[x].given = IF given = Unset THEN rows[x].given ELSE given

LEMMA UpdatedFacts ==
    ASSUME NEW rows \in [Users -> Subscription], NEW u \in Users \cup {NoOne},
           NEW want \in {Unset} \cup Mode, NEW given \in {Unset} \cup Mode
    PROVE  OverwrittenAll(Updated(rows, u, want, given), rows, u, want, given)
<1> DEFINE new == Updated(rows, u, want, given)
           changed(x) == [rows[x] EXCEPT !.want = IF want = Unset THEN rows[x].want ELSE want,
                                         !.given = IF given = Unset THEN rows[x].given ELSE given]
<1>1. ASSUME NEW x \in Users
      PROVE  /\ changed(x) \in Subscription /\ changed(x).state = rows[x].state
             /\ changed(x).want = IF want = Unset THEN rows[x].want ELSE want
             /\ changed(x).given = IF given = Unset THEN rows[x].given ELSE given
    BY Zenon DEF Subscription
<1>2. new = [x \in Users |-> IF u \in {x, NoOne} /\ rows[x].state # "none"
                             THEN changed(x) ELSE rows[x]]
    BY DEF Updated
<1> HIDE DEF new, changed
<1>3. new \in [Users -> Subscription]
    BY <1>1, <1>2
<1>4. ASSUME NEW x \in Users
      PROVE  /\ new[x].state = rows[x].state
             /\ u \notin {x, NoOne} \/ rows[x].state = "none" => new[x] = rows[x]
             /\ u \in {x, NoOne} /\ rows[x].state # "none" =>
                   /\ new[x].want = IF want = Unset THEN rows[x].want ELSE want
                   /\ new[x].given = IF given = Unset THEN rows[x].given ELSE given
    BY <1>1, <1>2
<1>5. OverwrittenAll(new, rows, u, want, given)
    BY <1>3, <1>4 DEF OverwrittenAll
<1> QED
    BY <1>5 DEF new

\* The row of one user.
Overwritten(new, rows, u, want, given) ==
    /\ new \in [Users -> Subscription]
    /\ \A x \in Users \ {u} : new[x] = rows[x]
    /\ new[u].state = rows[u].state
    /\ rows[u].state = "none" => new[u] = rows[u]
    /\ want = Unset => new[u].want = rows[u].want
    /\ given = Unset => new[u].given = rows[u].given
    /\ rows[u].state # "none" /\ want # Unset => new[u].want = want
    /\ rows[u].state # "none" /\ given # Unset => new[u].given = given

LEMMA UpdatedOne ==
    ASSUME NEW rows \in [Users -> Subscription], NEW u \in Users,
           NEW want \in {Unset} \cup Mode, NEW given \in {Unset} \cup Mode
    PROVE  Overwritten(Updated(rows, u, want, given), rows, u, want, given)
<1> DEFINE new == Updated(rows, u, want, given)
<1>1. u \in Users \cup {NoOne} /\ u # NoOne
    BY UsersAssumption
<1>2. OverwrittenAll(new, rows, u, want, given)
    BY <1>1, UpdatedFacts
<1> HIDE DEF new
<1>3. /\ \A x \in Users \ {u} : new[x] = rows[x]
      /\ new[u].state = rows[u].state
      /\ rows[u].state = "none" => new[u] = rows[u]
      /\ rows[u].state # "none" =>
            /\ new[u].want = IF want = Unset THEN rows[u].want ELSE want
            /\ new[u].given = IF given = Unset THEN rows[u].given ELSE given
    BY <1>1, <1>2 DEF OverwrittenAll
<1>4. Overwritten(new, rows, u, want, given)
    BY <1>2, <1>3 DEF Overwritten, OverwrittenAll
<1> QED
    BY <1>4 DEF new

LEMMA DeletedFacts ==
    ASSUME NEW rows \in [Users -> Subscription], NEW u \in Users
    PROVE  LET new == Deleted(rows, u)
           IN  /\ new \in [Users -> Subscription]
               /\ \A x \in Users \ {u} : new[x] = rows[x]
               /\ new[u].want = rows[u].want /\ new[u].given = rows[u].given
               /\ new[u].state = IF rows[u].state = "live" THEN "deleted" ELSE rows[u].state
<1>1. CASE rows[u].state = "live"
  <2>1. Deleted(rows, u) = [rows EXCEPT ![u] = [rows[u] EXCEPT !.state = "deleted"]]
    BY <1>1 DEF Deleted
  <2>2. [rows[u] EXCEPT !.state = "deleted"] \in Subscription
    BY DEF Subscription
  <2> QED
    BY <1>1, <2>1, <2>2 DEF Subscription
<1>2. CASE rows[u].state # "live"
    BY <1>2 DEF Deleted
<1> QED
    BY <1>1, <1>2

\* What evicting a user does to the topic, whose map of users is f meanwhile.
Gone(f, u, unsub) ==
    /\ t' \in Topics /\ t'.loaded = t.loaded /\ t'.owner = t.owner
    /\ sessions' \in AttachedSessions /\ sessions'[u] = NoSess
    /\ \A x \in Users \ {u} : sessions'[x] = sessions[x]
    /\ \A x : x # u => /\ x \in DOMAIN t'.perUser <=> x \in DOMAIN f
                       /\ x \in DOMAIN f => t'.perUser[x] = f[x]
    /\ u \in DOMAIN t'.perUser <=> u \in DOMAIN f /\ ~(unsub \/ f[u].isChan)
    /\ u \in DOMAIN t'.perUser =>
          /\ t'.perUser[u].want = f[u].want /\ t'.perUser[u].given = f[u].given
          /\ t'.perUser[u].isChan <=> f[u].isChan

LEMMA EvictFacts ==
    ASSUME t \in Topics, sessions \in AttachedSessions,
           NEW f \in Caches, NEW u \in Users, NEW unsub \in BOOLEAN, Evict(f, u, unsub)
    PROVE  Gone(f, u, unsub)
<1> DEFINE g == Evicted(f, u, unsub)
<1>1. /\ g \in Caches
      /\ u \in DOMAIN g <=> u \in DOMAIN f /\ ~unsub /\ ~f[u].isChan
      /\ u \in DOMAIN g => g[u] = [f[u] EXCEPT !.online = 0]
      /\ \A x : x # u => (x \in DOMAIN g <=> x \in DOMAIN f) /\ (x \in DOMAIN f => g[x] = f[x])
    BY EvictedFacts
<1>2. t' = [t EXCEPT !.perUser = g] /\ sessions' = [sessions EXCEPT ![u] = NoSess]
    BY DEF Evict
<1> HIDE DEF g
<1>3. t' \in Topics /\ t'.loaded = t.loaded /\ t'.owner = t.owner /\ t'.perUser = g
    BY <1>1, <1>2 DEF Topics
<1>4. /\ sessions' \in AttachedSessions /\ sessions'[u] = NoSess
      /\ \A x \in Users \ {u} : sessions'[x] = sessions[x]
    BY <1>2 DEF AttachedSessions, NoSess
<1>5. u \in DOMAIN f => f[u] \in Cache
    BY CachesFacts
<1>6. u \in DOMAIN g => /\ g[u].want = f[u].want /\ g[u].given = f[u].given
                        /\ g[u].isChan <=> f[u].isChan
    BY <1>1, <1>5 DEF Cache
<1> QED
    BY <1>1, <1>3, <1>4, <1>6 DEF Gone

-----------------------------------------------------------------------------
(* Ejecting and unsubscribing. *)
Removed(u, ok) ==
    /\ t' \in Topics /\ t'.loaded = t.loaded /\ t'.owner = t.owner
    /\ sessions' \in AttachedSessions
    /\ \A x \in Users \ {u} :
          /\ sessions'[x] = sessions[x]
          /\ x \in DOMAIN t'.perUser <=> x \in DOMAIN t.perUser
          /\ x \in DOMAIN t.perUser => t'.perUser[x] = t.perUser[x]
    /\ ok => u \notin DOMAIN t'.perUser /\ sessions'[u] = NoSess
    /\ ~ok => t' = t /\ sessions' = sessions

LEMMA RemovedFacts ==
    ASSUME TypeOK, NEW u \in Users, NEW ok \in BOOLEAN,
           IF ok THEN Evict(t.perUser, u, TRUE) ELSE UNCHANGED <<t, sessions>>
    PROVE  Removed(u, ok)
<1>1. t \in Topics /\ sessions \in AttachedSessions
    BY DEF TypeOK
<1>2. CASE ok
  <2> DEFINE f == t.perUser
             unsub == TRUE
  <2>1. f \in Caches /\ unsub \in BOOLEAN /\ unsub /\ Evict(f, u, unsub)
    BY Zenon, <1>1, <1>2 DEF Topics
  <2> HIDE DEF f, unsub
  <2>2. Gone(f, u, unsub)
    BY Zenon, <1>1, <2>1, EvictFacts
  <2> QED
    BY <1>2, <2>1, <2>2 DEF Gone, Removed, f
<1>3. CASE ~ok
    BY <1>1, <1>3 DEF Removed
<1> QED
    BY <1>2, <1>3

LEMMA RemovedOK ==
    ASSUME NEW u \in Users, NEW ok \in BOOLEAN, UserOK(u), Course, Removed(u, ok),
           subs'[u].want = subs[u].want, subs'[u].given = subs[u].given,
           subs'[u].state = "none" <=> subs[u].state = "none",
           pending'[u] = pending[u], offered' = offered,
           Calm' => /\ ok /\ subs'[u].state # "live"
                    /\ banned' = banned /\ selfBanned' = selfBanned
    PROVE  UserOK(u)'
<1>1. GivenOK(u)'
    BY DEF UserOK, GivenOK, Removed, Cached
<1>2. AttachedOK(u)'
  <2>1. CASE ok
    BY <2>1 DEF AttachedOK, Attached, Cached, Removed, NoSess
  <2>2. CASE ~ok
    BY <2>2 DEF UserOK, AttachedOK, Attached, Cached, Removed, Course, NoSess
  <2> QED
    BY <2>1, <2>2
<1>3. MirrorOK(u)'
    BY DEF MirrorOK, Removed, Cached, Subscriber
<1>4. BanOK(u)'
    BY DEF UserOK, BanOK, Removed, Course, Cached, Subscriber
<1> QED
    BY <1>1, <1>2, <1>3, <1>4 DEF UserOK

-----------------------------------------------------------------------------
(* Permissions given by another user. *)
Placed(put, u, mode, ok) ==
    /\ t' \in Topics /\ t'.loaded = t.loaded /\ t'.owner = t.owner
    /\ sessions' \in AttachedSessions
    /\ \A x \in Users \ {u} : sessions'[x] = sessions[x]
    /\ ~ok => t' = t /\ sessions' = sessions
    /\ ok => /\ \A x : x # u => /\ x \in DOMAIN t'.perUser <=> x \in DOMAIN put
                                /\ x \in DOMAIN put => t'.perUser[x] = put[x]
             /\ u \in DOMAIN t'.perUser <=> "J" \in mode \/ ~put[u].isChan
             /\ u \in DOMAIN t'.perUser =>
                   /\ t'.perUser[u].want = put[u].want /\ t'.perUser[u].given = put[u].given
                   /\ t'.perUser[u].isChan <=> put[u].isChan
             /\ "J" \in mode => sessions' = sessions /\ t'.perUser[u] = put[u]
             /\ "J" \notin mode => sessions'[u] = NoSess

LEMMA PlacedFacts ==
    ASSUME TypeOK, NEW put \in Caches, NEW u \in Users, u \in DOMAIN put, NEW mode,
           NEW ok \in BOOLEAN,
           CASE ~ok -> UNCHANGED <<t, sessions>>
             [] ok /\ "J" \notin mode -> Evict(put, u, FALSE)
             [] OTHER -> t' = [t EXCEPT !.perUser = put] /\ UNCHANGED sessions
    PROVE  Placed(put, u, mode, ok)
<1>1. t \in Topics /\ sessions \in AttachedSessions
    BY DEF TypeOK
<1>2. CASE ~ok
    BY <1>1, <1>2 DEF Placed
<1>3. CASE ok /\ "J" \notin mode
  <2> DEFINE unsub == FALSE
  <2>1. unsub \in BOOLEAN /\ ~unsub /\ Evict(put, u, unsub)
    BY Zenon, <1>3
  <2> HIDE DEF unsub
  <2>2. Gone(put, u, unsub)
    BY <1>1, <2>1, EvictFacts
  <2> QED
    BY <1>3, <2>1, <2>2 DEF Gone, Placed
<1>4. CASE ok /\ "J" \in mode
  <2>1. t' = [t EXCEPT !.perUser = put] /\ sessions' = sessions
    BY <1>4
  <2>2. t' \in Topics /\ t'.loaded = t.loaded /\ t'.owner = t.owner /\ t'.perUser = put
    BY <1>1, <2>1 DEF Topics
  <2> QED
    BY <1>1, <1>4, <2>1, <2>2 DEF Placed
<1> QED
    BY <1>2, <1>3, <1>4

-----------------------------------------------------------------------------
(* Init, and the steps that load, unload and leave. *)
LEMMA InitInv == Init => Inv
<1> SUFFICES ASSUME Init PROVE Inv
    OBVIOUS
<1>1. CreatorMode \in Mode
    BY ModesAssumption DEF CreatorMode, Mode
<1>2. <<>> \in Caches
    BY NoneCached
<1>3. subs[Creator] = Row(CreatorMode, CreatorMode)
    BY UsersAssumption DEF Init
<1>4. TypeOK
  <2>1. t \in Topics
    BY <1>2 DEF Init, Unloaded, Topics
  <2>2. sessions \in AttachedSessions
    BY DEF Init, NoSess, AttachedSessions
  <2>3. Row(CreatorMode, CreatorMode) \in Subscription /\ NoRow \in Subscription
    BY <1>1 DEF Row, NoRow, Subscription, Mode
  <2>4. subs \in [Users -> Subscription] /\ chnSubs \in [Users -> Subscription]
    BY <2>3 DEF Init
  <2> QED
    BY <2>1, <2>2, <2>4, UsersAssumption DEF Init, TypeOK
<1>5. ASSUME NEW u \in Users PROVE UserOK(u)
  <2>1. ~Cached(u) /\ ~t.loaded /\ sessions[u] = NoSess /\ pending[u] = NoOne
    BY DEF Init, Cached, Unloaded
  <2>2. CASE u = Creator
    BY <2>1, <2>2, <1>3 DEF Init, UserOK, GivenOK, AttachedOK, MirrorOK, BanOK, Attached,
                            NoSess, Row
  <2>3. CASE u # Creator
    <3>1. subs[u] = NoRow
      BY <2>3 DEF Init
    <3> QED
      BY <2>1, <3>1 DEF Init, UserOK, GivenOK, AttachedOK, MirrorOK, BanOK, Attached,
                        NoSess, NoRow
  <2> QED
    BY <2>2, <2>3
<1>6. OwnerOK
  <2>1. Owners = {Creator}
    BY <1>3, UsersAssumption DEF Init, Owners, Row, NoRow, Effective, CreatorMode
  <2> QED
    BY <2>1 DEF Init, OwnerOK, Shared, Unloaded
<1> QED
    BY <1>4, <1>5, <1>6 DEF Inv

LEMMA LoadStep == ASSUME Inv, Load PROVE Inv'
<1> DEFINE live == {u \in Users : subs[u].state = "live"}
<1>1. PICK o \in IF Owners = {} THEN {NoOne} ELSE Owners :
         t' = [loaded |-> TRUE, owner |-> o,
               perUser |-> [u \in live |-> Entry(subs[u].want, subs[u].given, FALSE)]]
    BY Zenon DEF Load
<1>2. /\ ~t.loaded
      /\ UNCHANGED <<sessions, subs, chnSubs, row, pending,
                     offered, banned, selfBanned, unseen, upset, faults, outside>>
    BY DEF Load
<1>3. TypeOK /\ OwnerOK /\ \A u \in Users : UserOK(u)
    BY DEF Inv
<1>4. o \in Users \cup {NoOne} /\ (Owners # {} => o \in Owners)
    BY DEF Owners
<1>5. TypeOK'
  <2>1. [u \in live |-> Entry(subs[u].want, subs[u].given, FALSE)] \in [live -> Cache]
    BY <1>3 DEF TypeOK, Subscription, Entry, Cache
  <2>2. [u \in live |-> Entry(subs[u].want, subs[u].given, FALSE)] \in Caches
    BY Zenon, <2>1, CachesFacts
  <2>3. t' \in Topics
    BY Zenon, <1>1, <1>4, <2>2 DEF Topics
  <2> QED
    BY <2>3, <1>2, <1>3 DEF TypeOK
<1>6. ASSUME NEW u \in Users PROVE UserOK(u)'
  <2>1. UserOK(u) /\ ~Attached(u) /\ sessions[u] \in [grp : Nat, chn : Nat]
    BY <1>2, <1>3 DEF UserOK, AttachedOK, TypeOK, AttachedSessions
  <2>2. sessions[u] = NoSess
    BY <2>1 DEF Attached
  <2>3. /\ u \in DOMAIN t'.perUser <=> subs[u].state = "live"
        /\ u \in DOMAIN t'.perUser =>
              /\ t'.perUser[u].want = subs[u].want /\ t'.perUser[u].given = subs[u].given
              /\ t'.perUser[u].isChan = FALSE
    BY <1>1 DEF Entry
  <2>4. t'.loaded
    BY <1>1
  <2> QED
    BY <1>2, <2>1, <2>2, <2>3, <2>4 DEF UserOK, GivenOK, AttachedOK, MirrorOK, BanOK, Attached,
       Cached, Subscriber, NoSess, Calm
<1>7. OwnerOK'
    BY <1>1, <1>2, <1>3, <1>4 DEF OwnerOK, Calm, Owners, Shared
<1> QED
    BY <1>5, <1>6, <1>7 DEF Inv

LEMMA UnloadStep == ASSUME Inv, Unload PROVE Inv'
<1>1. TypeOK /\ OwnerOK /\ \A u \in Users : UserOK(u)
    BY DEF Inv
<1>2. t' = Unloaded /\ <<>> \in Caches
    BY NoneCached DEF Unload
<1>3. TypeOK'
  <2>1. t' \in Topics
    BY <1>2 DEF Topics, Unloaded
  <2>2. sessions' \in AttachedSessions
    BY DEF Unload, NoSess, AttachedSessions
  <2> QED
    BY <2>1, <2>2, <1>1 DEF Unload, TypeOK
<1>4. Calm' <=> Calm
    BY DEF Unload, Calm
<1>5. ASSUME NEW u \in Users PROVE UserOK(u)'
  <2>1. ~t'.loaded /\ u \notin DOMAIN t'.perUser /\ sessions'[u] = NoSess
    BY <1>2 DEF Unload, Unloaded
  <2>2. UserOK(u) /\ subs' = subs /\ pending' = pending /\ offered' = offered
        /\ banned' = banned /\ selfBanned' = selfBanned
    BY <1>1 DEF Unload
  <2> QED
    BY <1>4, <2>1, <2>2 DEF UserOK, GivenOK, AttachedOK, MirrorOK, BanOK, Attached,
       Cached, Subscriber, NoSess
<1>6. OwnerOK'
  <2>1. ~t'.loaded /\ Owners' = Owners /\ row' = row /\ ("shared" \in upset' <=> "shared" \in upset)
    BY <1>2 DEF Owners, Unload, Unloaded
  <2> QED
    BY <1>1, <1>4, <2>1 DEF OwnerOK, Shared
<1> QED
    BY <1>3, <1>5, <1>6 DEF Inv

LEMMA DelSubStep ==
    ASSUME Inv, NEW h \in Users, NEW u \in Users, DelSub(h, u)
    PROVE  Inv'
<1> DEFINE calls == IF subs[u].state = "live" THEN 1 ELSE 0
<1>1. TypeOK /\ OwnerOK /\ \A x \in Users : UserOK(x)
    BY DEF Inv
<1>2. /\ Attached(h) /\ Cached(u) /\ "O" \notin Effective(t.perUser[u])
      /\ UNCHANGED <<chnSubs, row, pending, offered, unseen>>
    BY DEF DelSub
<1>3. PICK done \in 0..calls, ok \in BOOLEAN :
         /\ Calls(calls, done, ok)
         /\ subs' = IF done = 1 THEN Deleted(subs, u) ELSE subs
         /\ IF ok THEN Evict(t.perUser, u, TRUE) ELSE UNCHANGED <<t, sessions>>
         /\ Upset(FALSE, FALSE)
         /\ Followed(banned, selfBanned)
    BY Zenon DEF DelSub
<1>4. /\ calls \in Nat /\ faults \in Nat /\ subs \in [Users -> Subscription]
      /\ banned \in SUBSET Users /\ selfBanned \in SUBSET Users
    BY <1>1 DEF TypeOK
<1>5. (ok => done = calls) /\ History(ok, FALSE, FALSE, banned, selfBanned)
  <2> HIDE DEF calls
  <2>1. faults' \in Nat /\ (faults' = 0 => faults = 0 /\ ok) /\ (ok => done = calls)
    BY <1>3, <1>4, CallsFacts
  <2> QED
    BY Zenon, <2>1, <1>3, <1>4, HistoryFacts
<1>6. Removed(u, ok)
    BY Zenon, <1>1, <1>3, RemovedFacts
<1>7. /\ subs' \in [Users -> Subscription]
      /\ \A x \in Users \ {u} : subs'[x] = subs[x]
      /\ subs'[u].want = subs[u].want /\ subs'[u].given = subs[u].given
      /\ subs'[u].state = "none" <=> subs[u].state = "none"
      /\ ok => subs'[u].state # "live"
    BY Zenon, <1>3, <1>4, <1>5, DeletedFacts
<1>8. TypeOK'
    BY Zenon, <1>1, <1>2, <1>5, <1>6, <1>7 DEF TypeOK, History, Removed
<1>9. Course
    BY <1>5, <1>6 DEF Course, History, Removed
<1>10. ASSUME NEW x \in Users \ {u} PROVE UserOK(x)'
  <2>1. Keeps(x)
    BY Zenon, <1>2, <1>5, <1>6, <1>7 DEF Keeps, History, Removed
  <2> QED
    BY <2>1, <1>1, <1>9, KeepsOK
<1>11. UserOK(u)'
  <2>1. Calm' => ok /\ subs'[u].state # "live" /\ banned' = banned /\ selfBanned' = selfBanned
    BY <1>5, <1>7 DEF History
  <2> QED
    BY <2>1, <1>1, <1>2, <1>6, <1>7, <1>9, RemovedOK
<1>12. OwnerOK'
  <2>1. t.loaded
    BY Zenon, <1>1, <1>2 DEF UserOK, AttachedOK
  <2>2. Calm' => u \notin Owners
    BY Zenon, <2>1, <1>1, <1>2, <1>5
       DEF History, UserOK, MirrorOK, Owners, Subscriber, Effective
  <2>3. Calm' => t.owner \in Owners'
    BY <2>1, <2>2, <1>1, <1>5, <1>7 DEF History, OwnerOK, Owners
  <2> QED
    BY Zenon, <2>1, <2>3, <1>1, <1>2, <1>5, <1>6, OwnerStays DEF History, Removed
<1> QED
    BY <1>8, <1>10, <1>11, <1>12 DEF Inv

LEMMA LeaveUnsubStep ==
    ASSUME Inv, NEW u \in Users, LeaveUnsub(u)
    PROVE  Inv'
<1> DEFINE reader == t.perUser[u].isChan
<1>1. TypeOK /\ OwnerOK /\ \A x \in Users : UserOK(x)
    BY Zenon DEF Inv
<1>2. /\ Attached(u) /\ t.owner # u
      /\ (IF reader THEN chnSubs ELSE subs)[u].state = "live"
      /\ UNCHANGED <<row, pending, offered, unseen>>
    BY DEF LeaveUnsub, MayLeave
<1>3. PICK done \in 0..1, ok \in BOOLEAN :
         /\ Calls(1, done, ok)
         /\ subs' = IF done = 1 /\ ~reader THEN Deleted(subs, u) ELSE subs
         /\ chnSubs' = IF done = 1 /\ reader THEN Deleted(chnSubs, u) ELSE chnSubs
         /\ IF ok THEN Evict(t.perUser, u, TRUE) ELSE UNCHANGED <<t, sessions>>
         /\ Upset(FALSE, FALSE)
         /\ Followed(banned, selfBanned)
    BY Zenon DEF LeaveUnsub
<1>4. /\ 1 \in Nat /\ faults \in Nat
      /\ subs \in [Users -> Subscription] /\ chnSubs \in [Users -> Subscription]
      /\ banned \in SUBSET Users /\ selfBanned \in SUBSET Users
    BY <1>1 DEF TypeOK
<1>5. (ok => done = 1) /\ History(ok, FALSE, FALSE, banned, selfBanned)
  <2>1. faults' \in Nat /\ (faults' = 0 => faults = 0 /\ ok) /\ (ok => done = 1)
    BY <1>3, <1>4, CallsFacts
  <2> QED
    BY Zenon, <2>1, <1>3, <1>4, HistoryFacts
<1>6. Removed(u, ok)
    BY Zenon, <1>1, <1>3, RemovedFacts
<1>7. t.loaded /\ Cached(u)
    BY <1>1, <1>2 DEF UserOK, AttachedOK
<1>8. /\ subs' \in [Users -> Subscription]
      /\ \A x \in Users \ {u} : subs'[x] = subs[x]
      /\ subs'[u].want = subs[u].want /\ subs'[u].given = subs[u].given
      /\ subs'[u].state = "none" <=> subs[u].state = "none"
      /\ ok => reader \/ subs'[u].state # "live"
      /\ reader => subs' = subs
    BY <1>3, <1>4, <1>5, DeletedFacts
<1>9. chnSubs' \in [Users -> Subscription]
    BY <1>3, <1>4, DeletedFacts
<1>10. TypeOK'
    BY Zenon, <1>1, <1>2, <1>5, <1>6, <1>8, <1>9 DEF TypeOK, History, Removed
<1>11. Course
    BY <1>5, <1>6 DEF Course, History, Removed
<1>12. ASSUME NEW x \in Users \ {u} PROVE UserOK(x)'
  <2>1. Keeps(x)
    BY <1>2, <1>5, <1>6, <1>8 DEF Keeps, History, Removed
  <2> QED
    BY <2>1, <1>1, <1>11, KeepsOK
<1>13. UserOK(u)'
  <2>1. Calm' => ok /\ subs'[u].state # "live" /\ banned' = banned /\ selfBanned' = selfBanned
    BY Zenon, <1>1, <1>5, <1>7, <1>8 DEF History, UserOK, MirrorOK, Subscriber
  <2> QED
    BY Zenon, <2>1, <1>1, <1>2, <1>6, <1>8, <1>11, RemovedOK
<1>14. OwnerOK'
  <2>1. Calm' => t.owner \in Owners'
    BY Zenon, <1>1, <1>2, <1>5, <1>7, <1>8 DEF History, OwnerOK, Owners
  <2> QED
    BY Zenon, <2>1, <1>1, <1>2, <1>5, <1>6, <1>7, OwnerStays DEF History, Removed
<1> QED
    BY <1>10, <1>12, <1>13, <1>14 DEF Inv

-----------------------------------------------------------------------------
(* A session leaves. *)
LEMMA LeaveStep ==
    ASSUME Inv, NEW u \in Users, NEW chanSub \in BOOLEAN, NEW asChan \in BOOLEAN,
           Leave(u, chanSub, asChan)
    PROVE  Inv'
<1> DEFINE p == t.perUser[u]
           online == t.perUser[u].online - 1
           s == sessions[u]
           z == sessions'[u]
<1>1. TypeOK /\ OwnerOK /\ \A x \in Users : UserOK(x)
    BY DEF Inv
<1>2. UNCHANGED <<subs, chnSubs, row, pending,
                  offered, banned, selfBanned, unseen, upset, faults, outside>>
    BY DEF Leave
<1>3. s \in [grp : Nat, chn : Nat] /\ sessions \in AttachedSessions /\ t \in Topics
    BY <1>1 DEF TypeOK, AttachedSessions
<1>4. /\ sessions' \in AttachedSessions
      /\ \A x \in Users \ {u} : sessions'[x] = sessions[x]
      /\ chanSub => s.chn > 0 /\ z.chn = s.chn - 1 /\ z.grp = s.grp
      /\ ~chanSub => s.grp > 0 /\ z.grp = s.grp - 1 /\ z.chn = s.chn
  <2>1. CASE chanSub
    <3>1. s.chn > 0 /\ sessions' = [sessions EXCEPT ![u] = [s EXCEPT !.chn = s.chn - 1]]
      BY Zenon, <2>1 DEF Leave
    <3>2. [s EXCEPT !.chn = s.chn - 1] \in [grp : Nat, chn : Nat]
      BY <1>3, <3>1
    <3> QED
      BY <1>3, <2>1, <3>1, <3>2 DEF AttachedSessions
  <2>2. CASE ~chanSub
    <3>1. s.grp > 0 /\ sessions' = [sessions EXCEPT ![u] = [s EXCEPT !.grp = s.grp - 1]]
      BY Zenon, <2>2 DEF Leave
    <3>2. [s EXCEPT !.grp = s.grp - 1] \in [grp : Nat, chn : Nat]
      BY <1>3, <3>1
    <3> QED
      BY <1>3, <2>2, <3>1, <3>2 DEF AttachedSessions
  <2> QED
    BY <2>1, <2>2
<1>5. z \in [grp : Nat, chn : Nat]
    BY <1>4 DEF AttachedSessions
<1>6. Attached(u) /\ (sessions'[u] # NoSess <=> z.grp + z.chn > 0)
    BY <1>3, <1>4, <1>5, SomeSession DEF Attached
<1>7. /\ Cached(u) /\ p.online >= s.grp + s.chn /\ (s.chn > 0 => p.isChan)
      /\ "slipped" \notin upset => "J" \in Effective(p)
    BY <1>1, <1>6 DEF UserOK, AttachedOK
<1>8. t.perUser \in Caches /\ p \in Cache
    BY Zenon, <1>3, <1>7, CachesFacts DEF Topics, Cached
<1> DEFINE away == asChan /\ chanSub /\ online = 0
<1>9. /\ t' \in Topics /\ t'.loaded = t.loaded /\ t'.owner = t.owner
      /\ \A x \in Users \ {u} :
            /\ x \in DOMAIN t'.perUser <=> x \in DOMAIN t.perUser
            /\ x \in DOMAIN t.perUser => t'.perUser[x] = t.perUser[x]
      /\ u \in DOMAIN t'.perUser <=> ~away
      /\ ~away => /\ t'.perUser[u].want = p.want /\ t'.perUser[u].given = p.given
                  /\ t'.perUser[u].isChan <=> p.isChan
                  /\ t'.perUser[u].online = IF chanSub = asChan THEN online ELSE p.online
  <2>1. CASE chanSub # asChan
    BY Zenon, <2>1, <1>3, <1>7 DEF Leave, Cached
  <2>2. CASE away
    <3> DEFINE f == t.perUser
    <3>1. f \in Caches /\ t' = [t EXCEPT !.perUser = Without(f, u)]
      BY <2>2, <1>8 DEF Leave
    <3> HIDE DEF f
    <3>2. /\ DOMAIN Without(f, u) = DOMAIN f \ {u} /\ Without(f, u) \in Caches
          /\ \A x \in DOMAIN f \ {u} : Without(f, u)[x] = f[x]
      BY Zenon, <3>1, WithoutFacts
    <3>3. t' \in Topics /\ t'.loaded = t.loaded /\ t'.owner = t.owner /\ t'.perUser = Without(f, u)
      BY <1>3, <3>1, <3>2 DEF Topics
    <3> QED
      BY <2>2, <3>2, <3>3 DEF f
  <2>3. CASE chanSub = asChan /\ ~away
    <3> DEFINE f == t.perUser
               q == [p EXCEPT !.online = online]
               g == [f EXCEPT ![u] = q]
    <3>1. t' = [t EXCEPT !.perUser = g]
      BY <2>3 DEF Leave
    <3>2. /\ q \in Cache /\ q.want = p.want /\ q.given = p.given /\ q.isChan = p.isChan
          /\ q.online = online
      <4>1. online \in Nat
        BY <1>3, <1>4, <1>7, <1>8 DEF Cache
      <4> HIDE DEF online
      <4> QED
        BY <4>1, <1>8 DEF Cache
    <3>3. f \in [DOMAIN f -> Cache] /\ DOMAIN f \subseteq Users \cup {NoOne} /\ u \in DOMAIN f
      BY <1>7, <1>8, CachesFacts DEF Cached
    <3> HIDE DEF f, q
    <3>4. /\ g \in [DOMAIN f -> Cache] /\ DOMAIN g = DOMAIN f /\ g[u] = q
          /\ \A x \in DOMAIN f : x # u => g[x] = f[x]
      BY <3>2, <3>3
    <3>5. g \in Caches
      BY <3>3, <3>4, CachesFacts
    <3> HIDE DEF g
    <3>6. t' \in Topics /\ t'.loaded = t.loaded /\ t'.owner = t.owner /\ t'.perUser = g
      BY Zenon, <1>3, <3>1, <3>5 DEF Topics
    <3> QED
      BY <2>3, <3>2, <3>3, <3>4, <3>6 DEF f
  <2> QED
    BY <2>1, <2>2, <2>3
<1>10. TypeOK'
    BY Zenon, <1>1, <1>2, <1>4, <1>9 DEF TypeOK
<1>11. Course
    BY <1>2, <1>9 DEF Course, Calm
<1>12. ASSUME NEW x \in Users \ {u} PROVE UserOK(x)'
  <2>1. Keeps(x)
    BY <1>2, <1>4, <1>9 DEF Keeps
  <2> QED
    BY Zenon, <2>1, <1>1, <1>11, KeepsOK
<1>13. UserOK(u)'
  <2>1. UserOK(u)
    BY Zenon, <1>1
  <2>2. GivenOK(u)'
    BY Zenon, <2>1, <1>2, <1>7, <1>9 DEF UserOK, GivenOK, Cached
  <2>a. s.grp \in Nat /\ s.chn \in Nat /\ z.grp \in Nat /\ z.chn \in Nat /\ p.online \in Nat
    BY <1>3, <1>5, <1>8 DEF Cache
  <2>b. /\ chanSub => s.chn > 0 /\ z.chn = s.chn - 1 /\ z.grp = s.grp
        /\ ~chanSub => s.grp > 0 /\ z.grp = s.grp - 1 /\ z.chn = s.chn
        /\ p.online >= s.grp + s.chn /\ (s.chn > 0 => p.isChan)
    BY Zenon, <1>4, <1>7
  <2>c. ~away => t'.perUser[u].online = IF chanSub = asChan THEN online ELSE p.online
    BY Zenon, <1>9
  <2>3. away => p.isChan /\ z.grp + z.chn = 0
    BY <2>a, <2>b, <1>8 DEF Cache
  <2>4. ~away => t'.perUser[u].online >= z.grp + z.chn
    BY <2>a, <2>b, <2>c
  <2> HIDE DEF away, p, online
  <2>5. AttachedOK(u)'
    <3>1. z.chn > 0 => s.chn > 0
      BY <1>3, <1>4
    <3>2. Attached(u)' => ~away /\ z.grp + z.chn > 0
      BY <2>3, <1>6 DEF Attached
    <3>3. Cached(u)' <=> ~away
      BY <1>9 DEF Cached
    <3>4. Attached(u)' /\ "slipped" \notin upset' => "J" \in Effective(t.perUser[u])'
      BY <3>2, <1>2, <1>7, <1>9 DEF Effective
    <3>5. z.chn > 0 => t'.perUser[u].isChan
      BY <3>1, <2>3, <1>5, <1>7, <1>9
    <3>6. Cached(u)' => t'.loaded
      BY Zenon, <2>1, <1>7, <1>9 DEF UserOK, AttachedOK
    <3>7. Cached(u)' /\ t'.perUser[u].isChan => "J" \in t'.perUser[u].want
      BY Zenon, <2>1, <3>3, <1>7, <1>9 DEF UserOK, AttachedOK, p
    <3> QED
      BY <2>4, <3>2, <3>3, <3>4, <3>5, <3>6, <3>7 DEF AttachedOK
  <2>6. Subscriber(u)' <=> Subscriber(u)
    BY Zenon, <2>3, <1>7, <1>9 DEF Subscriber, Cached, p
  <2>7. MirrorOK(u)'
    BY Zenon, <2>1, <2>6, <1>2, <1>7, <1>9 DEF UserOK, MirrorOK, Cached, Calm, p, Subscriber
  <2>8. BanOK(u)'
    BY <2>1, <2>6, <1>2, <1>7, <1>9 DEF UserOK, BanOK, Cached, Calm, p, Subscriber
  <2> QED
    BY <2>2, <2>5, <2>7, <2>8 DEF UserOK
<1>14. OwnerOK'
    BY Zenon, <1>1, <1>2, <1>9, OwnersSame DEF Calm, Owners
<1> QED
    BY <1>10, <1>12, <1>13, <1>14 DEF Inv
=============================================================================
