----------------------------- MODULE TenantMySQL -----------------------------
(***************************************************************************)
(* db/mysql/tenant_adapter.go and the Tenant... methods of                 *)
(* db/mysql/adapter.go: the methods the store calls, each for one tenant.  *)
(* Rows are those of MySQLAdapter with the tenant they belong to, ten; a   *)
(* key of kv is the <<tenant, prefix, rest>> tenantCacheKey makes.         *)
(* The schema is that of docs/sql/mysql-multitenant-tenant-id-review.sql:  *)
(* unique keys are per tenant and there are no foreign keys, so nothing    *)
(* cascades.  CreateDb makes no tenant_id column: these methods work on no *)
(* other schema.  A call that is refused without rolling its transaction   *)
(* back leaves it open (Tables).                                           *)
(***************************************************************************)
EXTENDS Tables

NoTenant == 0
validTenant(id) == id # NoTenant

Gone(s) == [s EXCEPT !.gone = TRUE]
Rows(d, t, id) == {r \in d[t] : r.ten = id}
Owned(d, id, u) == {t \in Rows(d, "topics", id) : t.owner = u}

\* A method of tenant id whose other arguments are fit.
Guarded(id, fit, r) == IF validTenant(id) /\ fit THEN r ELSE Fail(ErrMalformed)

-----------------------------------------------------------------------------
(* Users and their authentication records. *)

addTenantTags(d, id, t, key, tags) ==
    Ins(d, t, {[ten |-> id, key |-> key, tag |-> g] : g \in tags})
replaceTags(d, id, t, key, tags) ==
    addTenantTags(Del(d, t, LAMBDA r : r.ten = id /\ r.key = key), id, t, key, tags)

\* The primary key of users is the id alone.
TenantUserCreate(d, id, u) ==
    Guarded(id, u.ten = id,
        IF u.id \in Ids(d) THEN Fail(ErrStore)
        ELSE Done(addTenantTags(Ins(d, "users", {u}), u.ten, "usertags", u.id, u.tags)))

TenantAuthAddRecord(d, id, r) ==
    Guarded(id, TRUE,
        IF \E x \in Rows(d, "auth", id) :
               x.uname = r.uname \/ (x.user = r.user /\ x.scheme = r.scheme)
        THEN Fail(ErrDuplicate) ELSE Done(Ins(d, "auth", {[r EXCEPT !.ten = id]})))

TenantAuthDelScheme(d, id, u, scheme) ==
    Guarded(id, TRUE, Done(Del(d, "auth",
        LAMBDA r : r.ten = id /\ r.user = u /\ r.scheme = scheme)))

authSet(r, unique, lvl, secret) ==
    [r EXCEPT !.lvl = lvl, !.uname = IF unique = None THEN @ ELSE unique,
              !.secret = IF secret = None THEN @ ELSE secret]

\* MySQL reports the rows a statement changed, not those it found.
TenantAuthUpdRecord(d, id, u, scheme, unique, lvl, secret) ==
    LET Hit(r) == r.ten = id /\ r.user = u /\ r.scheme = scheme
        F(r) == authSet(r, unique, lvl, secret)
    IN  Guarded(id, TRUE,
            IF \E r \in d.auth : /\ Hit(r)
                                 /\ \E x \in Rows(d, "auth", id) \ {r} : x.uname = F(r).uname
            THEN Fail(ErrDuplicate)
            ELSE IF \A r \in d.auth : Hit(r) => F(r) = r
            THEN Fail(ErrNotFound)
            ELSE Done(Upd(d, "auth", Hit, F)))

TenantAuthGetRecord(d, id, u, scheme) ==
    LET hit == {r \in Rows(d, "auth", id) : r.user = u /\ r.scheme = scheme}
    IN  Guarded(id, TRUE, IF hit = {} THEN Fail(ErrNotFound)
                          ELSE Val({<<r.uname, r.lvl, r.secret>> : r \in hit}))

TenantAuthGetUniqueRecord(d, id, unique) ==
    Guarded(id, TRUE, Val({<<r.user, r.lvl, r.secret>> :
        r \in {x \in Rows(d, "auth", id) : x.uname = unique}}))

TenantUserGet(d, id, u) ==
    Guarded(id, u # None, Val({r \in Rows(d, "users", id) : r.id = u /\ r.state # "del"}))
TenantUserGetAll(d, id, us) ==
    Guarded(id, TRUE, Val({r \in Rows(d, "users", id) : r.id \in us /\ r.state # "del"}))

\* Every topic of a live subscription counts one subscriber less.
tenantSubsDelForUser(d, id, u, hard) ==
    LET names == {IF IsChannel(s.topic) THEN ChnToGrp(s.topic) ELSE s.topic :
                      s \in {x \in Rows(d, "subs", id) : x.user = u /\ ~x.gone}}
        cut == Upd(d, "topics", LAMBDA t : t.ten = id /\ t.name \in names,
                   LAMBDA t : [t EXCEPT !.cnt = @ - 1])
    IN  IF hard THEN Del(cut, "subs", LAMBDA s : s.ten = id /\ s.user = u)
        ELSE Upd(cut, "subs", LAMBDA s : s.ten = id /\ s.user = u /\ ~s.gone, Gone)

\* Mutant: the user goes, their credentials stay.
wipeUserKeepingCreds(d, id, u) ==
    LET Of(r) == r.ten = id /\ r.user = u
    IN  Del(Del(tenantSubsDelForUser(d, id, u, TRUE), "auth", Of),
            "users", LAMBDA r : r.ten = id /\ r.id = u)

\* Hard delete: what belongs to the user, the topics they own with everything
\* in them, the user.
wipeUser(d, id, u) ==
    LET own == {t.name : t \in Owned(d, id, u)}
        Of(r) == r.ten = id /\ r.user = u
        In(r) == r.ten = id /\ r.topic \in own
        d1 == Del(d, "devices", Of)
        d2 == Del(tenantSubsDelForUser(d1, id, u, TRUE), "dellog",
                  LAMBDA r : (r.ten = id /\ r.for = u) \/ In(r))
        d3 == Del(Del(d2, "msgs", In), "subs",
                  LAMBDA r : r.ten = id /\ r.topic \in WithChn(own))
        d4 == Del(Del(d3, "topictags", LAMBDA r : r.ten = id /\ r.key \in own),
                  "topics", LAMBDA t : t.ten = id /\ t.owner = u)
        d5 == Del(Del(d4, "auth", Of), "creds", Of)
    IN  Del(Del(d5, "usertags", LAMBDA r : r.ten = id /\ r.key = u),
            "users", LAMBDA r : r.ten = id /\ r.id = u)

\* Soft delete: the user's subscriptions, those to the topics they own, those
\* of the p2p topics they share, the topics, the user.
disableUser(d, id, u) ==
    LET own == {t.name : t \in {x \in Owned(d, id, u) : x.state # "del"}}
        p2p == {s.topic : s \in {x \in Rows(d, "subs", id) :
                                     x.user = u /\ Prefix(x.topic) = "p2p"}}
        d1 == Upd(tenantSubsDelForUser(d, id, u, FALSE), "subs",
                  LAMBDA s : s.ten = id /\ s.topic \in WithChn(own) \cup p2p, Gone)
        d2 == Upd(d1, "topics",
                  LAMBDA t : /\ t.ten = id
                             /\ t.owner = u \/ (t.owner = None /\ t.name \in p2p),
                  LAMBDA t : [t EXCEPT !.state = "del"])
    IN  Upd(d2, "users", LAMBDA r : r.ten = id /\ r.id = u,
            LAMBDA r : [r EXCEPT !.state = "del"])

TenantUserDelete(d, id, u, hard) ==
    Guarded(id, u # None, Done(IF hard THEN wipeUser(d, id, u) ELSE disableUser(d, id, u)))

\* Topics owned by the user, and those without owner the user ever subscribed to.
tenantTopicStateForUser(d, id, u, state) ==
    Upd(d, "topics",
        LAMBDA t : /\ t.ten = id /\ t.state # "del"
                   /\ \/ t.owner = u
                      \/ /\ t.owner = None
                         /\ \E s \in Rows(d, "subs", id) : s.user = u /\ s.topic = t.name,
        LAMBDA t : [t EXCEPT !.state = state])

TenantUserUpdate(d, id, u, upd) ==
    LET Hit(r) == r.ten = id /\ r.id = u
        d1 == Upd(d, "users", Hit, LAMBDA r : Set(r, upd))
        d2 == IF "state" \in DOMAIN upd THEN tenantTopicStateForUser(d1, id, u, upd.state)
              ELSE d1
    IN  Guarded(id, u # None,
            IF ~\E r \in d.users : Hit(r) THEN FailOpen(ErrNotFound)
            ELSE Done(IF "tags" \in DOMAIN upd
                      THEN replaceTags(d2, id, "usertags", u, upd.tags) ELSE d2))

\* reset is <<>> for nil, <<tags>> otherwise.
TenantUserUpdateTags(d, id, u, add, remove, reset) ==
    LET d1 == IF reset = <<>>
              THEN Del(addTenantTags(d, id, "usertags", u, add), "usertags",
                       LAMBDA r : r.ten = id /\ r.key = u /\ r.tag \in remove)
              ELSE replaceTags(d, id, "usertags", u, reset[1])
        all == {r.tag : r \in {x \in Rows(d1, "usertags", id) : x.key = u}}
    IN  Guarded(id, u # None,
            Ret(all, Done(Upd(d1, "users", LAMBDA r : r.ten = id /\ r.id = u,
                              LAMBDA r : [r EXCEPT !.tags = all]))))

TenantUserGetByCred(d, id, method, value) ==
    Guarded(id, TRUE, Val({r.user : r \in {x \in Rows(d, "creds", id) :
                                               x.key = <<method, value>>}}))

readable(s) == ~s.gone /\ "R" \in s.want /\ "R" \in s.given
TenantUserUnreadCount(d, id, us) ==
    LET Live(n) == {t \in Rows(d, "topics", id) : t.name = n /\ t.state # "del"}
        Unread(u) == {s \in Rows(d, "subs", id) :
                          s.user = u /\ readable(s) /\ Live(s.topic) # {}}
        SeqId(n) == (CHOOSE t \in Live(n) : TRUE).seq
    IN  Guarded(id, TRUE, Val({<<u, MapThenSumSet(LAMBDA s : SeqId(s.topic) - s.read,
                                                  Unread(u))>> : u \in us}))

TenantUserGetUnvalidated(d, id) ==
    Guarded(id, TRUE, Val({u.id : u \in {x \in Rows(d, "users", id) :
        ~x.seen /\ ~\E c \in Rows(d, "creds", id) : c.user = x.id /\ c.done}}))

-----------------------------------------------------------------------------
(* Credentials: "method:value" once confirmed, "user:method:value" before. *)

TenantCredUpsert(d, id, c) ==
    LET confirmed == <<c.method, c.value>>
        pending == <<c.user, c.method, c.value>>
        soft == Upd(d, "creds", LAMBDA r : /\ r.ten = id /\ r.user = c.user
                                           /\ r.method = c.method /\ ~r.done, Gone)
        again == Upd(soft, "creds", LAMBDA r : r.ten = id /\ r.key = pending,
                     LAMBDA r : [r EXCEPT !.gone = FALSE, !.resp = c.resp, !.done = FALSE])
        Has(k) == \E r \in Rows(d, "creds", id) : r.key = k
        Row(k) == {[ten |-> id, key |-> k, method |-> c.method, value |-> c.value,
                    user |-> c.user, resp |-> c.resp, done |-> c.done, retries |-> 0,
                    gone |-> FALSE]}
    IN  Guarded(id, TRUE,
            CASE Has(confirmed) ->
                     Ret({c.done}, IF c.done THEN Fail(ErrDuplicate) ELSE FailOpen(ErrDuplicate))
              [] ~Has(confirmed) /\ c.done ->
                     Ret({TRUE}, Done(Ins(Del(d, "creds", LAMBDA r : r.ten = id /\ r.key = pending),
                                          "creds", Row(confirmed))))
              [] ~Has(confirmed) /\ ~c.done /\ Has(pending) -> Ret({FALSE}, Done(again))
              [] OTHER -> Ret({TRUE}, Done(Ins(soft, "creds", Row(pending)))))

credHit(r, u, method, value) ==
    /\ r.user = u
    /\ method # None => r.method = method /\ (value # None => r.value = value)

\* Validated or never tried: removed.  Otherwise marked, to keep the attempts.
tenantCredDel(d, id, u, method, value) ==
    LET Hit(r) == r.ten = id /\ credHit(r, u, method, value)
        Now(r) == Hit(r) /\ (method = None \/ r.done \/ r.retries = 0)
    IN  CASE \E r \in d.creds : Now(r) -> Done(Del(d, "creds", Now))
          [] ~\E r \in d.creds : Hit(r) -> Fail(ErrNotFound)
          [] OTHER -> Done(Upd(d, "creds", Hit, Gone))
TenantCredDel(d, id, u, method, value) ==
    Guarded(id, TRUE, tenantCredDel(d, id, u, method, value))

active(r, u, method) == r.user = u /\ r.method = method /\ ~r.done /\ ~r.gone

TenantCredConfirm(d, id, u, method) ==
    LET Hit(r) == r.ten = id /\ active(r, u, method)
    IN  Guarded(id, TRUE,
            CASE ~\E r \in d.creds : Hit(r) -> Fail(ErrNotFound)
              [] \E r \in d.creds : /\ Hit(r)
                                    /\ \E x \in Rows(d, "creds", id) : x.key = <<method, r.value>>
                 -> Fail(ErrDuplicate)
              [] OTHER -> Done(Upd(d, "creds", Hit, LAMBDA r :
                              [r EXCEPT !.done = TRUE, !.key = <<method, r.value>>])))

TenantCredFail(d, id, u, method) ==
    Guarded(id, TRUE, Done(Upd(d, "creds",
        LAMBDA r : r.ten = id /\ r.user = u /\ r.method = method /\ ~r.done,
        LAMBDA r : [r EXCEPT !.retries = @ + 1])))

credShown(r) == <<r.method, r.value, r.resp, r.done, r.retries>>
TenantCredGetActive(d, id, u, method) ==
    Guarded(id, TRUE, Val({credShown(r) :
        r \in {x \in Rows(d, "creds", id) : active(x, u, method)}}))
TenantCredGetAll(d, id, u, method, validatedOnly) ==
    Guarded(id, TRUE, Val({credShown(r) : r \in {x \in Rows(d, "creds", id) :
        credHit(x, u, method, None) /\ ~x.gone /\ (validatedOnly => x.done)}}))

-----------------------------------------------------------------------------
(* Devices. *)

TenantDeviceUpsert(d, id, u, dev) ==
    Guarded(id, dev.ten = id /\ u # None,
        Done(Ins(Del(d, "devices", LAMBDA r : r.ten = id /\ r.hash = dev.hash),
                 "devices", {[ten |-> id, hash |-> dev.hash, user |-> u]})))

TenantDeviceDelete(d, id, u, hash) ==
    LET Hit(r) == r.ten = id /\ r.user = u /\ (hash # None => r.hash = hash)
    IN  Guarded(id, u # None, IF \E r \in d.devices : Hit(r) THEN Done(Del(d, "devices", Hit))
                              ELSE Fail(ErrNotFound))

TenantDeviceGetAll(d, id, us) ==
    LET hit == {r \in Rows(d, "devices", id) : r.user \in us}
    IN  Guarded(id, TRUE, Val({<<{<<r.user, r.hash>> : r \in hit}, Cardinality(hit)>>}))

-----------------------------------------------------------------------------
(* Topics and subscriptions. *)

tenantTopicCreate(d, t) ==
    addTenantTags(Ins(d, "topics", {t}), t.ten, "topictags", t.name, t.tags)
TenantTopicCreate(d, id, t) ==
    Guarded(id, t.ten = id,
        IF t.name \in {x.name : x \in Rows(d, "topics", id)} THEN Fail(ErrStore)
        ELSE Done(tenantTopicCreate(d, t)))

newSub(s) ==
    [ten |-> s.ten, topic |-> s.topic, user |-> s.user, gone |-> FALSE, del |-> 0,
     recv |-> 0, read |-> 0, want |-> s.want, given |-> s.given, val |-> s.val]

\* An earlier subscription is brought back from zero; undelete keeps its private.
createSubscription(d, s, undelete) ==
    LET Hit(r) == r.ten = s.ten /\ r.topic = s.topic /\ r.user = s.user
        d1 == IF \E r \in d.subs : Hit(r)
              THEN Upd(d, "subs", Hit, LAMBDA r :
                       [newSub(s) EXCEPT !.val = IF undelete THEN r.val ELSE @])
              ELSE Ins(d, "subs", {newSub(s)})
    IN  IF "O" \in s.want \cap s.given
        THEN Upd(d1, "topics", LAMBDA t : t.ten = s.ten /\ t.name = s.topic,
                 LAMBDA t : [t EXCEPT !.owner = s.user])
        ELSE d1

newTopic(id, n) ==
    [ten |-> id, name |-> n, state |-> "ok", owner |-> None, bt |-> FALSE, seq |-> 0,
     del |-> 0, cnt |-> 0, tags |-> {}, val |-> None]

TenantTopicCreateP2P(d, id, one, two) ==
    LET subs == createSubscription(createSubscription(d, one, FALSE), two, TRUE)
    IN  Guarded(id, one.ten = id /\ two.ten = id,
            IF one.topic \in {x.name : x \in Rows(d, "topics", id)} THEN Fail(ErrStore)
            ELSE Done(tenantTopicCreate(subs, newTopic(id, one.topic))))

subscribers(d, id, n) ==
    Cardinality({s \in Rows(d, "subs", id) : s.topic \in {n, GrpToChn(n)} /\ ~s.gone})
tenantRecount(d, id, n) ==
    Upd(d, "topics", LAMBDA t : t.ten = id /\ t.name = n,
        LAMBDA t : [t EXCEPT !.cnt = subscribers(d, id, n)])
TenantTopicUpdateSubCnt(d, id, n) ==
    Guarded(id, n # NoTopic, Done(tenantRecount(d, id, n)))

\* Reading a group topic corrects the number of its subscribers.
TenantTopicGet(d, id, n) ==
    LET d1 == IF TopicCat(n) = "grp" THEN tenantRecount(d, id, n) ELSE d
        t == {x \in Rows(d1, "topics", id) : x.name = n}
    IN  Guarded(id, n # NoTopic, IF d1 = d THEN Val(t) ELSE Ret(t, Done(d1)))

\* Contacts: subscriptions with what their topic or, in p2p, the other user adds.
TenantTopicsForUser(d, id, u, keepDeleted) ==
    LET mine == {s \in Rows(d, "subs", id) : /\ s.user = u /\ (keepDeleted \/ ~s.gone)
                                             /\ TopicCat(s.topic) \notin {"me", "fnd"}}
        Key(s) == IF TopicCat(s.topic) = "grp" THEN ChnToGrp(s.topic) ELSE s.topic
        Topic(s) == {t \in Rows(d, "topics", id) :
                         t.name = Key(s) /\ (keepDeleted \/ t.state # "del")}
        Peer(s) == {p \in Rows(d, "users", id) :
                        /\ Prefix(s.topic) = "p2p" /\ p.id = P2PPeer(s.topic, u)
                        /\ keepDeleted \/ p.state # "del"}
        About(s) == [s |-> s, seq |-> {t.seq : t \in Topic(s)},
                     state |-> IF Peer(s) # {} THEN {p.state : p \in Peer(s)}
                               ELSE {t.state : t \in Topic(s)},
                     public |-> IF TopicCat(s.topic) = "grp" THEN {t.val : t \in Topic(s)}
                                ELSE {p.val : p \in Peer(s)},
                     cnt |-> IF TopicCat(s.topic) = "grp" THEN {t.cnt : t \in Topic(s)} ELSE {}]
    IN  Guarded(id, u # None, Val({About(s) : s \in ByGroup(mine)}))

\* Subscribers with their public values; in p2p each gets the other's.
TenantUsersForTopic(d, id, n, keepDeleted, oneUser) ==
    LET p2p == Prefix(n) = "p2p"
        User(s) == {u \in Rows(d, "users", id) :
                        u.id = s.user /\ (keepDeleted \/ u.state # "del")}
        rows == {s \in Rows(d, "subs", id) : /\ s.topic = n /\ User(s) # {}
                                             /\ keepDeleted \/ p2p \/ ~s.gone
                                             /\ oneUser # None /\ ~p2p => s.user = oneUser}
        Public(s) == UNION {{u.val : u \in User(x)} : x \in IF p2p THEN rows \ {s} ELSE {s}}
    IN  Guarded(id, n # NoTopic,
            Val({[s |-> s, public |-> Public(s)] : s \in {x \in rows :
                (keepDeleted \/ ~x.gone) /\ (oneUser # None => x.user = oneUser)}}))

TenantOwnTopics(d, id, u) ==
    Guarded(id, u # None, Val({t.name : t \in {x \in Owned(d, id, u) : x.state # "del"}}))
TenantChannelsForUser(d, id, u) ==
    Guarded(id, u # None, Val({s.topic : s \in {x \in Rows(d, "subs", id) :
        x.user = u /\ IsChannel(x.topic) /\ ~x.gone /\ "P" \in x.want \cap x.given}}))

TenantTopicShare(d, id, n, shares) ==
    LET Add(s, x) == createSubscription(x, s, TRUE)
        d1 == FoldSet(Add, d, shares)
    IN  Guarded(id, \A s \in shares : s.ten = id,
            Done(IF n = NoTopic THEN d1
                 ELSE Upd(d1, "topics", LAMBDA t : t.ten = id /\ t.name = n,
                          LAMBDA t : [t EXCEPT !.cnt = @ + Cardinality(shares)])))

messagesOf(d, id, n) ==
    Del(Del(d, "dellog", LAMBDA r : r.ten = id /\ r.topic = n),
        "msgs", LAMBDA r : r.ten = id /\ r.topic = n)

TenantTopicDelete(d, id, n, isChan, hard) ==
    LET names == {n} \cup (IF isChan THEN {GrpToChn(n)} ELSE {})
        d1 == messagesOf(Del(d, "subs", LAMBDA s : s.ten = id /\ s.topic \in names), id, n)
        d2 == Del(d1, "topictags", LAMBDA r : r.ten = id /\ r.key = n)
        soft == Upd(d, "subs", LAMBDA s : s.ten = id /\ s.topic \in names, Gone)
        Hit(t) == t.ten = id /\ t.name = n
    IN  Guarded(id, n # NoTopic,
            Done(IF hard THEN Del(d2, "topics", Hit)
                 ELSE Upd(soft, "topics", Hit, LAMBDA t : [t EXCEPT !.state = "del"])))

TenantTopicUpdateOnMessage(d, id, n, m) ==
    Guarded(id, m.ten = id, Done(Upd(d, "topics", LAMBDA t : t.ten = id /\ t.name = n,
                                     LAMBDA t : [t EXCEPT !.seq = m.seq])))

TenantTopicUpdate(d, id, n, upd) ==
    LET Hit(t) == t.ten = id /\ t.name = n
        d1 == Upd(d, "topics", Hit, LAMBDA t : Set(t, upd))
    IN  Guarded(id, n # NoTopic,
            IF ~\E t \in d.topics : Hit(t) THEN FailOpen(ErrNotFound)
            ELSE Done(IF "tags" \in DOMAIN upd
                      THEN replaceTags(d1, id, "topictags", n, upd.tags) ELSE d1))

TenantTopicOwnerChange(d, id, n, u) ==
    Guarded(id, n # NoTopic, Done(Upd(d, "topics", LAMBDA t : t.ten = id /\ t.name = n,
                                      LAMBDA t : [t EXCEPT !.owner = u])))

TenantSubscriptionGet(d, id, n, u, keepDeleted) ==
    Guarded(id, n # NoTopic /\ u # None,
        Val({s \in Rows(d, "subs", id) : s.topic = n /\ s.user = u /\ (keepDeleted \/ ~s.gone)}))
TenantSubsForUser(d, id, u) ==
    Guarded(id, u # None, Val({Plain(s, {"val"}) :
        s \in {x \in Rows(d, "subs", id) : x.user = u /\ ~x.gone}}))
TenantSubsForTopic(d, id, n, keepDeleted, oneUser) ==
    Guarded(id, n # NoTopic, Val({s \in Rows(d, "subs", id) :
        s.topic = n /\ (keepDeleted \/ ~s.gone) /\ (oneUser # None => s.user = oneUser)}))

\* Mutant: the subscribers of topics with that name, in every tenant.
TenantSubsUpdateAll(d, id, n, u, upd) ==
    Guarded(id, n # NoTopic, Done(Upd(d, "subs",
        LAMBDA s : s.topic = n /\ (u # None => s.user = u),
        LAMBDA s : Set(s, upd))))
TenantSubsUpdate(d, id, n, u, upd) ==
    Guarded(id, n # NoTopic, Done(Upd(d, "subs",
        LAMBDA s : s.ten = id /\ s.topic = n /\ (u # None => s.user = u),
        LAMBDA s : Set(s, upd))))

\* Mutant: a subscriber less, and the topic still counts them.
TenantSubsDeleteUncounted(d, id, n, u) ==
    LET Hit(s) == s.ten = id /\ s.topic = n /\ s.user = u /\ ~s.gone
    IN  Guarded(id, n # NoTopic /\ u # None,
            IF ~\E s \in d.subs : Hit(s) THEN FailOpen(ErrNotFound)
            ELSE Done(Del(Upd(d, "subs", Hit, Gone), "dellog",
                          LAMBDA r : r.ten = id /\ r.topic = n /\ r.for = u)))
TenantSubsDelete(d, id, n, u) ==
    LET Hit(s) == s.ten = id /\ s.topic = n /\ s.user = u /\ ~s.gone
        d1 == Upd(d, "subs", Hit, Gone)
        d2 == IF IsChannel(n) THEN d1
              ELSE Del(d1, "dellog", LAMBDA r : r.ten = id /\ r.topic = n /\ r.for = u)
    IN  Guarded(id, n # NoTopic /\ u # None,
            IF ~\E s \in d.subs : Hit(s) THEN FailOpen(ErrNotFound)
            ELSE Done(IF TopicCat(n) # "grp" THEN d2
                      ELSE Upd(d2, "topics", LAMBDA t : t.ten = id /\ t.name = ChnToGrp(n),
                               LAMBDA t : [t EXCEPT !.cnt = @ - 1])))

\* Some tag looked for, and one of each disjunction required.
matched(tags, req, opt) ==
    /\ tags \cap (UNION req \cup opt) # {}
    /\ \A q \in req : q # {} => tags \cap q # {}

TenantFind(d, id, caller, req, opt, activeOnly) ==
    LET all == UNION req \cup opt
        Tags(t, k) == {r.tag : r \in {x \in Rows(d, t, id) : x.key = k}}
        Fits(t, k, state) == matched(Tags(t, k), req, opt) /\ (activeOnly => state = "ok")
    IN  Guarded(id, TRUE,
            Val({<<<<"usr", u.id>>, 0, u.tags \cap all>> : u \in {x \in Rows(d, "users", id) :
                      Fits("usertags", x.id, x.state) /\ x.id # caller}}
                \cup {<<IF t.bt THEN GrpToChn(t.name) ELSE t.name, t.cnt, t.tags \cap all>> :
                      t \in {x \in Rows(d, "topics", id) : Fits("topictags", x.name, x.state)}}))

\* Topics come before users.
TenantFindOne(d, id, tag) ==
    LET Keys(t) == {r.key : r \in {x \in Rows(d, t, id) : x.tag = tag}}
        topics == {t.name : t \in {x \in Rows(d, "topics", id) : x.name \in Keys("topictags")}}
        users == {<<"usr", u.id>> : u \in {x \in Rows(d, "users", id) : x.id \in Keys("usertags")}}
    IN  Guarded(id, tag # None, Val(Limit(IF topics # {} THEN topics ELSE users, 1)))

-----------------------------------------------------------------------------
(* Messages. *)

TenantMessageSave(d, id, m) ==
    Guarded(id, m.ten = id,
        IF \E r \in Rows(d, "msgs", id) : r.topic = m.topic /\ r.seq = m.seq
        THEN Fail(ErrStore) ELSE Done(Ins(d, "msgs", {m})))

\* A window [since, before) of numbers, open where a bound is not given.
within(i, since, before) == i >= since /\ (before > 1 => i < before)

TenantMessageGetAll(d, id, n, u, q, ranges) ==
    LET hidden == {<<r.low, r.hi>> : r \in {x \in Rows(d, "dellog", id) :
                                                x.topic = n /\ x.for = u}}
        Asked(i) == IF ranges # {} THEN InRanges(i, ranges) ELSE within(i, q[1], q[2])
    IN  Guarded(id, n # NoTopic, Val({<<m.seq, m.from>> : m \in {x \in Rows(d, "msgs", id) :
            x.topic = n /\ x.del = 0 /\ Asked(x.seq) /\ ~InRanges(x.seq, hidden)}}))

shownHi(r) == IF r.hi <= r.low + 1 THEN 0 ELSE r.hi
TenantMessageGetDeleted(d, id, n, u, q) ==
    Guarded(id, n # NoTopic, Val({<<r.delid, r.low, shownHi(r)>> : r \in {
        x \in Rows(d, "dellog", id) :
            x.topic = n /\ x.for \in {None, u} /\ within(x.delid, q[1], q[2])}}))

logEntries(id, n, del, ranges) ==
    {[ten |-> id, topic |-> n, for |-> del.for, delid |-> del.delid, low |-> r[1],
      hi |-> IF r[2] = 0 THEN r[1] + 1 ELSE r[2]] : r \in ranges}

\* The links of the messages go, their content is cleared.
clearMessages(d, id, n, delid, seqs) ==
    LET d1 == Del(d, "links", LAMBDA l : /\ l.ten = id
                                         /\ \E q \in seqs : l.target = <<"msg", n, q>>)
    IN  Upd(d1, "msgs", LAMBDA m : m.ten = id /\ m.topic = n /\ m.seq \in seqs,
            LAMBDA m : [m EXCEPT !.del = delid, !.from = None])

\* dels is <<>> for the whole topic, else <<what to delete>>.  A hard deletion
\* logs the ranges it found.
tenantMessageDeleteList(d, id, n, dels) ==
    LET del == dels[1]
        seqs == {m.seq : m \in {x \in Rows(d, "msgs", id) :
                     x.topic = n /\ x.del = 0 /\ (del.ranges # {} => InRanges(x.seq, del.ranges))}}
    IN  IF dels = <<>> THEN messagesOf(d, id, n)
        ELSE IF del.for # None
        THEN Ins(d, "dellog", logEntries(id, n, del, del.ranges))
        ELSE IF seqs = {} THEN d
        ELSE Ins(clearMessages(d, id, n, del.delid, seqs), "dellog",
                 logEntries(id, n, del, SliceToRanges(seqs)))
TenantMessageDeleteList(d, id, n, dels) ==
    Guarded(id, n # NoTopic /\ (dels # <<>> => dels[1].ten = id),
        Done(tenantMessageDeleteList(d, id, n, dels)))

-----------------------------------------------------------------------------
(* Files, and the links from messages, topics and users to them. *)

\* The primary key of fileuploads is the id alone.
TenantFileStartUpload(d, id, f) ==
    Guarded(id, f.ten = id, IF \E r \in d.files : r.id = f.id THEN Fail(ErrStore)
                            ELSE Done(Ins(d, "files", {f})))

TenantFileFinishUpload(d, id, f, success) ==
    LET Hit(r) == r.ten = id /\ r.id = f.id
    IN  Guarded(id, f.ten = id, Ret({success}, Done(IF success
            THEN Upd(d, "files", Hit, LAMBDA r : [r EXCEPT !.status = "done", !.old = FALSE,
                                                        !.loc = f.loc])
            ELSE Del(d, "files", Hit))))

TenantFileGet(d, id, fid) ==
    Guarded(id, fid # None, Val({f \in Rows(d, "files", id) : f.id = fid}))

\* Mutant: files of any age.
unusedFilesYoung(d, id, olderThan, limit) ==
    Limit({f \in Rows(d, "files", id) : ~\E l \in Rows(d, "links", id) : l.file = f.id}, limit)
\* Mutant: files that are linked, too.
unusedFilesLinked(d, id, olderThan, limit) ==
    Limit({f \in Rows(d, "files", id) : olderThan => f.old}, limit)
\* The SELECT of TenantFileDeleteUnused, which locks nothing.
unusedFiles(d, id, olderThan, limit) ==
    Limit({f \in Rows(d, "files", id) :
               (olderThan => f.old) /\ ~\E l \in Rows(d, "links", id) : l.file = f.id}, limit)
\* Its DELETE, of the rows that were found, by their identifiers: whether one is
\* linked by now is not asked, and no key of the table of links objects.  Returns
\* where the contents are: an upload that was not finished has no loc.
deleteFiles(d, id, found) ==
    Guarded(id, TRUE, Ret({f.loc : f \in found} \ {None},
        Done(Del(d, "files", LAMBDA f : f.ten = id /\ f.id \in {x.id : x \in found}))))
TenantFileDeleteUnused(d, id, olderThan, limit) ==
    deleteFiles(d, id, unusedFiles(d, id, olderThan, limit))

\* A target is <<"msg", topic, seq>>, <<"topic", name>> or <<"user", id>>; a topic
\* and a user keep the first of the files, in place of the one they had.
TenantFileLinkAttachments(d, id, target, fids) ==
    LET msg == target[1] = "msg"
        kept == IF msg THEN d ELSE Del(d, "links", LAMBDA l : l.ten = id /\ l.target = target)
    IN  Guarded(id, fids # <<>> /\ target # NoTopic,
            Done(Ins(kept, "links", {[ten |-> id, file |-> f, target |-> target] :
                                         f \in IF msg THEN ToSet(fids) ELSE {fids[1]}})))

-----------------------------------------------------------------------------
(* Persistent cache.  A key is <<prefix, rest>>, scoped by the tenant. *)

Malformed(k) == k = NoTopic \/ k[2] = "%"
tenantCacheKey(id, k) == <<id>> \o k

TenantPCacheGet(d, id, k) ==
    LET hit == {r.val : r \in {x \in d.kv : x.key = tenantCacheKey(id, k)}}
    IN  Guarded(id, ~Malformed(k), IF hit = {} THEN Fail(ErrNotFound) ELSE Val(hit))

TenantPCacheUpsert(d, id, k, v, fail) ==
    LET Hit(r) == r.key = tenantCacheKey(id, k)
    IN  Guarded(id, ~Malformed(k),
            IF fail /\ \E r \in d.kv : Hit(r) THEN Fail(ErrDuplicate)
            ELSE Done(Ins(Del(d, "kv", Hit), "kv",
                          {[key |-> tenantCacheKey(id, k), val |-> v, at |-> "new"]})))

TenantPCacheDelete(d, id, k) ==
    Guarded(id, ~Malformed(k), Done(Del(d, "kv", LAMBDA r : r.key = tenantCacheKey(id, k))))

TenantPCacheExpire(d, id, prefix) ==
    Guarded(id, prefix # None,
        Done(Del(d, "kv", LAMBDA r : r.key[1] = id /\ r.key[2] = prefix /\ r.at = "old")))
====
