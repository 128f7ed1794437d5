---------------------------- MODULE MySQLAdapter ----------------------------
(***************************************************************************)
(* db/mysql/adapter.go: the methods of the MySQL adapter that take no      *)
(* tenant.  One operator per method, named after it, from a database to a  *)
(* result (Tables).  The rows of one tenant are modelled, so the tenant_id *)
(* a row is written with is left out.  Rows:                               *)
(*   users [id, state, tags, val, seen]    usertags, topictags [key, tag]  *)
(*   auth [uname, user, scheme, lvl, secret]    devices [hash, user]       *)
(*   creds [key, method, value, user, resp, done, retries, gone]           *)
(*   topics [name, state, owner, bt, seq, del, cnt, tags, val]             *)
(*   subs [topic, user, gone, del, recv, read, want, given, val]           *)
(*   msgs [topic, seq, from, del]    dellog [topic, for, delid, low, hi]   *)
(*   files [id, status, user, old]   links [file, target]                  *)
(*   kv [key, val, at]                                                     *)
(* val stands for the JSON columns, gone for deletedat, seen for lastseen. *)
(* Timestamps other than those, the order of results and the limit on      *)
(* their number are left out.                                              *)
(***************************************************************************)
EXTENDS Tables

Gone(s) == [s EXCEPT !.gone = TRUE]
Owned(d, u) == {t \in d.topics : t.owner = u}

-----------------------------------------------------------------------------
(* Users and their authentication records. *)

addTags(d, t, key, tags) == Ins(d, t, {[key |-> key, tag |-> g] : g \in tags})
removeTags(d, t, key, tags) == Del(d, t, LAMBDA r : r.key = key /\ r.tag \in tags)
replaceTags(d, t, key, tags) ==
    addTags(Del(d, t, LAMBDA r : r.key = key), t, key, tags)

\* The row has a tenant: ErrMalformed without one is left out.
UserCreate(d, u) ==
    IF u.id \in Ids(d) THEN Fail(ErrStore)
    ELSE Commit(addTags(Ins(d, "users", {u}), "usertags", u.id, u.tags))

\* Both unique keys of the table: uname, and userid with scheme.
AuthAddRecord(d, r) ==
    IF \E x \in d.auth : x.uname = r.uname \/ (x.user = r.user /\ x.scheme = r.scheme)
    THEN Fail(ErrDuplicate) ELSE Commit(Ins(d, "auth", {r}))

AuthDelScheme(d, u, scheme) ==
    Commit(Del(d, "auth", LAMBDA r : r.user = u /\ r.scheme = scheme))

AuthDelAllRecords(d, u) ==
    Ret({Cardinality({r \in d.auth : r.user = u})},
        Commit(Del(d, "auth", LAMBDA r : r.user = u)))

\* Fields left out of an update keep their values.
authSet(r, unique, lvl, secret) ==
    [r EXCEPT !.lvl = lvl, !.uname = IF unique = None THEN @ ELSE unique,
              !.secret = IF secret = None THEN @ ELSE secret]

\* MySQL reports the rows a statement changed, not those it found.
AuthUpdRecord(d, u, scheme, unique, lvl, secret) ==
    LET Hit(r) == r.user = u /\ r.scheme = scheme
        F(r) == authSet(r, unique, lvl, secret)
    IN  IF \E r \in d.auth : Hit(r) /\ \E x \in d.auth \ {r} : x.uname = F(r).uname
        THEN Fail(ErrDuplicate)
        ELSE IF \A r \in d.auth : Hit(r) => F(r) = r
        THEN Fail(ErrNotFound)
        ELSE Commit(Upd(d, "auth", Hit, F))

AuthGetRecord(d, u, scheme) ==
    LET hit == {r \in d.auth : r.user = u /\ r.scheme = scheme}
    IN  IF hit = {} THEN Fail(ErrNotFound)
        ELSE Val({<<r.uname, r.lvl, r.secret>> : r \in hit})

AuthGetUniqueRecord(d, unique) ==
    Val({<<r.user, r.lvl, r.secret>> : r \in {x \in d.auth : x.uname = unique}})

UserGet(d, u) == Val({r \in d.users : r.id = u /\ r.state # "del"})
UserGetAll(d, us) == Val({r \in d.users : r.id \in us /\ r.state # "del"})

\* Every topic of a live subscription counts one subscriber less.
subsDelForUser(d, u, hard) ==
    LET names == {IF IsChannel(s.topic) THEN ChnToGrp(s.topic) ELSE s.topic :
                      s \in {x \in d.subs : x.user = u /\ ~x.gone}}
        cut == Upd(d, "topics", LAMBDA t : t.name \in names,
                   LAMBDA t : [t EXCEPT !.cnt = @ - 1])
    IN  IF hard THEN Del(cut, "subs", LAMBDA s : s.user = u)
        ELSE Upd(cut, "subs", LAMBDA s : s.user = u /\ ~s.gone, Gone)
SubsDelForUser(d, u, hard) == Commit(subsDelForUser(d, u, hard))

\* A user of whom nothing is left: the tables a hard delete clears last.
wipeUser(d, u) ==
    LET d1 == Del(d, "devices", LAMBDA r : r.user = u)
        d2 == Del(subsDelForUser(d1, u, TRUE), "dellog", LAMBDA r : r.for = u)
        d3 == Del(Del(d2, "auth", LAMBDA r : r.user = u),
                  "creds", LAMBDA r : r.user = u)
        d4 == Del(d3, "usertags", LAMBDA r : r.key = u)
    IN  Tx(<<d1, d2, d3, d4, Del(d4, "users", LAMBDA r : r.id = u)>>)

\* Soft delete: the user's subscriptions, those to the topics they own, those
\* of the p2p topics they share, the topics, the user.
disableUser(d, u) ==
    LET own == {t.name : t \in {x \in Owned(d, u) : x.state # "del"}}
        p2p == {s.topic : s \in {x \in d.subs : x.user = u /\ Prefix(x.topic) = "p2p"}}
        d1 == Upd(subsDelForUser(d, u, FALSE), "subs",
                  LAMBDA s : s.topic \in WithChn(own) \cup p2p, Gone)
        d2 == Upd(d1, "topics",
                  LAMBDA t : t.owner = u \/ (t.owner = None /\ t.name \in p2p),
                  LAMBDA t : [t EXCEPT !.state = "del"])
    IN  Commit(Upd(d2, "users", LAMBDA r : r.id = u,
                   LAMBDA r : [r EXCEPT !.state = "del"]))

\* The list of the names of owned topics is passed to the driver as one
\* argument: the hard delete of a user who owns a topic fails.
UserDelete(d, u, hard) ==
    IF ~hard THEN disableUser(d, u)
    ELSE IF Owned(d, u) # {} THEN Fail(ErrStore) ELSE wipeUser(d, u)

\* Topics owned by the user, and those without owner the user ever subscribed to.
topicStateForUser(d, u, state) ==
    Upd(d, "topics",
        LAMBDA t : /\ t.state # "del"
                   /\ \/ t.owner = u
                      \/ /\ t.owner = None
                         /\ \E s \in d.subs : s.user = u /\ s.topic = t.name,
        LAMBDA t : [t EXCEPT !.state = state])

UserUpdate(d, u, upd) ==
    LET d1 == Upd(d, "users", LAMBDA r : r.id = u, LAMBDA r : Set(r, upd))
        d2 == IF "state" \in DOMAIN upd THEN topicStateForUser(d1, u, upd.state) ELSE d1
    IN  Commit(IF "tags" \in DOMAIN upd THEN replaceTags(d2, "usertags", u, upd.tags)
               ELSE d2)

\* reset is <<>> for nil, <<tags>> otherwise.
UserUpdateTags(d, u, add, remove, reset) ==
    LET d1 == IF reset = <<>>
              THEN removeTags(addTags(d, "usertags", u, add), "usertags", u, remove)
              ELSE replaceTags(d, "usertags", u, reset[1])
        all == {r.tag : r \in {x \in d1.usertags : x.key = u}}
        r == Commit(Upd(d1, "users", LAMBDA x : x.id = u,
                        LAMBDA x : [x EXCEPT !.tags = all]))
    IN  IF r.err = Ok THEN Ret(all, r) ELSE r

UserGetByCred(d, method, value) ==
    Val({r.user : r \in {x \in d.creds : x.key = <<method, value>>}})

readable(s) == ~s.gone /\ "R" \in s.want /\ "R" \in s.given
UserUnreadCount(d, us) ==
    LET Unread(u) == {s \in d.subs : s.user = u /\ readable(s)
                          /\ \E t \in d.topics : t.name = s.topic /\ t.state # "del"}
        SeqId(n) == (CHOOSE t \in d.topics : t.name = n).seq
    IN  Val({<<u, MapThenSumSet(LAMBDA s : SeqId(s.topic) - s.read, Unread(u))>> : u \in us})

UserGetUnvalidated(d) ==
    Val({u.id : u \in {x \in d.users :
            ~x.seen /\ ~\E c \in d.creds : c.user = x.id /\ c.done}})

-----------------------------------------------------------------------------
(* Credentials: "method:value" once confirmed, "user:method:value" before. *)

\* ret is TRUE if a record was added.
CredUpsert(d, c) ==
    LET confirmed == <<c.method, c.value>>
        pending == <<c.user, c.method, c.value>>
        soft == Upd(d, "creds",
                    LAMBDA r : r.user = c.user /\ r.method = c.method /\ ~r.done, Gone)
        again == Upd(soft, "creds", LAMBDA r : r.key = pending,
                     LAMBDA r : [r EXCEPT !.gone = FALSE, !.resp = c.resp, !.done = FALSE])
        Has(k) == \E r \in d.creds : r.key = k
        Row(k) == {[key |-> k, method |-> c.method, value |-> c.value, user |-> c.user,
                    resp |-> c.resp, done |-> c.done, retries |-> 0, gone |-> FALSE]}
    IN  CASE Has(confirmed) -> [Fail(ErrDuplicate) EXCEPT !.ret = {c.done}]
          [] ~Has(confirmed) /\ c.done ->
                 Ret({TRUE}, Commit(Ins(Del(d, "creds", LAMBDA r : r.key = pending),
                                        "creds", Row(confirmed))))
          [] ~Has(confirmed) /\ ~c.done /\ Has(pending) -> Ret({FALSE}, Commit(again))
          [] OTHER -> Ret({TRUE}, Commit(Ins(soft, "creds", Row(pending))))

credHit(r, u, method, value) ==
    /\ r.user = u
    /\ method # None => r.method = method /\ (value # None => r.value = value)

\* The last test, count >= 0, holds of every count: when nothing was removed the
\* soft delete is undone and ErrNotFound returned.
CredDel(d, u, method, value) ==
    LET Hit(r) == credHit(r, u, method, value)
        Now(r) == Hit(r) /\ (method = None \/ r.done \/ r.retries = 0)
    IN  IF \E r \in d.creds : Now(r) THEN Commit(Del(d, "creds", Now))
        ELSE Fail(ErrNotFound)

active(r, u, method) == r.user = u /\ r.method = method /\ ~r.done /\ ~r.gone

CredConfirm(d, u, method) ==
    LET Hit(r) == active(r, u, method)
    IN  IF ~\E r \in d.creds : Hit(r) THEN Fail(ErrNotFound)
        ELSE IF \E r \in d.creds : Hit(r) /\ \E x \in d.creds : x.key = <<method, r.value>>
        THEN Fail(ErrDuplicate)
        ELSE Commit(Upd(d, "creds", Hit,
                        LAMBDA r : [r EXCEPT !.done = TRUE, !.key = <<method, r.value>>]))

CredFail(d, u, method) ==
    Commit(Upd(d, "creds", LAMBDA r : r.user = u /\ r.method = method /\ ~r.done,
               LAMBDA r : [r EXCEPT !.retries = @ + 1]))

credShown(r) == <<r.method, r.value, r.resp, r.done, r.retries>>
CredGetActive(d, u, method) ==
    Val({credShown(r) : r \in {x \in d.creds : active(x, u, method)}})
CredGetAll(d, u, method, validatedOnly) ==
    Val({credShown(r) : r \in {x \in d.creds :
            credHit(x, u, method, None) /\ ~x.gone /\ (validatedOnly => x.done)}})

-----------------------------------------------------------------------------
(* Devices. *)

DeviceUpsert(d, u, hash) ==
    Commit(Ins(Del(d, "devices", LAMBDA r : r.hash = hash),
               "devices", {[hash |-> hash, user |-> u]}))

DeviceDelete(d, u, hash) ==
    LET Hit(r) == r.user = u /\ (hash # None => r.hash = hash)
    IN  IF \E r \in d.devices : Hit(r) THEN Commit(Del(d, "devices", Hit))
        ELSE Fail(ErrNotFound)

\* The devices by user, and their number.
DeviceGetAll(d, us) ==
    LET hit == {r \in d.devices : r.user \in us}
    IN  Val({<<{<<r.user, r.hash>> : r \in hit}, Cardinality(hit)>>})

-----------------------------------------------------------------------------
(* Topics and subscriptions. *)

topicCreate(d, t) == addTags(Ins(d, "topics", {t}), "topictags", t.name, t.tags)
TopicCreate(d, t) ==
    IF t.name \in Names(d) THEN Fail(ErrStore) ELSE Commit(topicCreate(d, t))

newSub(s) ==
    [topic |-> s.topic, user |-> s.user, gone |-> FALSE, del |-> 0, recv |-> 0,
     read |-> 0, want |-> s.want, given |-> s.given, val |-> s.val]

\* An earlier subscription is brought back from zero; undelete keeps its private.
createSubscription(d, s, undelete) ==
    LET Hit(r) == r.topic = s.topic /\ r.user = s.user
        d1 == IF \E r \in d.subs : Hit(r)
              THEN Upd(d, "subs", Hit, LAMBDA r :
                       [newSub(s) EXCEPT !.val = IF undelete THEN r.val ELSE @])
              ELSE Ins(d, "subs", {newSub(s)})
    IN  IF "O" \in s.want \cap s.given
        THEN Upd(d1, "topics", LAMBDA t : t.name = s.topic,
                 LAMBDA t : [t EXCEPT !.owner = s.user])
        ELSE d1

newTopic(n) ==
    [name |-> n, state |-> "ok", owner |-> None, bt |-> FALSE, seq |-> 0, del |-> 0,
     cnt |-> 0, tags |-> {}, val |-> None]

TopicCreateP2P(d, initiator, invited) ==
    IF initiator.topic \in Names(d) THEN Fail(ErrStore)
    ELSE Commit(topicCreate(createSubscription(createSubscription(d, initiator, FALSE),
                                               invited, TRUE),
                            newTopic(initiator.topic)))

subscribers(d, n) ==
    Cardinality({s \in d.subs : s.topic \in {n, GrpToChn(n)} /\ ~s.gone})
TopicUpdateSubCnt(d, n) ==
    Done(Upd(d, "topics", LAMBDA t : t.name = n,
             LAMBDA t : [t EXCEPT !.cnt = subscribers(d, n)]))

\* Reading a group topic corrects the number of its subscribers.
TopicGet(d, n) ==
    LET r == TopicUpdateSubCnt(d, n)
        d1 == IF TopicCat(n) = "grp" THEN Final(d, r) ELSE d
        t == {x \in d1.topics : x.name = n}
    IN  IF d1 = d THEN Val(t) ELSE Ret(t, r)

\* Contacts: subscriptions with what their topic or, in p2p, the other user adds.
TopicsForUser(d, u, keepDeleted) ==
    LET mine == {s \in d.subs : /\ s.user = u /\ (keepDeleted \/ ~s.gone)
                                /\ TopicCat(s.topic) \notin {"me", "fnd"}}
        Key(s) == IF TopicCat(s.topic) = "grp" THEN ChnToGrp(s.topic) ELSE s.topic
        Topic(s) == {t \in d.topics : t.name = Key(s) /\ (keepDeleted \/ t.state # "del")}
        Peer(s) == {p \in d.users : /\ Prefix(s.topic) = "p2p" /\ p.id = P2PPeer(s.topic, u)
                                    /\ (keepDeleted \/ p.state # "del")}
        About(s) == [s |-> s, seq |-> {t.seq : t \in Topic(s)},
                     state |-> IF Peer(s) # {} THEN {p.state : p \in Peer(s)}
                               ELSE {t.state : t \in Topic(s)},
                     public |-> IF TopicCat(s.topic) = "grp" THEN {t.val : t \in Topic(s)}
                                ELSE {p.val : p \in Peer(s)},
                     cnt |-> IF TopicCat(s.topic) = "grp" THEN {t.cnt : t \in Topic(s)} ELSE {}]
    IN  Val({About(s) : s \in ByGroup(mine)})

\* Subscribers with their public values; in p2p each gets the other's.
UsersForTopic(d, n, keepDeleted, oneUser) ==
    LET p2p == Prefix(n) = "p2p"
        User(s) == {u \in d.users : u.id = s.user /\ (keepDeleted \/ u.state # "del")}
        rows == {s \in d.subs : /\ s.topic = n /\ User(s) # {}
                                /\ keepDeleted \/ p2p \/ ~s.gone
                                /\ oneUser # None /\ ~p2p => s.user = oneUser}
        Public(s) == UNION {{u.val : u \in User(x)} : x \in IF p2p THEN rows \ {s} ELSE {s}}
    IN  Val({[s |-> s, public |-> Public(s)] : s \in {x \in rows :
                (keepDeleted \/ ~x.gone) /\ (oneUser # None => x.user = oneUser)}})

OwnTopics(d, u) == Val({t.name : t \in {x \in Owned(d, u) : x.state # "del"}})
ChannelsForUser(d, u) ==
    Val({s.topic : s \in {x \in d.subs : /\ x.user = u /\ IsChannel(x.topic) /\ ~x.gone
                                         /\ "P" \in x.want \cap x.given}})

TopicShare(d, n, shares) ==
    LET Add(s, x) == createSubscription(x, s, TRUE)
        d1 == FoldSet(Add, d, shares)
    IN  Commit(IF n = NoTopic THEN d1
               ELSE Upd(d1, "topics", LAMBDA t : t.name = n,
                        LAMBDA t : [t EXCEPT !.cnt = @ + Cardinality(shares)]))

messagesOf(d, n) ==
    Del(Del(d, "dellog", LAMBDA r : r.topic = n), "msgs", LAMBDA r : r.topic = n)

TopicDelete(d, n, isChan, hard) ==
    LET names == {n} \cup (IF isChan THEN {GrpToChn(n)} ELSE {})
        d1 == messagesOf(Del(d, "subs", LAMBDA s : s.topic \in names), n)
        d2 == Del(d1, "topictags", LAMBDA r : r.key = n)
        soft == Upd(d, "subs", LAMBDA s : s.topic \in names, Gone)
    IN  IF hard THEN Tx(<<d1, d2, Del(d2, "topics", LAMBDA t : t.name = n)>>)
        ELSE Commit(Upd(soft, "topics", LAMBDA t : t.name = n,
                        LAMBDA t : [t EXCEPT !.state = "del"]))

TopicUpdateOnMessage(d, n, seq) ==
    Done(Upd(d, "topics", LAMBDA t : t.name = n, LAMBDA t : [t EXCEPT !.seq = seq]))

TopicUpdate(d, n, upd) ==
    LET d1 == Upd(d, "topics", LAMBDA t : t.name = n, LAMBDA t : Set(t, upd))
    IN  Commit(IF "tags" \in DOMAIN upd THEN replaceTags(d1, "topictags", n, upd.tags)
               ELSE d1)

TopicOwnerChange(d, n, u) ==
    Done(Upd(d, "topics", LAMBDA t : t.name = n, LAMBDA t : [t EXCEPT !.owner = u]))

SubscriptionGet(d, n, u, keepDeleted) ==
    Val({s \in d.subs : s.topic = n /\ s.user = u /\ (keepDeleted \/ ~s.gone)})
SubsForUser(d, u) ==
    Val({Plain(s, {"val"}) : s \in {x \in d.subs : x.user = u /\ ~x.gone}})
SubsForTopic(d, n, keepDeleted, oneUser) ==
    Val({s \in d.subs : /\ s.topic = n /\ (keepDeleted \/ ~s.gone)
                        /\ oneUser # None => s.user = oneUser})

SubsUpdate(d, n, u, upd) ==
    Commit(Upd(d, "subs", LAMBDA s : s.topic = n /\ (u # None => s.user = u),
               LAMBDA s : Set(s, upd)))

SubsDelete(d, n, u) ==
    LET Hit(s) == s.topic = n /\ s.user = u /\ ~s.gone
        d1 == Upd(d, "subs", Hit, Gone)
        d2 == IF IsChannel(n) THEN d1
              ELSE Del(d1, "dellog", LAMBDA r : r.topic = n /\ r.for = u)
    IN  IF ~\E s \in d.subs : Hit(s) THEN Fail(ErrNotFound)
        ELSE Commit(IF TopicCat(n) # "grp" THEN d2
                    ELSE Upd(d2, "topics", LAMBDA t : t.name = ChnToGrp(n),
                             LAMBDA t : [t EXCEPT !.cnt = @ - 1]))

\* Some tag looked for, and one of each disjunction required.
matched(tags, req, opt) ==
    /\ tags \cap (UNION req \cup opt) # {}
    /\ \A q \in req : q # {} => tags \cap q # {}

\* An empty search repeats a placeholder -1 times.
Find(d, caller, req, opt, activeOnly) ==
    LET all == UNION req \cup opt
        Tags(t, k) == {r.tag : r \in {x \in d[t] : x.key = k}}
        Fits(t, k, state) == matched(Tags(t, k), req, opt) /\ (activeOnly => state = "ok")
    IN  IF all = {} THEN Fail(Panic)
        ELSE Val({<<<<"usr", u.id>>, 0, u.tags \cap all>> :
                      u \in {x \in d.users : Fits("usertags", x.id, x.state) /\ x.id # caller}}
            \cup {<<IF t.bt THEN GrpToChn(t.name) ELSE t.name, t.cnt, t.tags \cap all>> :
                      t \in {x \in d.topics : Fits("topictags", x.name, x.state)}})

\* Topics come before users.
FindOne(d, tag) ==
    LET topics == {r.key : r \in {x \in d.topictags : x.tag = tag}}
        users == {<<"usr", r.key>> : r \in {x \in d.usertags : x.tag = tag}}
    IN  Val(Limit(IF topics # {} THEN topics ELSE users, 1))

-----------------------------------------------------------------------------
(* Messages. *)

MessageSave(d, m) ==
    IF \E r \in d.msgs : r.topic = m.topic /\ r.seq = m.seq THEN Fail(ErrStore)
    ELSE Commit(Ins(d, "msgs", {m}))

\* A window [since, before) of numbers, open where a bound is not given.
within(i, since, before) == i >= since /\ (before > 1 => i < before)

\* q is <<since, before>>, or the ranges asked for if there are any.
MessageGetAll(d, n, u, q, ranges) ==
    LET hidden == {<<r.low, r.hi>> : r \in {x \in d.dellog : x.topic = n /\ x.for = u}}
        Asked(i) == IF ranges # {} THEN InRanges(i, ranges) ELSE within(i, q[1], q[2])
    IN  Val({<<m.seq, m.from>> : m \in {x \in d.msgs :
                x.topic = n /\ x.del = 0 /\ Asked(x.seq) /\ ~InRanges(x.seq, hidden)}})

shownHi(r) == IF r.hi <= r.low + 1 THEN 0 ELSE r.hi
MessageGetDeleted(d, n, u, q) ==
    Val({<<r.delid, r.low, shownHi(r)>> : r \in {x \in d.dellog :
            x.topic = n /\ x.for \in {None, u} /\ within(x.delid, q[1], q[2])}})

logEntries(n, del, ranges) ==
    {[topic |-> n, for |-> del.for, delid |-> del.delid, low |-> r[1],
      hi |-> IF r[2] = 0 THEN r[1] + 1 ELSE r[2]] : r \in ranges}

\* Numbers of the messages a hard deletion finds.
liveSeqs(d, n, ranges) ==
    {m.seq : m \in {x \in d.msgs : /\ x.topic = n /\ x.del = 0
                                   /\ ranges # {} => InRanges(x.seq, ranges)}}

\* The links of the messages go, their content is cleared.
clearMessages(d, n, delid, seqs) ==
    LET d1 == Del(d, "links", LAMBDA l : \E q \in seqs : l.target = <<"msg", n, q>>)
    IN  Upd(d1, "msgs", LAMBDA m : m.topic = n /\ m.seq \in seqs,
            LAMBDA m : [m EXCEPT !.del = delid, !.from = None])

\* del is <<>> for the whole topic, else <<what to delete>>.  A hard deletion
\* logs the ranges it found.
MessageDeleteList(d, n, dels) ==
    LET del == dels[1]
        seqs == liveSeqs(d, n, del.ranges)
    IN  IF dels = <<>> THEN Commit(messagesOf(d, n))
        ELSE IF del.for # None
        THEN Commit(Ins(d, "dellog", logEntries(n, del, del.ranges)))
        ELSE IF seqs = {} THEN Done(d)
        ELSE Commit(Ins(clearMessages(d, n, del.delid, seqs), "dellog",
                        logEntries(n, del, SliceToRanges(seqs))))

-----------------------------------------------------------------------------
(* Files, and the links from messages, topics and users to them. *)

FileStartUpload(d, f) ==
    IF \E r \in d.files : r.id = f.id THEN Fail(ErrStore) ELSE Done(Ins(d, "files", {f}))

FileFinishUpload(d, id, success) ==
    LET Hit(f) == f.id = id
    IN  Ret({success}, Commit(IF success
            THEN Upd(d, "files", Hit, LAMBDA f : [f EXCEPT !.status = "done", !.old = FALSE,
                                                        !.loc = id])
            ELSE Del(d, "files", Hit)))

FileGet(d, id) == IF id = None THEN Fail(ErrMalformed) ELSE Val({f \in d.files : f.id = id})

\* The places of the contents: an upload that was not finished has none.
located(files) == {f.loc : f \in files}
FileDeleteUnused(d, olderThan, limit) ==
    LET unused == {f \in d.files : /\ olderThan => f.old
                                   /\ ~\E l \in d.links : l.file = f.id}
        drop == Limit(unused, limit)
    IN  Ret(located(drop) \ {None}, Commit(Del(d, "files", LAMBDA f : f \in drop)))

\* A target is <<"msg", topic, seq>>, <<"topic", name>> or <<"user", id>>; a topic
\* and a user keep the first of the files, in place of the one they had.
linked(target, fids) == IF target[1] = "msg" THEN ToSet(fids) ELSE {fids[1]}
FileLinkAttachments(d, target, fids) ==
    IF fids = <<>> \/ target = NoTopic THEN Fail(ErrMalformed)
    ELSE LET kept == IF target[1] = "msg" THEN d
                     ELSE Del(d, "links", LAMBDA l : l.target = target)
             d1 == Ins(kept, "links", {[file |-> f, target |-> target] :
                                           f \in linked(target, fids)})
         IN  IF Cascade(d1) = d1 THEN Commit(d1) ELSE Fail(ErrStore)

-----------------------------------------------------------------------------
(* Persistent cache.  A key is <<prefix, rest>>. *)

PCacheGet(d, k) ==
    LET hit == {r.val : r \in {x \in d.kv : x.key = k}}
    IN  IF hit = {} THEN Fail(ErrNotFound) ELSE Val(hit)

PCacheUpsert(d, k, v, failOnDuplicate) ==
    IF k[2] = "%" THEN Fail(ErrMalformed)
    ELSE IF failOnDuplicate /\ \E r \in d.kv : r.key = k THEN Fail(ErrDuplicate)
    ELSE Done(Ins(Del(d, "kv", LAMBDA r : r.key = k), "kv",
                  {[key |-> k, val |-> v, at |-> "new"]}))

PCacheDelete(d, k) == Done(Del(d, "kv", LAMBDA r : r.key = k))

\* Entries with an earlier timestamp.
PCacheExpire(d, prefix) ==
    IF prefix = None THEN Fail(ErrMalformed)
    ELSE Done(Del(d, "kv", LAMBDA r : r.key[1] = prefix /\ r.at = "old"))
====
