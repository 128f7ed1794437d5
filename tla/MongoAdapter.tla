---------------------------- MODULE MongoAdapter ----------------------------
(***************************************************************************)
(* db/mongodb/adapter.go.  Rows are those of MySQLAdapter where the tables *)
(* of the SQL databases are fields of documents instead:                   *)
(*   users + devices, att    topics + att    msgs + att, delfor            *)
(*   files + use             dellog [topic, for, delid, ranges]            *)
(* att holds the attached files, delfor the <<user, delid>> of those who   *)
(* deleted the message for themselves, use is <<>> or <<times in use>>.    *)
(* There are no tables of tags, devices or links and no keys between       *)
(* collections.  UserDelete and SubsDelete run in a transaction if a       *)
(* replica set is configured: tx, their last argument.                     *)
(***************************************************************************)
EXTENDS Tables

My == INSTANCE MySQLAdapter

\* A statement after which the call may stop, or one of a transaction.
maybeTransaction(s, tx) == IF tx THEN Done(Last(s)) ELSE Steps(s)

\* What the interface shows of documents.
View(d) ==
    [d EXCEPT !.users = {Plain(r, {"devices", "att"}) : r \in @},
              !.topics = {Plain(r, {"att"}) : r \in @}]

-----------------------------------------------------------------------------
(* Users and their authentication records. *)

UserCreate(d, u) ==
    IF u.id \in Ids(d) THEN Fail(ErrStore)
    ELSE Done(Ins(d, "users", {With(u, [devices |-> {}, att |-> {}])}))

\* The one unique key is uname.
AuthAddRecord(d, r) ==
    IF \E x \in d.auth : x.uname = r.uname THEN Fail(ErrDuplicate)
    ELSE Done(Ins(d, "auth", {r}))

AuthDelScheme(d, u, scheme) ==
    LET one == Limit({r \in d.auth : r.user = u /\ r.scheme = scheme}, 1)
    IN  Done(Del(d, "auth", LAMBDA r : r \in one))

AuthDelAllRecords(d, u) ==
    Ret({Cardinality({r \in d.auth : r.user = u})},
        Done(Del(d, "auth", LAMBDA r : r.user = u)))

\* uname is the primary key: a record with another one is added, the old one
\* removed after it.  Only the key of the old record is read, so a secret left
\* out of the update is lost with it.
AuthUpdRecord(d, u, scheme, unique, lvl, secret) ==
    LET one == Limit({r \in d.auth : r.user = u /\ r.scheme = scheme}, 1)
        old == CHOOSE r \in one : TRUE
        add == AuthAddRecord(d, [uname |-> unique, user |-> u, scheme |-> scheme,
                                 lvl |-> lvl, secret |-> secret])
        added == Final(d, add)
    IN  IF one = {} THEN Fail(ErrNotFound)
        ELSE IF old.uname = unique
        THEN Done(Upd(d, "auth", LAMBDA r : r = old,
                      LAMBDA r : My!authSet(r, unique, lvl, secret)))
        ELSE IF add.err # Ok THEN add
        ELSE Steps(<<added, Del(added, "auth", LAMBDA r : r.uname = old.uname)>>)

AuthGetRecord(d, u, scheme) == My!AuthGetRecord(d, u, scheme)
AuthGetUniqueRecord(d, unique) == My!AuthGetUniqueRecord(d, unique)
UserGet(d, u) == My!UserGet(View(d), u)
UserGetAll(d, us) == My!UserGetAll(View(d), us)

\* Files attached to documents, each in use once less.
decFileUseCounter(d, docs) ==
    LET att == UNION {r.att : r \in docs}
    IN  Upd(d, "files", LAMBDA f : f.id \in att,
            LAMBDA f : [f EXCEPT !.use = <<(IF @ = <<>> THEN 0 ELSE @[1]) - 1>>])

\* One subscriber less for the topics of the live subscriptions, then these
\* are marked; a hard delete removes the others as well.
subsDelete(d, found, hard) ==
    LET live == {s.topic : s \in {x \in found : ~x.gone}}
        names == live \cup {ChnToGrp(n) : n \in {x \in live : IsChannel(x)}}
        d1 == Upd(d, "topics", LAMBDA t : t.name \in names,
                  LAMBDA t : [t EXCEPT !.cnt = @ - 1])
    IN  <<d1, IF hard THEN Del(d1, "subs", LAMBDA s : s \in found)
              ELSE Upd(d1, "subs", LAMBDA s : s \in found /\ ~s.gone, My!Gone)>>
subsOf(d, u) == {s \in d.subs : s.user = u}

\* Log and marks of the user's own deletions in some topics.
clearUserDellog(d, u, topics) ==
    LET d1 == Del(d, "dellog", LAMBDA r : r.topic \in topics /\ r.for = u)
    IN  <<d1, Upd(d1, "msgs", LAMBDA m : m.topic \in topics,
                  LAMBDA m : [m EXCEPT !.delfor = {x \in @ : x[1] # u}])>>

topicNames(d, u) == {s.topic : s \in {x \in subsOf(d, u) : ~x.gone}}
p2pTopicsForUser(d, u) == {n \in topicNames(d, u) : Prefix(n) = "p2p"}

\* Hard delete.  clearUserDellog looks for the topics of the user's live
\* subscriptions after these are gone, and finds none.
wipeUser(d, u) ==
    LET own == WithChn({t.name : t \in My!Owned(d, u)})
        In(r) == r.topic \in own
        sub == subsDelete(d, subsOf(d, u), TRUE)
        log == sub \o clearUserDellog(Last(sub), u, topicNames(Last(sub), u))
        s1 == AndThen(log, LAMBDA x : Del(x, "dellog", In))
        s2 == AndThen(s1, LAMBDA x : decFileUseCounter(x, {m \in d.msgs : In(m)}))
        s3 == AndThen(s2, LAMBDA x : decFileUseCounter(x, My!Owned(d, u)))
        s4 == AndThen(s3, LAMBDA x : Del(x, "msgs", In))
        s5 == AndThen(s4, LAMBDA x : Del(x, "subs", In))
        s6 == AndThen(s5, LAMBDA x : Del(x, "topics", LAMBDA t : t.owner = u))
        s7 == AndThen(IF own = {} THEN log ELSE s6,
                      LAMBDA x : Del(x, "auth", LAMBDA r : r.user = u))
        s8 == AndThen(s7, LAMBDA x : Del(x, "creds", LAMBDA r : r.user = u))
        s9 == AndThen(s8, LAMBDA x : decFileUseCounter(x, {r \in d.users : r.id = u}))
    IN  AndThen(s9, LAMBDA x : Del(x, "users", LAMBDA r : r.id = u))

\* Soft delete.  Subscriptions of others to the topics get a state, which is
\* not the deletedat that everything else looks at.  The p2p topics are those of
\* live subscriptions, read outside the transaction: without one there are none
\* left.
disableUser(d, u, tx) ==
    LET own == WithChn({t.name : t \in {x \in My!Owned(d, u) : x.state # "del"}})
        sub == subsDelete(d, subsOf(d, u), FALSE)
        p2p == p2pTopicsForUser(IF tx THEN d ELSE sub[2], u)
        Off(x, names) == Upd(x, "topics", LAMBDA t : t.name \in names,
                             LAMBDA t : [t EXCEPT !.state = "del"])
        s1 == AndThen(sub, LAMBDA x : Off(x, own))
        s2 == AndThen(s1, LAMBDA x : Off(x, p2p))
    IN  AndThen(s2, LAMBDA x : Upd(x, "users", LAMBDA r : r.id = u,
                                   LAMBDA r : [r EXCEPT !.state = "del"]))

UserDelete(d, u, hard, tx) ==
    maybeTransaction(IF hard THEN wipeUser(d, u) ELSE disableUser(d, u, tx), tx)

topicStateForUser(d, u, state) ==
    LET p2p == p2pTopicsForUser(d, u)
        To(x, Hit(_)) == Upd(x, "topics", LAMBDA t : t.state # "del" /\ Hit(t),
                             LAMBDA t : [t EXCEPT !.state = state])
        d1 == To(d, LAMBDA t : t.owner = u)
    IN  <<d1, To(d1, LAMBDA t : t.name \in p2p)>>

UserUpdate(d, u, upd) ==
    LET d1 == Upd(d, "users", LAMBDA r : r.id = u, LAMBDA r : Set(r, upd))
    IN  Steps(<<d1>> \o IF "state" \in DOMAIN upd THEN topicStateForUser(d1, u, upd.state)
                        ELSE <<>>)

\* The tags are read, changed and written back.
UserUpdateTags(d, u, add, remove, reset) ==
    LET old == UNION {r.tags : r \in {x \in d.users : x.id = u}}
        tags == IF reset # <<>> THEN reset[1] ELSE (old \cup add) \ remove
    IN  IF reset = <<>> /\ u \notin Ids(d) THEN Fail(ErrStore)
        ELSE Ret(tags, UserUpdate(d, u, [tags |-> tags]))

UserGetByCred(d, method, value) == My!UserGetByCred(d, method, value)

\* $bitsAllSet takes a list for the positions of bits, not their values:
\* position 2 (ModeRead is 2) is that of ModeWrite, position 8 (ModePres) that
\* of no mode.
readable(s) == ~s.gone /\ "W" \in s.want /\ "W" \in s.given
UserUnreadCount(d, us) ==
    LET Unread(u) == {s \in d.subs : s.user = u /\ readable(s)
                          /\ \E t \in d.topics : t.name = s.topic /\ t.state # "del"}
        SeqId(n) == (CHOOSE t \in d.topics : t.name = n).seq
    IN  Val({<<u, MapThenSumSet(LAMBDA s : SeqId(s.topic) - s.read, Unread(u))>> : u \in us})

\* Users without any credential are not in the join.
UserGetUnvalidated(d) ==
    Val({u \in My!UserGetUnvalidated(d).ret : \E c \in d.creds : c.user = u})

-----------------------------------------------------------------------------
(* Credentials. *)

\* ret is TRUE if a record was to be added.
CredUpsert(d, c) ==
    LET confirmed == <<c.method, c.value>>
        pending == <<c.user, c.method, c.value>>
        Has(x, k) == \E r \in x.creds : r.key = k
        d1 == IF c.done THEN Del(d, "creds", LAMBDA r : r.key = pending)
              ELSE Upd(d, "creds", LAMBDA r : /\ r.user = c.user /\ r.method = c.method
                                              /\ ~r.done, My!Gone)
        again == Upd(d1, "creds", LAMBDA r : r.key = pending,
                     LAMBDA r : [r EXCEPT !.gone = FALSE, !.resp = c.resp])
        key == IF c.done THEN confirmed ELSE pending
        row == With(Plain(c, {"key"}), [key |-> key, gone |-> FALSE])
    IN  CASE ~c.done /\ Has(d, confirmed) -> Ret({FALSE}, Fail(ErrDuplicate))
          [] c.done /\ Has(d1, confirmed) ->
                 [Steps(<<d1>>) EXCEPT !.ret = {TRUE}, !.err = ErrDuplicate]
          [] ~c.done /\ ~Has(d, confirmed) /\ Has(d1, pending) ->
                 Ret({FALSE}, Steps(<<d1, again>>))
          [] OTHER -> Ret({TRUE}, Steps(<<d1, Ins(d1, "creds", {row})>>))

\* What is confirmed or was never tried is removed; if there was nothing to
\* remove, the rest is marked.
CredDel(d, u, method, value) ==
    LET Hit(r) == My!credHit(r, u, method, value)
        Now(r) == Hit(r) /\ (method = None \/ r.done \/ r.retries = 0)
    IN  IF \E r \in d.creds : Now(r) THEN Done(Del(d, "creds", Now))
        ELSE IF \E r \in d.creds : Hit(r) THEN Done(Upd(d, "creds", Hit, My!Gone))
        ELSE Fail(ErrNotFound)

CredGetActive(d, u, method) == My!CredGetActive(d, u, method)

\* Without a credential to confirm a nil pointer is followed.
CredConfirm(d, u, method) ==
    LET one == Limit({r \in d.creds : My!active(r, u, method)}, 1)
        old == CHOOSE r \in one : TRUE
        up == CredUpsert(d, [old EXCEPT !.done = TRUE])
        d1 == Del(Final(d, up), "creds", LAMBDA r : r.key = <<u, method, old.value>>)
    IN  IF one = {} THEN Fail(Panic)
        ELSE Ret({}, IF up.err # Ok THEN up ELSE Steps(Append(up.steps, d1)))

CredFail(d, u, method) ==
    LET one == Limit({r \in d.creds : My!active(r, u, method)}, 1)
    IN  Done(Upd(d, "creds", LAMBDA r : r \in one,
                 LAMBDA r : [r EXCEPT !.retries = @ + 1]))

CredGetAll(d, u, method, validatedOnly) ==
    Val({My!credShown(r) : r \in {x \in d.creds :
            My!credHit(x, u, method, None) /\ IF validatedOnly THEN x.done ELSE ~x.gone}})

-----------------------------------------------------------------------------
(* Devices are kept in the user, and are unique among users. *)

DeviceUpsert(d, u, hash) ==
    LET d1 == Upd(d, "users", LAMBDA r : r.id # u,
                  LAMBDA r : [r EXCEPT !.devices = @ \ {hash}])
        d2 == Upd(d1, "users", LAMBDA r : r.id = u,
                  LAMBDA r : [r EXCEPT !.devices = @ \cup {hash}])
    IN  IF u \notin Ids(d) THEN Done(d)
        ELSE IF d1 = d THEN Done(d2) ELSE Steps(<<d1, d2>>)

DeviceDelete(d, u, hash) ==
    Done(Upd(d, "users", LAMBDA r : r.id = u,
             LAMBDA r : [r EXCEPT !.devices = IF hash = None THEN {} ELSE @ \ {hash}]))

\* The number is that of users with devices.
DeviceGetAll(d, us) ==
    LET hit == {r \in d.users : r.id \in us /\ r.devices # {}}
    IN  Val({<<UNION {{<<r.id, h>> : h \in r.devices} : r \in hit}, Cardinality(hit)>>})

-----------------------------------------------------------------------------
(* Topics and subscriptions. *)

TopicCreate(d, t) ==
    IF t.name \in Names(d) THEN Fail(ErrStore)
    ELSE Done(Ins(d, "topics", {With(t, [att |-> {}])}))

\* A subscription that exists is brought back from zero, with its private.
undeleteSubscription(d, s) ==
    LET Hit(r) == r.topic = s.topic /\ r.user = s.user
    IN  IF ~\E r \in d.subs : Hit(r) THEN Ins(d, "subs", {My!newSub(s)})
        ELSE Upd(d, "subs", Hit, LAMBDA r : [My!newSub(s) EXCEPT !.val = r.val])

\* The initiator's subscription is replaced, the other one kept if there is one.
TopicCreateP2P(d, initiator, invited) ==
    LET Own(r) == r.topic = initiator.topic /\ r.user = initiator.user
        d1 == Ins(Del(d, "subs", Own), "subs", {My!newSub(initiator)})
        d2 == undeleteSubscription(d1, invited)
        top == TopicCreate(d2, My!newTopic(initiator.topic))
    IN  [top EXCEPT !.steps = <<d1, d2>> \o @]

TopicUpdateSubCnt(d, n) == My!TopicUpdateSubCnt(d, n)
TopicGet(d, n) ==
    LET r == My!TopicGet(d, n) IN Ret({Plain(t, {"att"}) : t \in r.ret}, r)
TopicsForUser(d, u, keepDeleted) == My!TopicsForUser(View(d), u, keepDeleted)

\* Deleted users are never shown.
UsersForTopic(d, n, keepDeleted, oneUser) ==
    My!UsersForTopic([View(d) EXCEPT !.users = {u \in @ : u.state # "del"}],
                     n, keepDeleted, oneUser)
OwnTopics(d, u) == My!OwnTopics(d, u)

\* No mode is at position 8.
ChannelsForUser(d, u) == Val({})

\* One statement per subscription, then the number of subscribers.
TopicShare(d, n, shares) ==
    LET Add(dbs, s) == Append(dbs, undeleteSubscription(Last(dbs), s))
        dbs == Tail(FoldLeft(Add, <<d>>, SetToSeq(shares)))
    IN  Steps(Append(dbs, Upd(Last(dbs), "topics", LAMBDA t : t.name = n,
                              LAMBDA t : [t EXCEPT !.cnt = @ + Cardinality(shares)])))

messagesHardDelete(d, n) ==
    LET In(r) == r.topic = n
        d1 == Del(d, "dellog", In)
        d2 == decFileUseCounter(d1, {m \in d.msgs : In(m)})
    IN  <<d1, d2, Del(d2, "msgs", In)>>

TopicDelete(d, n, isChan, hard) ==
    LET names == {n} \cup (IF isChan THEN {GrpToChn(n)} ELSE {})
        sub == subsDelete(d, {s \in d.subs : s.topic \in names}, hard)
        d1 == decFileUseCounter(sub[2], {t \in d.topics : t.name = n})
        msg == messagesHardDelete(d1, n)
    IN  Steps(sub \o IF hard
                     THEN <<d1>> \o msg \o <<Del(msg[3], "topics", LAMBDA t : t.name = n)>>
                     ELSE <<Upd(sub[2], "topics", LAMBDA t : t.name = n,
                                LAMBDA t : [t EXCEPT !.state = "del"])>>)

TopicUpdateOnMessage(d, n, seq) == My!TopicUpdateOnMessage(d, n, seq)
TopicUpdate(d, n, upd) ==
    Done(Upd(d, "topics", LAMBDA t : t.name = n, LAMBDA t : Set(t, upd)))
TopicOwnerChange(d, n, u) == My!TopicOwnerChange(d, n, u)
SubscriptionGet(d, n, u, keepDeleted) == My!SubscriptionGet(d, n, u, keepDeleted)
SubsForUser(d, u) == My!SubsForUser(d, u)
SubsForTopic(d, n, keepDeleted, oneUser) == My!SubsForTopic(d, n, keepDeleted, oneUser)

\* A single subscription is updated even where all those of the topic are meant.
SubsUpdate(d, n, u, upd) ==
    LET one == Limit({s \in d.subs : s.topic = n /\ (u # None => s.user = u)}, 1)
    IN  Done(Upd(d, "subs", LAMBDA s : s \in one, LAMBDA s : Set(s, upd)))

\* The number of subscribers, already lower by one, is then set to -1, outside
\* the transaction.  In a transaction that has written the topic this waits until
\* the database gives the transaction up.
SubsDelete(d, n, u, tx) ==
    LET sub == subsDelete(d, {s \in subsOf(d, u) : s.topic = n}, FALSE)
        log == IF IsChannel(n) THEN <<>> ELSE clearUserDellog(sub[2], u, {n})
        minus(x) == Upd(x, "topics", LAMBDA t : TopicCat(n) = "grp" /\ t.name = n,
                        LAMBDA t : [t EXCEPT !.cnt = -1])
        waits == tx /\ sub[1] # d /\ minus(d) # d
        all == sub \o log \o <<minus(Last(sub \o log))>>
    IN  IF waits THEN [Done(minus(d)) EXCEPT !.err = ErrStore] ELSE maybeTransaction(all, tx)

\* A search without tags is refused by the database.
Find(d, caller, req, opt, activeOnly) ==
    LET all == UNION req \cup opt
        Fits(x) == My!matched(x.tags, req, opt) /\ (activeOnly => x.state = "ok")
    IN  IF all = {} THEN Fail(ErrStore)
        ELSE Val({<<<<"usr", u.id>>, 0, u.tags \cap all>> :
                      u \in {x \in d.users : Fits(x) /\ x.id # caller}}
            \cup {<<IF t.bt THEN GrpToChn(t.name) ELSE t.name, t.cnt, t.tags \cap all>> :
                      t \in {x \in d.topics : Fits(x)}})

\* Users come before topics.
FindOne(d, tag) ==
    LET users == {<<"usr", r.id>> : r \in {x \in d.users : tag \in x.tags}}
        topics == {r.name : r \in {x \in d.topics : tag \in x.tags}}
    IN  Val(Limit(IF users # {} THEN users ELSE topics, 1))

-----------------------------------------------------------------------------
(* Messages. *)

\* Numbers are not unique.
MessageSave(d, m) == Done(Ins(d, "msgs", {With(m, [att |-> {}, delfor |-> {}])}))

\* Ranges asked for are ignored.
within(i, q) == i >= q[1] /\ (q[2] > 0 => i < q[2])
deletedFor(m, u) == \E x \in m.delfor : x[1] = u
MessageGetAll(d, n, u, q, ranges) ==
    Val({<<m.seq, m.from>> : m \in {x \in d.msgs :
            x.topic = n /\ x.del = 0 /\ within(x.seq, q) /\ ~deletedFor(x, u)}})

MessageGetDeleted(d, n, u, q) ==
    Val(UNION {{<<r.delid, g[1], g[2]>> : g \in r.ranges} : r \in {x \in d.dellog :
            x.topic = n /\ x.for \in {None, u} /\ within(x.delid, q)}})

\* One log entry with the ranges given; an empty list of them is not expected.
logEntry(n, del) == {[topic |-> n, for |-> del.for, delid |-> del.delid, ranges |-> del.ranges]}
markFor(d, del, found) ==
    Upd(d, "msgs", LAMBDA m : m \in found /\ m.del = 0 /\ ~deletedFor(m, del.for),
        LAMBDA m : [m EXCEPT !.delfor = @ \cup {<<del.for, del.delid>>}])
clearMessages(d, delid, found) ==
    Upd(d, "msgs", LAMBDA m : m \in found,
        LAMBDA m : [m EXCEPT !.del = delid, !.from = None, !.att = {}])

MessageDeleteList(d, n, dels) ==
    LET del == dels[1]
        seqs == My!liveSeqs(d, n, del.ranges)
        found == {m \in d.msgs : m.topic = n /\ m.del = 0 /\ m.seq \in seqs}
        d1 == decFileUseCounter(d, found)
        dbs == IF del.for = None THEN <<d1, clearMessages(d1, del.delid, found)>>
               ELSE <<markFor(d, del, found)>>
    IN  IF dels = <<>> THEN Steps(messagesHardDelete(d, n))
        ELSE IF del.ranges = {} THEN Fail(Panic)
        ELSE IF del.for = None /\ seqs = {} THEN Done(d)
        ELSE Steps(Append(dbs, Ins(Last(dbs), "dellog", logEntry(n, del))))

-----------------------------------------------------------------------------
(* Files and the persistent cache. *)

FileStartUpload(d, f) ==
    IF \E r \in d.files : r.id = f.id THEN Fail(ErrStore)
    ELSE Done(Ins(d, "files", {With(f, [use |-> <<>>])}))

FileFinishUpload(d, id, success) ==
    LET Hit(f) == f.id = id
    IN  Ret({success}, Done(IF success
            THEN Upd(d, "files", Hit, LAMBDA f : [f EXCEPT !.status = "done", !.old = FALSE,
                                                        !.loc = id])
            ELSE Del(d, "files", Hit)))

FileGet(d, id) == Val({Plain(f, {"use"}) : f \in {x \in d.files : x.id = id}})

\* The limit is on the files returned; all of them are deleted.
FileDeleteUnused(d, olderThan, limit) ==
    LET unused == {f \in d.files : (olderThan => f.old) /\ f.use \in {<<>>, <<0>>}}
    IN  Ret(My!located(Limit(unused, limit)), Done(Del(d, "files", LAMBDA f : f \in unused)))

\* A document a file can be attached to: the table, and whether it is the target.
attTable(target) ==
    CASE target[1] = "msg" -> "msgs" [] target[1] = "topic" -> "topics"
      [] OTHER -> "users"
isTarget(r, target) ==
    CASE target[1] = "msg" -> r.topic = target[2] /\ r.seq = target[3]
      [] target[1] = "topic" -> r.name = target[2] [] OTHER -> r.id = target[2]
incUse(d, ids, n) ==
    Upd(d, "files", LAMBDA f : f.id \in ids,
        LAMBDA f : [f EXCEPT !.use = <<(IF @ = <<>> THEN 0 ELSE @[1]) + n>>, !.old = FALSE])

\* The file a topic or a user had is unlinked, the target updated, the files
\* counted.
FileLinkAttachments(d, target, fids) ==
    LET hit == {r \in d[attTable(target)] : isTarget(r, target)}
        ids == My!linked(target, fids)
        d1 == IF target[1] = "msg" THEN d ELSE incUse(d, UNION {r.att : r \in hit}, -1)
        d2 == Upd(d1, attTable(target), LAMBDA r : r \in hit,
                  LAMBDA r : [r EXCEPT !.att = ids])
    IN  IF fids = <<>> \/ target = NoTopic THEN Fail(ErrMalformed)
        ELSE IF target[1] # "msg" /\ hit = {} THEN Fail(ErrStore)
        ELSE Steps(<<d1, d2, incUse(d2, ids, 1)>>)

PCacheGet(d, k) == My!PCacheGet(d, k)

\* Only an entry that must be new gets a timestamp.
PCacheUpsert(d, k, v, failOnDuplicate) ==
    LET Hit(r) == r.key = k
        has == \E r \in d.kv : Hit(r)
    IN  IF k[2] = "^" THEN Fail(ErrMalformed)
        ELSE IF has /\ failOnDuplicate THEN Fail(ErrDuplicate)
        ELSE IF has THEN Done(Upd(d, "kv", Hit, LAMBDA r : [r EXCEPT !.val = v]))
        ELSE Done(Ins(d, "kv", {[key |-> k, val |-> v,
                                 at |-> IF failOnDuplicate THEN "new" ELSE None]}))

PCacheDelete(d, k) == My!PCacheDelete(d, k)
PCacheExpire(d, prefix) == My!PCacheExpire(d, prefix)
=============================================================================
