--------------------------- MODULE RethinkAdapter ---------------------------
(***************************************************************************)
(* db/rethinkdb/adapter.go.  Documents are those of MongoAdapter; there    *)
(* are no transactions.  Methods whose queries have the effect of those of *)
(* the MongoDB or MySQL adapter are defined by them.                       *)
(***************************************************************************)
EXTENDS Tables

My == INSTANCE MySQLAdapter
Mg == INSTANCE MongoAdapter

-----------------------------------------------------------------------------
(* Users and their authentication records. *)

UserCreate(d, u) == Mg!UserCreate(d, u)
AuthAddRecord(d, r) == Mg!AuthAddRecord(d, r)
AuthDelScheme(d, u, scheme) ==
    Done(Del(d, "auth", LAMBDA r : r.user = u /\ r.scheme = scheme))
AuthDelAllRecords(d, u) == Mg!AuthDelAllRecords(d, u)
AuthUpdRecord(d, u, scheme, unique, lvl, secret) ==
    Mg!AuthUpdRecord(d, u, scheme, unique, lvl, secret)
AuthGetRecord(d, u, scheme) == My!AuthGetRecord(d, u, scheme)
AuthGetUniqueRecord(d, unique) == My!AuthGetUniqueRecord(d, unique)
UserGet(d, u) == Mg!UserGet(d, u)
UserGetAll(d, us) == Mg!UserGetAll(d, us)

\* A file is in use once less for every document it is attached to; one never
\* counted is taken to be in use once.
decFileUseCounter(d, docs) ==
    LET Times(f) == Cardinality({r \in docs : f.id \in r.att})
    IN  Upd(d, "files", LAMBDA f : Times(f) > 0,
            LAMBDA f : [f EXCEPT !.use = <<(IF @ = <<>> THEN 1 ELSE @[1]) - Times(f)>>])

\* The marks first, then the log.
clearUserDellog(d, u, topics) ==
    LET known == topics \cap Names(d)
        d1 == Upd(d, "msgs", LAMBDA m : m.topic \in known,
                  LAMBDA m : [m EXCEPT !.delfor = {x \in @ : x[1] # u}])
    IN  <<d1, Del(d1, "dellog", LAMBDA r : r.topic \in known /\ r.for = u)>>

\* The topics are fetched with Get, which takes one key: users with any other
\* number of subscriptions, deleted ones included, cannot be deleted.
subsDelForUser(d, u, hard) ==
    LET mine == {s.topic : s \in {x \in d.subs : x.user = u}}
        d1 == Upd(d, "topics", LAMBDA t : t.name \in mine,
                  LAMBDA t : [t EXCEPT !.cnt = @ - 1])
        log == clearUserDellog(d1, u, mine)
    IN  IF Cardinality(mine) # 1 THEN Fail(ErrStore)
        ELSE Steps(<<d1>> \o log \o
                   <<IF hard THEN Del(log[2], "subs", LAMBDA s : s.user = u)
                     ELSE Upd(log[2], "subs", LAMBDA s : s.user = u, My!Gone)>>)

\* An owned topic and what is in it.  The query fails at a topic that never had a
\* file attached, after it removed the log; the file of the topic is looked up by
\* the list it is in, and not found.
wipeTopics(d, topics) ==
    LET In(r) == \E t \in topics : r.topic = t.name
        bare == Limit({t \in topics : t.att = {}}, 1)
        d1 == Del(decFileUseCounter(d, {m \in d.msgs : In(m)}), "dellog", In)
    IN  IF bare # {}
        THEN [Done(Del(d, "dellog", LAMBDA r : \E t \in bare : r.topic = t.name))
                EXCEPT !.err = ErrStore]
        ELSE Done(Del(Del(d1, "msgs", In), "subs", In))

wipeUser(d, u) ==
    LET own == {t \in My!Owned(d, u) : t.state # "del"}
        sub == subsDelForUser(d, u, TRUE)
        top == wipeTopics(Last(sub.steps), own)
        s1 == AndThen(sub.steps \o top.steps,
                      LAMBDA x : Del(x, "topics", LAMBDA t : t.owner = u))
        s2 == AndThen(IF own = {} THEN sub.steps ELSE s1,
                      LAMBDA x : Del(x, "auth", LAMBDA r : r.user = u))
        s3 == AndThen(s2, LAMBDA x : Del(x, "creds", LAMBDA r : r.user = u))
        s4 == AndThen(s3, LAMBDA x : decFileUseCounter(x, {r \in d.users : r.id = u}))
    IN  IF sub.err # Ok THEN sub
        ELSE IF own # {} /\ top.err # Ok THEN [top EXCEPT !.steps = sub.steps \o @]
        ELSE Steps(AndThen(s4, LAMBDA x : Del(x, "users", LAMBDA r : r.id = u)))

\* The p2p topics are looked for by a field of the names of the topics, and a string
\* has no fields: a query over the one subscription there is fails, before the user
\* is marked.
disableUser(d, u) ==
    LET own == {t.name : t \in {x \in My!Owned(d, u) : x.state # "del"}}
        sub == subsDelForUser(d, u, FALSE)
        s1 == AndThen(sub.steps, LAMBDA x :
                  Upd(x, "subs", LAMBDA s : s.topic \in WithChn(own), My!Gone))
        s2 == AndThen(s1, LAMBDA x : Upd(x, "topics", LAMBDA t : t.name \in own,
                                         LAMBDA t : [t EXCEPT !.state = "del"]))
    IN  IF sub.err # Ok THEN sub ELSE [Steps(s2) EXCEPT !.err = ErrStore]

UserDelete(d, u, hard) == IF hard THEN wipeUser(d, u) ELSE disableUser(d, u)

topicStateForUser(d, u, state) ==
    LET mine == {s.topic : s \in {x \in d.subs : x.user = u}}
        To(x, Hit(_)) == Upd(x, "topics", LAMBDA t : t.state # "del" /\ Hit(t),
                             LAMBDA t : [t EXCEPT !.state = state])
        d1 == To(d, LAMBDA t : t.owner = u)
    IN  <<d1, To(d1, LAMBDA t : t.owner = None /\ t.name \in mine)>>

UserUpdate(d, u, upd) ==
    LET d1 == Upd(d, "users", LAMBDA r : r.id = u, LAMBDA r : Set(r, upd))
    IN  Steps(<<d1>> \o IF "state" \in DOMAIN upd THEN topicStateForUser(d1, u, upd.state)
                        ELSE <<>>)

\* The tags are changed where they are, and read back.
UserUpdateTags(d, u, add, remove, reset) ==
    LET F(r) == [r EXCEPT !.tags = (@ \cup add) \ remove]
        hit == {r \in d.users : r.id = u}
    IN  IF reset # <<>> THEN Ret(reset[1], UserUpdate(d, u, [tags |-> reset[1]]))
        ELSE IF hit = {} THEN Fail(ErrStore)
        ELSE Ret(UNION {F(r).tags : r \in hit}, Done(Upd(d, "users", LAMBDA r : r.id = u, F)))

UserGetByCred(d, method, value) == My!UserGetByCred(d, method, value)
UserUnreadCount(d, us) == My!UserUnreadCount(d, us)
UserGetUnvalidated(d) == Mg!UserGetUnvalidated(d)

-----------------------------------------------------------------------------
(* Credentials and devices. *)

CredUpsert(d, c) == Mg!CredUpsert(d, c)

\* The soft delete removes nothing, so it is always followed by ErrNotFound.
CredDel(d, u, method, value) ==
    LET Hit(r) == My!credHit(r, u, method, value)
        Now(r) == Hit(r) /\ (method = None \/ r.done \/ r.retries = 0)
    IN  IF \E r \in d.creds : Now(r) THEN Done(Del(d, "creds", Now))
        ELSE IF method = None THEN Fail(ErrNotFound)
        ELSE [Done(Upd(d, "creds", Hit, My!Gone)) EXCEPT !.err = ErrNotFound]

CredConfirm(d, u, method) == Mg!CredConfirm(d, u, method)
CredFail(d, u, method) ==
    Done(Upd(d, "creds", LAMBDA r : My!active(r, u, method),
             LAMBDA r : [r EXCEPT !.retries = @ + 1]))
CredGetActive(d, u, method) == My!CredGetActive(d, u, method)
CredGetAll(d, u, method, validatedOnly) == Mg!CredGetAll(d, u, method, validatedOnly)
DeviceUpsert(d, u, hash) ==
    LET d1 == Upd(d, "users", LAMBDA r : r.id # u,
                  LAMBDA r : [r EXCEPT !.devices = @ \ {hash}])
        d2 == Upd(d1, "users", LAMBDA r : r.id = u,
                  LAMBDA r : [r EXCEPT !.devices = @ \cup {hash}])
    IN  Steps(IF d1 = d THEN <<d2>> ELSE <<d1, d2>>)
DeviceDelete(d, u, hash) == Mg!DeviceDelete(d, u, hash)
DeviceGetAll(d, us) ==
    LET pairs == UNION {{<<r.id, h>> : h \in r.devices} : r \in {x \in d.users : x.id \in us}}
    IN  Val({<<pairs, Cardinality(pairs)>>})

-----------------------------------------------------------------------------
(* Topics and subscriptions. *)

TopicCreate(d, t) == Mg!TopicCreate(d, t)

\* Of an earlier subscription of the invited only the mode given is changed.
TopicCreateP2P(d, initiator, invited) ==
    LET Is(r, s) == r.topic = s.topic /\ r.user = s.user
        d1 == Ins(Del(d, "subs", LAMBDA r : Is(r, initiator)), "subs", {My!newSub(initiator)})
        d2 == IF \E r \in d.subs : Is(r, invited)
              THEN Upd(d1, "subs", LAMBDA r : Is(r, invited),
                       LAMBDA r : [r EXCEPT !.gone = FALSE, !.given = invited.given])
              ELSE Ins(d1, "subs", {My!newSub(invited)})
        top == TopicCreate(d2, My!newTopic(initiator.topic))
    IN  [top EXCEPT !.steps = <<d1, d2>> \o @]

TopicUpdateSubCnt(d, n) == My!TopicUpdateSubCnt(d, n)
TopicGet(d, n) == Mg!TopicGet(d, n)
TopicsForUser(d, u, keepDeleted) == Mg!TopicsForUser(d, u, keepDeleted)
UsersForTopic(d, n, keepDeleted, oneUser) == Mg!UsersForTopic(d, n, keepDeleted, oneUser)
OwnTopics(d, u) == My!OwnTopics(d, u)
ChannelsForUser(d, u) == My!ChannelsForUser(d, u)

\* All subscriptions in one statement, then the number of subscribers.
TopicShare(d, n, shares) ==
    LET Add(s, x) == Mg!undeleteSubscription(x, s)
        d1 == FoldSet(Add, d, shares)
    IN  Steps(<<d1>> \o IF n = NoTopic THEN <<>>
                        ELSE <<Upd(d1, "topics", LAMBDA t : t.name = n,
                                   LAMBDA t : [t EXCEPT !.cnt = @ + Cardinality(shares)])>>)

subsDelForTopic(d, n, isChan, hard) ==
    LET Hit(s) == s.topic = n \/ (isChan /\ s.topic = GrpToChn(n))
    IN  IF hard THEN Del(d, "subs", Hit) ELSE Upd(d, "subs", Hit, My!Gone)

messagesHardDelete(d, n) ==
    LET In(r) == r.topic = n
        d1 == Del(d, "dellog", In)
        d2 == decFileUseCounter(d1, {m \in d.msgs : In(m)})
    IN  <<d1, d2, Del(d2, "msgs", In)>>

\* Mutant: the topic goes first, and a topic that is not there is an error.
TopicDeleteTopicFirst(d, n, isChan, hard) ==
    LET d1 == IF hard THEN Del(d, "topics", LAMBDA t : t.name = n)
              ELSE Upd(d, "topics", LAMBDA t : t.name = n, LAMBDA t : [t EXCEPT !.state = "del"])
    IN  IF n \notin Names(d) THEN Fail(ErrNotFound)
        ELSE Steps(<<d1, subsDelForTopic(d1, n, isChan, hard)>>)

TopicDelete(d, n, isChan, hard) ==
    LET d1 == subsDelForTopic(d, n, isChan, hard)
        msg == messagesHardDelete(d1, n)
        d2 == decFileUseCounter(msg[3], {t \in d.topics : t.name = n})
    IN  Steps(<<d1>> \o IF hard
                        THEN msg \o <<d2, Del(d2, "topics", LAMBDA t : t.name = n)>>
                        ELSE <<Upd(d1, "topics", LAMBDA t : t.name = n,
                                   LAMBDA t : [t EXCEPT !.state = "del"])>>)

TopicUpdateOnMessage(d, n, seq) == My!TopicUpdateOnMessage(d, n, seq)
TopicUpdate(d, n, upd) == Mg!TopicUpdate(d, n, upd)
TopicOwnerChange(d, n, u) == My!TopicOwnerChange(d, n, u)
SubscriptionGet(d, n, u, keepDeleted) == My!SubscriptionGet(d, n, u, keepDeleted)
SubsForUser(d, u) == My!SubsForUser(d, u)
SubsForTopic(d, n, keepDeleted, oneUser) == My!SubsForTopic(d, n, keepDeleted, oneUser)
SubsUpdate(d, n, u, upd) ==
    Done(Upd(d, "subs", LAMBDA s : s.topic = n /\ (u # None => s.user = u),
             LAMBDA s : Set(s, upd)))

\* A subscription deleted before is deleted again and counted again.  The marks on
\* the messages go only if the log had entries.
SubsDelete(d, n, u) ==
    LET Hit(s) == s.topic = n /\ s.user = u
        d1 == Upd(d, "subs", Hit, My!Gone)
        d2 == Upd(d1, "topics", LAMBDA t : t.name = n, LAMBDA t : [t EXCEPT !.cnt = @ - 1])
        d3 == Del(d2, "dellog", LAMBDA r : r.topic = n /\ r.for = u)
        d4 == Upd(d3, "msgs", LAMBDA m : m.topic = n,
                  LAMBDA m : [m EXCEPT !.delfor = {x \in @ : x[1] # u}])
    IN  IF ~\E s \in d.subs : Hit(s) THEN Fail(ErrNotFound)
        ELSE IF IsChannel(n) \/ d3 = d2 THEN Steps(<<d1, d2>>)
        ELSE Steps(<<d1, d2, d3, d4>>)

\* An empty search finds nothing.
Find(d, caller, req, opt, activeOnly) ==
    IF UNION req \cup opt = {} THEN Val({}) ELSE Mg!Find(d, caller, req, opt, activeOnly)
FindOne(d, tag) == Mg!FindOne(d, tag)

-----------------------------------------------------------------------------
(* Messages. *)

MessageSave(d, m) == Mg!MessageSave(d, m)
MessageGetAll(d, n, u, q, ranges) == Mg!MessageGetAll(d, n, u, q, ranges)
MessageGetDeleted(d, n, u, q) == Mg!MessageGetDeleted(d, n, u, q)

\* The high end of a range is taken to be in it.
rangeToQuery(q, ranges) ==
    \E r \in ranges : IF r[2] = 0 THEN q = r[1] ELSE r[1] <= q /\ q <= r[2]

\* The ranges found are looked up a second time, hard-deleted messages included.
MessageDeleteList(d, n, dels) ==
    LET del == dels[1]
        asked == {m \in d.msgs :
                    m.topic = n /\ m.del = 0 /\ rangeToQuery(m.seq, del.ranges)}
        seqs == {m.seq : m \in asked}
        found == {m \in d.msgs : m.topic = n /\ rangeToQuery(m.seq, SliceToRanges(seqs))}
        d1 == decFileUseCounter(d, found)
        dbs == IF del.for = None THEN <<d1, Mg!clearMessages(d1, del.delid, found)>>
               ELSE <<Mg!markFor(d, del, asked)>>
    IN  IF dels = <<>> THEN Steps(messagesHardDelete(d, n))
        ELSE IF del.ranges = {} THEN Fail(Panic)
        ELSE IF del.for = None /\ seqs = {} THEN Done(d)
        ELSE Steps(Append(dbs, Ins(Last(dbs), "dellog", Mg!logEntry(n, del))))

-----------------------------------------------------------------------------
(* Files and the persistent cache. *)

FileStartUpload(d, f) == Mg!FileStartUpload(d, f)

\* The file is looked up by a number while its key is a string: none is found.
FileFinishUpload(d, id, success) == Ret({success}, Done(d))

FileGet(d, id) == Mg!FileGet(d, id)

\* A file that was never linked has no counter, and is not in its index.
FileDeleteUnused(d, olderThan, limit) ==
    LET unused == {f \in d.files : (olderThan => f.old) /\ f.use = <<0>>}
        drop == Limit(unused, limit)
    IN  Ret(My!located(drop), Done(Del(d, "files", LAMBDA f : f \in drop)))

\* A target that does not exist is not noticed.
FileLinkAttachments(d, target, fids) ==
    LET table == Mg!attTable(target)
        hit == {r \in d[table] : Mg!isTarget(r, target)}
        ids == My!linked(target, fids)
        d1 == IF target[1] = "msg" THEN d ELSE Mg!incUse(d, UNION {r.att : r \in hit}, -1)
        d2 == Upd(d1, table, LAMBDA r : r \in hit, LAMBDA r : [r EXCEPT !.att = ids])
    IN  IF fids = <<>> \/ target = NoTopic THEN Fail(ErrMalformed)
        ELSE Steps(<<d1, d2, Mg!incUse(d2, ids, 1)>>)

PCacheGet(d, k) == My!PCacheGet(d, k)
PCacheUpsert(d, k, v, failOnDuplicate) == Mg!PCacheUpsert(d, k, v, failOnDuplicate)
PCacheDelete(d, k) == My!PCacheDelete(d, k)
PCacheExpire(d, prefix) == My!PCacheExpire(d, prefix)
=============================================================================
