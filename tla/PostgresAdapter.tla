--------------------------- MODULE PostgresAdapter ---------------------------
(***************************************************************************)
(* db/postgres/adapter.go.  Tables and rows are those of MySQLAdapter.     *)
(* Methods whose statements and error handling have the same effect as the *)
(* MySQL ones are defined by them; those that differ are written out.      *)
(***************************************************************************)
EXTENDS Tables

My == INSTANCE MySQLAdapter

-----------------------------------------------------------------------------
(* Users and their authentication records. *)

addTags(d, t, key, tags) == My!addTags(d, t, key, tags)
removeTags(d, t, key, tags) == My!removeTags(d, t, key, tags)
UserCreate(d, u) == My!UserCreate(d, u)
AuthAddRecord(d, r) == My!AuthAddRecord(d, r)
AuthDelScheme(d, u, scheme) == My!AuthDelScheme(d, u, scheme)
AuthDelAllRecords(d, u) == My!AuthDelAllRecords(d, u)

\* PostgreSQL reports the rows a statement found, changed or not.
AuthUpdRecord(d, u, scheme, unique, lvl, secret) ==
    LET Hit(r) == r.user = u /\ r.scheme = scheme
        F(r) == My!authSet(r, unique, lvl, secret)
    IN  IF \E r \in d.auth : Hit(r) /\ \E x \in d.auth \ {r} : x.uname = F(r).uname
        THEN Fail(ErrDuplicate)
        ELSE IF ~\E r \in d.auth : Hit(r) THEN Fail(ErrNotFound)
        ELSE Commit(Upd(d, "auth", Hit, F))

AuthGetRecord(d, u, scheme) == My!AuthGetRecord(d, u, scheme)
AuthGetUniqueRecord(d, unique) == My!AuthGetUniqueRecord(d, unique)
UserGet(d, u) == My!UserGet(d, u)
UserGetAll(d, us) == My!UserGetAll(d, us)
subsDelForUser(d, u, hard) == My!subsDelForUser(d, u, hard)
SubsDelForUser(d, u, hard) == Commit(subsDelForUser(d, u, hard))

\* The names of owned topics are listed without their channel names, so the
\* subscriptions of channel readers stay.
wipeUser(d, u) ==
    LET own == {t.name : t \in My!Owned(d, u)}
        d1 == Del(d, "devices", LAMBDA r : r.user = u)
        d2 == Del(subsDelForUser(d1, u, TRUE), "dellog",
                  LAMBDA r : r.for = u \/ r.topic \in own)
        d3 == Del(Del(d2, "msgs", LAMBDA r : r.topic \in own),
                  "subs", LAMBDA s : s.topic \in own)
        d4 == Del(d3, "topictags", LAMBDA r : r.key \in own)
        d5 == Del(d4, "topics", LAMBDA t : t.owner = u)
        d6 == Del(Del(d5, "auth", LAMBDA r : r.user = u),
                  "creds", LAMBDA r : r.user = u)
        d7 == Del(d6, "usertags", LAMBDA r : r.key = u)
    IN  Tx(<<d1, d2, d3, d4, d5, d6, d7, Del(d7, "users", LAMBDA r : r.id = u)>>)

\* Every topic without owner the user ever subscribed to is disabled, p2p or not.
disableUser(d, u) ==
    LET own == {t.name : t \in {x \in My!Owned(d, u) : x.state # "del"}}
        mine == {s.topic : s \in {x \in d.subs : x.user = u}}
        p2p == {n \in mine : Prefix(n) = "p2p"}
        d1 == Upd(subsDelForUser(d, u, FALSE), "subs",
                  LAMBDA s : s.topic \in own \cup p2p, My!Gone)
        d2 == Upd(d1, "topics", LAMBDA t : \/ own # {} /\ t.owner = u
                                           \/ t.owner = None /\ t.name \in mine,
                  LAMBDA t : [t EXCEPT !.state = "del"])
    IN  Commit(Upd(d2, "users", LAMBDA r : r.id = u,
                   LAMBDA r : [r EXCEPT !.state = "del"]))

UserDelete(d, u, hard) == IF hard THEN wipeUser(d, u) ELSE disableUser(d, u)

topicStateForUser(d, u, state) == My!topicStateForUser(d, u, state)
UserUpdate(d, u, upd) == My!UserUpdate(d, u, upd)
UserUpdateTags(d, u, add, remove, reset) == My!UserUpdateTags(d, u, add, remove, reset)
UserGetByCred(d, method, value) == My!UserGetByCred(d, method, value)
UserUnreadCount(d, us) == My!UserUnreadCount(d, us)
UserGetUnvalidated(d) == My!UserGetUnvalidated(d)

-----------------------------------------------------------------------------
(* Credentials and devices. *)

CredUpsert(d, c) == My!CredUpsert(d, c)
CredDel(d, u, method, value) == My!CredDel(d, u, method, value)
CredConfirm(d, u, method) == My!CredConfirm(d, u, method)
CredFail(d, u, method) == My!CredFail(d, u, method)
CredGetActive(d, u, method) == My!CredGetActive(d, u, method)
CredGetAll(d, u, method, validatedOnly) == My!CredGetAll(d, u, method, validatedOnly)
DeviceUpsert(d, u, hash) == My!DeviceUpsert(d, u, hash)
DeviceDelete(d, u, hash) == My!DeviceDelete(d, u, hash)
DeviceGetAll(d, us) == My!DeviceGetAll(d, us)

-----------------------------------------------------------------------------
(* Topics and subscriptions. *)

topicCreate(d, t) == My!topicCreate(d, t)
TopicCreate(d, t) == My!TopicCreate(d, t)
createSubscription(d, s, undelete) == My!createSubscription(d, s, undelete)
TopicCreateP2P(d, initiator, invited) == My!TopicCreateP2P(d, initiator, invited)
TopicUpdateSubCnt(d, n) == My!TopicUpdateSubCnt(d, n)
TopicGet(d, n) == My!TopicGet(d, n)
TopicsForUser(d, u, keepDeleted) == My!TopicsForUser(d, u, keepDeleted)
UsersForTopic(d, n, keepDeleted, oneUser) == My!UsersForTopic(d, n, keepDeleted, oneUser)
OwnTopics(d, u) == My!OwnTopics(d, u)
ChannelsForUser(d, u) == My!ChannelsForUser(d, u)
TopicShare(d, n, shares) == My!TopicShare(d, n, shares)
TopicDelete(d, n, isChan, hard) == My!TopicDelete(d, n, isChan, hard)
TopicUpdateOnMessage(d, n, seq) == My!TopicUpdateOnMessage(d, n, seq)
TopicUpdate(d, n, upd) == My!TopicUpdate(d, n, upd)
TopicOwnerChange(d, n, u) == My!TopicOwnerChange(d, n, u)
SubscriptionGet(d, n, u, keepDeleted) == My!SubscriptionGet(d, n, u, keepDeleted)
SubsForUser(d, u) == My!SubsForUser(d, u)
SubsForTopic(d, n, keepDeleted, oneUser) == My!SubsForTopic(d, n, keepDeleted, oneUser)
SubsUpdate(d, n, u, upd) == My!SubsUpdate(d, n, u, upd)

\* The subscriber is taken off the count of the topic of that very name: a
\* channel reader, whose topic is not in the table under it, off none.
SubsDelete(d, n, u) ==
    LET Hit(s) == s.topic = n /\ s.user = u /\ ~s.gone
        d1 == Upd(d, "subs", Hit, My!Gone)
        d2 == IF IsChannel(n) THEN d1
              ELSE Del(d1, "dellog", LAMBDA r : r.topic = n /\ r.for = u)
    IN  IF ~\E s \in d.subs : Hit(s) THEN Fail(ErrNotFound)
        ELSE Commit(IF TopicCat(n) # "grp" THEN d2
                    ELSE Upd(d2, "topics", LAMBDA t : t.name = n,
                             LAMBDA t : [t EXCEPT !.cnt = @ - 1]))

\* An empty search finds nothing.
Find(d, caller, req, opt, activeOnly) ==
    IF UNION req \cup opt = {} THEN Val({}) ELSE My!Find(d, caller, req, opt, activeOnly)
FindOne(d, tag) == My!FindOne(d, tag)

-----------------------------------------------------------------------------
(* Messages. *)

MessageSave(d, m) == My!MessageSave(d, m)

MessageGetAll(d, n, u, q, ranges) ==
    LET hidden == {<<r.low, r.hi>> : r \in {x \in d.dellog : x.topic = n /\ x.for = u}}
        Asked(i) == IF ranges # {} THEN InRanges(i, ranges)
                    ELSE i >= q[1] /\ (q[2] > 0 => i < q[2])
    IN  Val({<<m.seq, m.from>> : m \in {x \in d.msgs :
                x.topic = n /\ x.del = 0 /\ Asked(x.seq) /\ ~InRanges(x.seq, hidden)}})

MessageGetDeleted(d, n, u, q) == My!MessageGetDeleted(d, n, u, q)

\* A hard deletion logs the ranges it was given, not those it found.
MessageDeleteList(d, n, dels) ==
    LET del == dels[1]
        seqs == My!liveSeqs(d, n, del.ranges)
    IN  IF dels = <<>> THEN Commit(My!messagesOf(d, n))
        ELSE IF del.for = None /\ seqs = {} THEN Done(d)
        ELSE Commit(Ins(IF del.for # None THEN d ELSE My!clearMessages(d, n, del.delid, seqs),
                        "dellog", My!logEntries(n, del, del.ranges)))

-----------------------------------------------------------------------------
(* Files and the persistent cache. *)

FileStartUpload(d, f) == My!FileStartUpload(d, f)
FileFinishUpload(d, id, success) == My!FileFinishUpload(d, id, success)

\* An upload without user has a NULL userid, which is not read into an integer.
FileGet(d, id) ==
    IF \E f \in d.files : f.id = id /\ f.user = None THEN Fail(ErrStore)
    ELSE My!FileGet(d, id)

FileDeleteUnused(d, olderThan, limit) == My!FileDeleteUnused(d, olderThan, limit)
FileLinkAttachments(d, target, fids) == My!FileLinkAttachments(d, target, fids)
PCacheGet(d, k) == My!PCacheGet(d, k)
PCacheUpsert(d, k, v, failOnDuplicate) == My!PCacheUpsert(d, k, v, failOnDuplicate)
PCacheDelete(d, k) == My!PCacheDelete(d, k)
PCacheExpire(d, prefix) == My!PCacheExpire(d, prefix)
=============================================================================
