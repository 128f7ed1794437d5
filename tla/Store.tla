-------------------------------- MODULE Store --------------------------------
(***************************************************************************)
(* store/store.go: the methods by which the server reads and writes the    *)
(* database.  A method is the sequence of calls it makes to the adapter of *)
(* a tenant, one after the other and in no transaction of its own, each    *)
(* with what happens when it fails:                                        *)
(*    must   the method returns the error, after the calls of undo, whose  *)
(*           own errors nobody looks at;                                   *)
(*    try    the method goes on.                                           *)
(***************************************************************************)
EXTENDS TenantMySQL

MustOr(m, a, undo) == <<[m |-> m, a |-> a, on |-> "must", undo |-> undo]>>
Must(m, a) == MustOr(m, a, <<>>)
Try(m, a) == <<[m |-> m, a |-> a, on |-> "try", undo |-> <<>>]>>

\* A call of the interface TenantBusinessAdapter or TenantAuthAdapter.
ContentCalls(d, id, m, a) ==
    CASE m = "MessageSave" -> TenantMessageSave(d, id, a[1])
      [] m = "MessageGetAll" -> TenantMessageGetAll(d, id, a[1], a[2], a[3], {})
      [] m = "MessageDeleteList" -> TenantMessageDeleteList(d, id, a[1], a[2])
      [] m = "MessageGetDeleted" -> TenantMessageGetDeleted(d, id, a[1], a[2], a[3])
      [] m = "FileStartUpload" -> TenantFileStartUpload(d, id, a[1])
      [] m = "FileFinishUpload" -> TenantFileFinishUpload(d, id, a[1], a[2])
      [] m = "FileGet" -> TenantFileGet(d, id, a[1])
      [] m = "FileSelectUnused" -> Guarded(id, TRUE, Val(unusedFiles(d, id, TRUE, 0)))
      [] m = "FileDeleteUnused" -> deleteFiles(d, id, a[1])
      [] m = "FileLinkAttachments" -> TenantFileLinkAttachments(d, id, a[1], a[2])
      [] m = "PCacheGet" -> TenantPCacheGet(d, id, a[1])
      [] m = "PCacheUpsert" -> TenantPCacheUpsert(d, id, a[1], a[2], a[3])
      [] m = "PCacheDelete" -> TenantPCacheDelete(d, id, a[1])
      [] m = "PCacheExpire" -> TenantPCacheExpire(d, id, a[1])
TopicCalls(d, id, m, a) ==
    CASE m = "TopicCreate" -> TenantTopicCreate(d, id, a[1])
      [] m = "TopicCreateP2P" -> TenantTopicCreateP2P(d, id, a[1], a[2])
      [] m = "TopicGet" -> TenantTopicGet(d, id, a[1])
      [] m = "TopicsForUser" -> TenantTopicsForUser(d, id, a[1], a[2])
      [] m = "UsersForTopic" -> TenantUsersForTopic(d, id, a[1], a[2], None)
      [] m = "OwnTopics" -> TenantOwnTopics(d, id, a[1])
      [] m = "ChannelsForUser" -> TenantChannelsForUser(d, id, a[1])
      [] m = "TopicShare" -> TenantTopicShare(d, id, a[1], a[2])
      [] m = "TopicDelete" -> TenantTopicDelete(d, id, a[1], a[2], a[3])
      [] m = "TopicUpdateOnMessage" -> TenantTopicUpdateOnMessage(d, id, a[1], a[2])
      [] m = "TopicUpdateSubCnt" -> TenantTopicUpdateSubCnt(d, id, a[1])
      [] m = "TopicUpdate" -> TenantTopicUpdate(d, id, a[1], a[2])
      [] m = "TopicOwnerChange" -> TenantTopicOwnerChange(d, id, a[1], a[2])
      [] m = "SubscriptionGet" -> TenantSubscriptionGet(d, id, a[1], a[2], a[3])
      [] m = "SubsForUser" -> TenantSubsForUser(d, id, a[1])
      [] m = "SubsForTopic" -> TenantSubsForTopic(d, id, a[1], a[2], None)
      [] m = "SubsUpdate" -> TenantSubsUpdate(d, id, a[1], a[2], a[3])
      [] m = "SubsDelete" -> TenantSubsDelete(d, id, a[1], a[2])
      [] m = "Find" -> TenantFind(d, id, a[1], a[2], a[3], a[4])
      [] m = "FindOne" -> TenantFindOne(d, id, a[1])
      [] OTHER -> ContentCalls(d, id, m, a)
AuthCalls(d, id, m, a) ==
    CASE m = "AuthGetRecord" -> TenantAuthGetRecord(d, id, a[1], a[2])
      [] m = "AuthGetUniqueRecord" -> TenantAuthGetUniqueRecord(d, id, a[1])
      [] m = "AuthAddRecord" -> TenantAuthAddRecord(d, id, a[1])
      [] m = "AuthDelScheme" -> TenantAuthDelScheme(d, id, a[1], a[2])
      [] m = "AuthUpdRecord" -> TenantAuthUpdRecord(d, id, a[1], a[2], a[3], a[4], a[5])
      [] m = "UserGetByCred" -> TenantUserGetByCred(d, id, a[1], a[2])
      [] m = "CredUpsert" -> TenantCredUpsert(d, id, a[1])
      [] m = "CredConfirm" -> TenantCredConfirm(d, id, a[1], a[2])
      [] m = "CredFail" -> TenantCredFail(d, id, a[1], a[2])
      [] m = "CredGetActive" -> TenantCredGetActive(d, id, a[1], a[2])
      [] m = "CredGetAll" -> TenantCredGetAll(d, id, a[1], a[2], a[3])
      [] m = "CredDel" -> TenantCredDel(d, id, a[1], a[2], a[3])
      [] OTHER -> TopicCalls(d, id, m, a)
AdapterCall(d, id, m, a) ==
    CASE m = "UserCreate" -> TenantUserCreate(d, id, a[1])
      [] m = "UserGet" -> TenantUserGet(d, id, a[1])
      [] m = "UserGetAll" -> TenantUserGetAll(d, id, a[1])
      [] m = "UserDelete" -> TenantUserDelete(d, id, a[1], a[2])
      [] m = "UserUpdate" -> TenantUserUpdate(d, id, a[1], a[2])
      [] m = "UserUpdateTags" -> TenantUserUpdateTags(d, id, a[1], a[2], a[3], a[4])
      [] m = "UserUnreadCount" -> TenantUserUnreadCount(d, id, a[1])
      [] m = "UserGetUnvalidated" -> TenantUserGetUnvalidated(d, id)
      [] m = "DeviceUpsert" -> TenantDeviceUpsert(d, id, a[1], a[2])
      [] m = "DeviceGetAll" -> TenantDeviceGetAll(d, id, a[1])
      [] m = "DeviceDelete" -> TenantDeviceDelete(d, id, a[1], a[2])
      [] OTHER -> AuthCalls(d, id, m, a)

\* The store does not hand out a row of another tenant.
StoreCall(d, id, m, a) ==
    LET r == AdapterCall(d, id, m, a)
        checked == {"UserGet", "UserGetAll", "TopicGet", "SubscriptionGet", "FileGet"}
    IN  IF m \in checked /\ \E x \in r.ret : x.ten # id
        THEN [r EXCEPT !.err = ErrNotFound, !.ret = {}] ELSE r

-----------------------------------------------------------------------------
(* Users. *)
MeFnd == {"J", "P", "S"}
MeSub(id, u) == [ten |-> id, topic |-> <<"usr", u>>, user |-> u, want |-> MeFnd,
                 given |-> MeFnd, val |-> u]
FndSub(id, u) == [MeSub(id, u) EXCEPT !.topic = <<"fnd", u>>, !.val = None]
ephemeral(n) == Prefix(n) \in {"usr", "fnd"}

\* Subscriptions to one topic; those to me and fnd have no topic to count them.
SubsCreate(subs) ==
    LET n == subs[1].topic
    IN  IF subs = <<>> THEN <<>>
        ELSE Must("TopicShare", <<IF ephemeral(n) THEN NoTopic ELSE n, ToSet(subs)>>)
\* calls, undone by the calls of undo.
OrUndo(calls, undo) == [i \in DOMAIN calls |-> [calls[i] EXCEPT !.undo = undo]]

UsersCreate(id, u) ==
    Must("UserCreate", <<u>>)
    \o OrUndo(SubsCreate(<<MeSub(id, u.id), FndSub(id, u.id)>>), Try("UserDelete", <<u.id, TRUE>>))

GetAuthRecord(u, scheme) == Must("AuthGetRecord", <<u, scheme>>)
GetAuthUniqueRecord(unique) == Must("AuthGetUniqueRecord", <<unique>>)
AddAuthRecord(r) == Must("AuthAddRecord", <<r>>)
UpdateAuthRecord(u, scheme, unique, lvl, secret) ==
    Must("AuthUpdRecord", <<u, scheme, unique, lvl, secret>>)
DelAuthRecords(u, scheme) == Must("AuthDelScheme", <<u, scheme>>)

UsersGet(u) == Must("UserGet", <<u>>)
UsersGetAll(us) == Must("UserGetAll", <<us>>)
GetByCred(method, value) == Must("UserGetByCred", <<method, value>>)
UsersDelete(u, hard) == Must("UserDelete", <<u, hard>>)
UsersUpdate(u, upd) == Must("UserUpdate", <<u, upd>>)
UpdateLastSeen(u) == UsersUpdate(u, [seen |-> TRUE])
UpdateTags(u, add, remove, reset) == Must("UserUpdateTags", <<u, add, remove, reset>>)
UpdateState(u, state) == UsersUpdate(u, [state |-> state])

UsersGetSubs(u) == Must("SubsForUser", <<u>>)
FindSubs(u, req, opt, activeOnly) ==
    IF req = {} /\ opt = {} THEN <<>> ELSE Must("Find", <<u, req, opt, activeOnly>>)
FindOne(tag) == Must("FindOne", <<tag>>)
GetTopics(u) == Must("TopicsForUser", <<u, FALSE>>)
GetTopicsAny(u) == Must("TopicsForUser", <<u, TRUE>>)
GetOwnTopics(u) == Must("OwnTopics", <<u>>)
GetChannels(u) == Must("ChannelsForUser", <<u>>)
GetUnreadCount(us) == Must("UserUnreadCount", <<us>>)
GetUnvalidated == Must("UserGetUnvalidated", <<>>)

UpsertCred(c) == Must("CredUpsert", <<c>>)
ConfirmCred(u, method) == Must("CredConfirm", <<u, method>>)
FailCred(u, method) == Must("CredFail", <<u, method>>)
GetActiveCred(u, method) == Must("CredGetActive", <<u, method>>)
GetAllCreds(u, method, validatedOnly) == Must("CredGetAll", <<u, method, validatedOnly>>)
DelCred(u, method, value) == Must("CredDel", <<u, method, value>>)

-----------------------------------------------------------------------------
(* Topics and subscriptions. *)
\* If the subscription of the owner fails the topic stays.
TopicsCreate(t, owner, sub) ==
    Must("TopicCreate", <<[t EXCEPT !.owner = owner]>>)
    \o IF owner = None THEN <<>> ELSE SubsCreate(<<sub>>)
CreateP2P(one, two) == Must("TopicCreateP2P", <<one, two>>)
TopicsGet(n) == Must("TopicGet", <<n>>)
GetUsers(n) == Must("UsersForTopic", <<n, FALSE>>)
GetUsersAny(n) == Must("UsersForTopic", <<n, TRUE>>)
GetSubs(n) == Must("SubsForTopic", <<n, FALSE>>)
GetSubsAny(n) == Must("SubsForTopic", <<n, TRUE>>)
UpdateSubCnt(n) == Must("TopicUpdateSubCnt", <<n>>)
TopicsUpdate(n, upd) == Must("TopicUpdate", <<n, upd>>)
OwnerChange(n, u) == Must("TopicOwnerChange", <<n, u>>)
TopicsDelete(n, isChan, hard) == Must("TopicDelete", <<n, isChan, hard>>)
SubsGet(n, u, keepDeleted) == Must("SubscriptionGet", <<n, u, keepDeleted>>)
SubsUpdate(n, u, upd) == Must("SubsUpdate", <<n, u, upd>>)
SubsDelete(n, u) == Must("SubsDelete", <<n, u>>)

-----------------------------------------------------------------------------
(* Messages. *)
MessagesSave(m, fids, readBySender) ==
    Must("TopicUpdateOnMessage", <<m.topic, m>>) \o Must("MessageSave", <<m>>)
    \o (IF readBySender /\ m.from # None
        THEN Try("SubsUpdate", <<m.topic, m.from, [recv |-> m.seq, read |-> m.seq]>>) ELSE <<>>)
    \o IF fids = <<>> THEN <<>>
        ELSE Must("FileLinkAttachments", <<<<"msg", m.topic, m.seq>>, fids>>)

\* delid is 0 when the topic itself is deleted; for is None to delete for all.
DeleteList(id, n, delid, for, ranges) ==
    LET del == [ten |-> id, for |-> for, delid |-> delid, ranges |-> ranges]
    IN  IF delid = 0 THEN Must("MessageDeleteList", <<n, <<>>>>)
        ELSE Must("MessageDeleteList", <<n, <<del>>>>)
             \o TopicsUpdate(n, [del |-> delid]) \o SubsUpdate(n, for, [del |-> delid])
MessagesGetAll(n, u, q) == Must("MessageGetAll", <<n, u, q>>)
GetDeleted(n, u, q) == Must("MessageGetDeleted", <<n, u, q>>)

-----------------------------------------------------------------------------
(* Devices, files, the persistent cache. *)
DevicesUpdate(id, u, old, hash) ==
    (IF old # None /\ hash # old THEN Must("DeviceDelete", <<u, old>>) ELSE <<>>)
    \o IF hash # None THEN Must("DeviceUpsert", <<u, [ten |-> id, hash |-> hash]>>) ELSE <<>>
DevicesGetAll(us) == Must("DeviceGetAll", <<us>>)
DevicesDelete(u, hash) == Must("DeviceDelete", <<u, hash>>)

StartUpload(f) == Must("FileStartUpload", <<[f EXCEPT !.status = "started"]>>)
FinishUpload(f, success) == Must("FileFinishUpload", <<f, success>>)
FilesGet(f) == Must("FileGet", <<f>>)
\* A transaction of two statements, between which other calls may come: what was
\* found is the argument of the second.
DeleteUnused == Must("FileSelectUnused", <<>>)
DeleteFound(found) == Must("FileDeleteUnused", <<found>>)
LinkAttachments(target, fids) ==
    IF fids = <<>> THEN <<>> ELSE Must("FileLinkAttachments", <<target, fids>>)

PCacheGet(k) == Must("PCacheGet", <<k>>)
PCacheUpsert(k, v, failOnDuplicate) == Must("PCacheUpsert", <<k, v, failOnDuplicate>>)
PCacheDelete(k) == Must("PCacheDelete", <<k>>)
PCacheExpire(prefix) == Must("PCacheExpire", <<prefix>>)
=============================================================================
