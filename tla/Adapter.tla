------------------------------ MODULE Adapter ------------------------------
(***************************************************************************)
(* The interface of db/adapter.go, and the adapters that implement it: the *)
(* methods of the MySQL adapter for a tenant, which are those the store    *)
(* calls, its methods without tenant, PostgreSQL, MongoDB without and with *)
(* transactions, and RethinkDB.                                            *)
(***************************************************************************)
EXTENDS Tables

Te == INSTANCE TenantMySQL
My == INSTANCE MySQLAdapter
Pg == INSTANCE PostgresAdapter
Mg == INSTANCE MongoAdapter
Re == INSTANCE RethinkAdapter

Kinds == {"tenant", "mysql", "postgres", "mongo", "mongotx", "rethink"}
Pick(k, te, my, pg, mg, re) ==
    CASE k = "tenant" -> te [] k = "mysql" -> my [] k = "postgres" -> pg
      [] k \in {"mongo", "mongotx"} -> mg [] k = "rethink" -> re

\* The tenant on whose behalf the tenant methods are called: rows get it going
\* in, and lose it coming out.
Tenant == 1
T(r) == With(r, [ten |-> Tenant])
Own(r) == Ret({Plain(x, {"ten"}) : x \in r.ret}, r)
OwnSubs(r) == Ret({[x EXCEPT !.s = Plain(@, {"ten"})] : x \in r.ret}, r)

-----------------------------------------------------------------------------
(* Users and their authentication records. *)

UserCreate(k, d, u) ==
    Pick(k, Te!TenantUserCreate(d, Tenant, T(u)), My!UserCreate(d, u),
            Pg!UserCreate(d, u), Mg!UserCreate(d, u), Re!UserCreate(d, u))
AuthAddRecord(k, d, r) ==
    Pick(k, Te!TenantAuthAddRecord(d, Tenant, T(r)), My!AuthAddRecord(d, r),
            Pg!AuthAddRecord(d, r), Mg!AuthAddRecord(d, r), Re!AuthAddRecord(d, r))
AuthDelScheme(k, d, u, scheme) ==
    Pick(k, Te!TenantAuthDelScheme(d, Tenant, u, scheme),
            My!AuthDelScheme(d, u, scheme), Pg!AuthDelScheme(d, u, scheme),
            Mg!AuthDelScheme(d, u, scheme), Re!AuthDelScheme(d, u, scheme))
AuthUpdRecord(k, d, u, scheme, unique, lvl, secret) ==
    Pick(k, Te!TenantAuthUpdRecord(d, Tenant, u, scheme, unique, lvl, secret),
            My!AuthUpdRecord(d, u, scheme, unique, lvl, secret),
            Pg!AuthUpdRecord(d, u, scheme, unique, lvl, secret),
            Mg!AuthUpdRecord(d, u, scheme, unique, lvl, secret),
            Re!AuthUpdRecord(d, u, scheme, unique, lvl, secret))
AuthGetRecord(k, d, u, scheme) ==
    Pick(k, Te!TenantAuthGetRecord(d, Tenant, u, scheme),
            My!AuthGetRecord(d, u, scheme), Pg!AuthGetRecord(d, u, scheme),
            Mg!AuthGetRecord(d, u, scheme), Re!AuthGetRecord(d, u, scheme))
AuthGetUniqueRecord(k, d, unique) ==
    Pick(k, Te!TenantAuthGetUniqueRecord(d, Tenant, unique),
            My!AuthGetUniqueRecord(d, unique), Pg!AuthGetUniqueRecord(d, unique),
            Mg!AuthGetUniqueRecord(d, unique), Re!AuthGetUniqueRecord(d, unique))
UserGet(k, d, u) ==
    Pick(k, Own(Te!TenantUserGet(d, Tenant, u)), My!UserGet(d, u),
            Pg!UserGet(d, u), Mg!UserGet(d, u), Re!UserGet(d, u))
UserGetAll(k, d, us) ==
    Pick(k, Own(Te!TenantUserGetAll(d, Tenant, us)), My!UserGetAll(d, us),
            Pg!UserGetAll(d, us), Mg!UserGetAll(d, us), Re!UserGetAll(d, us))
UserDelete(k, d, u, hard) ==
    Pick(k, Te!TenantUserDelete(d, Tenant, u, hard), My!UserDelete(d, u, hard),
            Pg!UserDelete(d, u, hard), Mg!UserDelete(d, u, hard, k = "mongotx"),
            Re!UserDelete(d, u, hard))
UserUpdate(k, d, u, upd) ==
    Pick(k, Te!TenantUserUpdate(d, Tenant, u, upd), My!UserUpdate(d, u, upd),
            Pg!UserUpdate(d, u, upd), Mg!UserUpdate(d, u, upd),
            Re!UserUpdate(d, u, upd))
UserUpdateTags(k, d, u, add, remove, reset) ==
    Pick(k, Te!TenantUserUpdateTags(d, Tenant, u, add, remove, reset),
            My!UserUpdateTags(d, u, add, remove, reset),
            Pg!UserUpdateTags(d, u, add, remove, reset),
            Mg!UserUpdateTags(d, u, add, remove, reset),
            Re!UserUpdateTags(d, u, add, remove, reset))
UserGetByCred(k, d, method, value) ==
    Pick(k, Te!TenantUserGetByCred(d, Tenant, method, value),
            My!UserGetByCred(d, method, value), Pg!UserGetByCred(d, method, value),
            Mg!UserGetByCred(d, method, value), Re!UserGetByCred(d, method, value))
UserUnreadCount(k, d, us) ==
    Pick(k, Te!TenantUserUnreadCount(d, Tenant, us), My!UserUnreadCount(d, us),
            Pg!UserUnreadCount(d, us), Mg!UserUnreadCount(d, us),
            Re!UserUnreadCount(d, us))
UserGetUnvalidated(k, d) ==
    Pick(k, Te!TenantUserGetUnvalidated(d, Tenant), My!UserGetUnvalidated(d),
            Pg!UserGetUnvalidated(d), Mg!UserGetUnvalidated(d),
            Re!UserGetUnvalidated(d))
-----------------------------------------------------------------------------
(* Credentials and devices. *)

CredUpsert(k, d, c) ==
    Pick(k, Te!TenantCredUpsert(d, Tenant, c), My!CredUpsert(d, c),
            Pg!CredUpsert(d, c), Mg!CredUpsert(d, c), Re!CredUpsert(d, c))
CredDel(k, d, u, method, value) ==
    Pick(k, Te!TenantCredDel(d, Tenant, u, method, value),
            My!CredDel(d, u, method, value), Pg!CredDel(d, u, method, value),
            Mg!CredDel(d, u, method, value), Re!CredDel(d, u, method, value))
CredConfirm(k, d, u, method) ==
    Pick(k, Te!TenantCredConfirm(d, Tenant, u, method),
            My!CredConfirm(d, u, method), Pg!CredConfirm(d, u, method),
            Mg!CredConfirm(d, u, method), Re!CredConfirm(d, u, method))
CredFail(k, d, u, method) ==
    Pick(k, Te!TenantCredFail(d, Tenant, u, method), My!CredFail(d, u, method),
            Pg!CredFail(d, u, method), Mg!CredFail(d, u, method),
            Re!CredFail(d, u, method))
CredGetActive(k, d, u, method) ==
    Pick(k, Te!TenantCredGetActive(d, Tenant, u, method),
            My!CredGetActive(d, u, method), Pg!CredGetActive(d, u, method),
            Mg!CredGetActive(d, u, method), Re!CredGetActive(d, u, method))
CredGetAll(k, d, u, method, validatedOnly) ==
    Pick(k, Te!TenantCredGetAll(d, Tenant, u, method, validatedOnly),
            My!CredGetAll(d, u, method, validatedOnly),
            Pg!CredGetAll(d, u, method, validatedOnly),
            Mg!CredGetAll(d, u, method, validatedOnly),
            Re!CredGetAll(d, u, method, validatedOnly))
DeviceUpsert(k, d, u, hash) ==
    Pick(k, Te!TenantDeviceUpsert(d, Tenant, u, T([hash |-> hash])),
            My!DeviceUpsert(d, u, hash), Pg!DeviceUpsert(d, u, hash),
            Mg!DeviceUpsert(d, u, hash), Re!DeviceUpsert(d, u, hash))
DeviceDelete(k, d, u, hash) ==
    Pick(k, Te!TenantDeviceDelete(d, Tenant, u, hash), My!DeviceDelete(d, u, hash),
            Pg!DeviceDelete(d, u, hash), Mg!DeviceDelete(d, u, hash),
            Re!DeviceDelete(d, u, hash))
DeviceGetAll(k, d, us) ==
    Pick(k, Te!TenantDeviceGetAll(d, Tenant, us), My!DeviceGetAll(d, us),
            Pg!DeviceGetAll(d, us), Mg!DeviceGetAll(d, us), Re!DeviceGetAll(d, us))
-----------------------------------------------------------------------------
(* Topics and subscriptions. *)

TopicCreate(k, d, t) ==
    Pick(k, Te!TenantTopicCreate(d, Tenant, T(t)), My!TopicCreate(d, t),
            Pg!TopicCreate(d, t), Mg!TopicCreate(d, t), Re!TopicCreate(d, t))
TopicCreateP2P(k, d, one, two) ==
    Pick(k, Te!TenantTopicCreateP2P(d, Tenant, T(one), T(two)),
            My!TopicCreateP2P(d, one, two), Pg!TopicCreateP2P(d, one, two),
            Mg!TopicCreateP2P(d, one, two), Re!TopicCreateP2P(d, one, two))
TopicGet(k, d, n) ==
    Pick(k, Own(Te!TenantTopicGet(d, Tenant, n)), My!TopicGet(d, n),
            Pg!TopicGet(d, n), Mg!TopicGet(d, n), Re!TopicGet(d, n))
TopicsForUser(k, d, u, keep) ==
    Pick(k, OwnSubs(Te!TenantTopicsForUser(d, Tenant, u, keep)),
            My!TopicsForUser(d, u, keep), Pg!TopicsForUser(d, u, keep),
            Mg!TopicsForUser(d, u, keep), Re!TopicsForUser(d, u, keep))
UsersForTopic(k, d, n, keep, oneUser) ==
    Pick(k, OwnSubs(Te!TenantUsersForTopic(d, Tenant, n, keep, oneUser)),
            My!UsersForTopic(d, n, keep, oneUser),
            Pg!UsersForTopic(d, n, keep, oneUser),
            Mg!UsersForTopic(d, n, keep, oneUser),
            Re!UsersForTopic(d, n, keep, oneUser))
OwnTopics(k, d, u) ==
    Pick(k, Te!TenantOwnTopics(d, Tenant, u), My!OwnTopics(d, u),
            Pg!OwnTopics(d, u), Mg!OwnTopics(d, u), Re!OwnTopics(d, u))
ChannelsForUser(k, d, u) ==
    Pick(k, Te!TenantChannelsForUser(d, Tenant, u), My!ChannelsForUser(d, u),
            Pg!ChannelsForUser(d, u), Mg!ChannelsForUser(d, u),
            Re!ChannelsForUser(d, u))
TopicShare(k, d, n, shares) ==
    Pick(k, Te!TenantTopicShare(d, Tenant, n, {T(s) : s \in shares}),
            My!TopicShare(d, n, shares), Pg!TopicShare(d, n, shares),
            Mg!TopicShare(d, n, shares), Re!TopicShare(d, n, shares))
TopicDelete(k, d, n, isChan, hard) ==
    Pick(k, Te!TenantTopicDelete(d, Tenant, n, isChan, hard),
            My!TopicDelete(d, n, isChan, hard), Pg!TopicDelete(d, n, isChan, hard),
            Mg!TopicDelete(d, n, isChan, hard), Re!TopicDelete(d, n, isChan, hard))
TopicUpdateSubCnt(k, d, n) ==
    Pick(k, Te!TenantTopicUpdateSubCnt(d, Tenant, n), My!TopicUpdateSubCnt(d, n),
            Pg!TopicUpdateSubCnt(d, n), Mg!TopicUpdateSubCnt(d, n),
            Re!TopicUpdateSubCnt(d, n))
TopicUpdateOnMessage(k, d, n, seq) ==
    Pick(k, Te!TenantTopicUpdateOnMessage(d, Tenant, n, T([seq |-> seq])),
            My!TopicUpdateOnMessage(d, n, seq), Pg!TopicUpdateOnMessage(d, n, seq),
            Mg!TopicUpdateOnMessage(d, n, seq), Re!TopicUpdateOnMessage(d, n, seq))
TopicUpdate(k, d, n, upd) ==
    Pick(k, Te!TenantTopicUpdate(d, Tenant, n, upd), My!TopicUpdate(d, n, upd),
            Pg!TopicUpdate(d, n, upd), Mg!TopicUpdate(d, n, upd),
            Re!TopicUpdate(d, n, upd))
TopicOwnerChange(k, d, n, u) ==
    Pick(k, Te!TenantTopicOwnerChange(d, Tenant, n, u),
            My!TopicOwnerChange(d, n, u), Pg!TopicOwnerChange(d, n, u),
            Mg!TopicOwnerChange(d, n, u), Re!TopicOwnerChange(d, n, u))
SubscriptionGet(k, d, n, u, keep) ==
    Pick(k, Own(Te!TenantSubscriptionGet(d, Tenant, n, u, keep)),
            My!SubscriptionGet(d, n, u, keep), Pg!SubscriptionGet(d, n, u, keep),
            Mg!SubscriptionGet(d, n, u, keep), Re!SubscriptionGet(d, n, u, keep))
SubsForUser(k, d, u) ==
    Pick(k, Own(Te!TenantSubsForUser(d, Tenant, u)), My!SubsForUser(d, u),
            Pg!SubsForUser(d, u), Mg!SubsForUser(d, u), Re!SubsForUser(d, u))
SubsForTopic(k, d, n, keep, oneUser) ==
    Pick(k, Own(Te!TenantSubsForTopic(d, Tenant, n, keep, oneUser)),
            My!SubsForTopic(d, n, keep, oneUser),
            Pg!SubsForTopic(d, n, keep, oneUser),
            Mg!SubsForTopic(d, n, keep, oneUser),
            Re!SubsForTopic(d, n, keep, oneUser))
SubsUpdate(k, d, n, u, upd) ==
    Pick(k, Te!TenantSubsUpdate(d, Tenant, n, u, upd), My!SubsUpdate(d, n, u, upd),
            Pg!SubsUpdate(d, n, u, upd), Mg!SubsUpdate(d, n, u, upd),
            Re!SubsUpdate(d, n, u, upd))
SubsDelete(k, d, n, u) ==
    Pick(k, Te!TenantSubsDelete(d, Tenant, n, u), My!SubsDelete(d, n, u),
            Pg!SubsDelete(d, n, u), Mg!SubsDelete(d, n, u, k = "mongotx"),
            Re!SubsDelete(d, n, u))
Find(k, d, caller, req, opt, activeOnly) ==
    Pick(k, Te!TenantFind(d, Tenant, caller, req, opt, activeOnly),
            My!Find(d, caller, req, opt, activeOnly),
            Pg!Find(d, caller, req, opt, activeOnly),
            Mg!Find(d, caller, req, opt, activeOnly),
            Re!Find(d, caller, req, opt, activeOnly))
FindOne(k, d, tag) ==
    Pick(k, Te!TenantFindOne(d, Tenant, tag), My!FindOne(d, tag),
            Pg!FindOne(d, tag), Mg!FindOne(d, tag), Re!FindOne(d, tag))
-----------------------------------------------------------------------------
(* Messages. *)

MessageSave(k, d, m) ==
    Pick(k, Te!TenantMessageSave(d, Tenant, T(m)), My!MessageSave(d, m),
            Pg!MessageSave(d, m), Mg!MessageSave(d, m), Re!MessageSave(d, m))
MessageGetAll(k, d, n, u, q, ranges) ==
    Pick(k, Te!TenantMessageGetAll(d, Tenant, n, u, q, ranges),
            My!MessageGetAll(d, n, u, q, ranges),
            Pg!MessageGetAll(d, n, u, q, ranges),
            Mg!MessageGetAll(d, n, u, q, ranges),
            Re!MessageGetAll(d, n, u, q, ranges))
MessageGetDeleted(k, d, n, u, q) ==
    Pick(k, Te!TenantMessageGetDeleted(d, Tenant, n, u, q),
            My!MessageGetDeleted(d, n, u, q), Pg!MessageGetDeleted(d, n, u, q),
            Mg!MessageGetDeleted(d, n, u, q), Re!MessageGetDeleted(d, n, u, q))
MessageDeleteList(k, d, n, dels) ==
    Pick(k,
            Te!TenantMessageDeleteList(d, Tenant, n, [i \in DOMAIN dels |-> T(dels[i])]),
            My!MessageDeleteList(d, n, dels), Pg!MessageDeleteList(d, n, dels),
            Mg!MessageDeleteList(d, n, dels), Re!MessageDeleteList(d, n, dels))
-----------------------------------------------------------------------------
(* Files and the persistent cache. *)

FileStartUpload(k, d, f) ==
    Pick(k, Te!TenantFileStartUpload(d, Tenant, T(f)), My!FileStartUpload(d, f),
            Pg!FileStartUpload(d, f), Mg!FileStartUpload(d, f),
            Re!FileStartUpload(d, f))
FileFinishUpload(k, d, id, success) ==
    Pick(k, Te!TenantFileFinishUpload(d, Tenant, T([id |-> id, loc |-> id]), success),
            My!FileFinishUpload(d, id, success),
            Pg!FileFinishUpload(d, id, success),
            Mg!FileFinishUpload(d, id, success),
            Re!FileFinishUpload(d, id, success))
FileGet(k, d, id) ==
    Pick(k, Own(Te!TenantFileGet(d, Tenant, id)), My!FileGet(d, id),
            Pg!FileGet(d, id), Mg!FileGet(d, id), Re!FileGet(d, id))
FileDeleteUnused(k, d, olderThan, limit) ==
    Pick(k, Te!TenantFileDeleteUnused(d, Tenant, olderThan, limit),
            My!FileDeleteUnused(d, olderThan, limit),
            Pg!FileDeleteUnused(d, olderThan, limit),
            Mg!FileDeleteUnused(d, olderThan, limit),
            Re!FileDeleteUnused(d, olderThan, limit))
FileLinkAttachments(k, d, target, fids) ==
    Pick(k, Te!TenantFileLinkAttachments(d, Tenant, target, fids),
            My!FileLinkAttachments(d, target, fids),
            Pg!FileLinkAttachments(d, target, fids),
            Mg!FileLinkAttachments(d, target, fids),
            Re!FileLinkAttachments(d, target, fids))
PCacheGet(k, d, key) ==
    Pick(k, Te!TenantPCacheGet(d, Tenant, key), My!PCacheGet(d, key),
            Pg!PCacheGet(d, key), Mg!PCacheGet(d, key), Re!PCacheGet(d, key))
PCacheUpsert(k, d, key, v, fail) ==
    Pick(k, Te!TenantPCacheUpsert(d, Tenant, key, v, fail),
            My!PCacheUpsert(d, key, v, fail), Pg!PCacheUpsert(d, key, v, fail),
            Mg!PCacheUpsert(d, key, v, fail), Re!PCacheUpsert(d, key, v, fail))
PCacheDelete(k, d, key) ==
    Pick(k, Te!TenantPCacheDelete(d, Tenant, key), My!PCacheDelete(d, key),
            Pg!PCacheDelete(d, key), Mg!PCacheDelete(d, key),
            Re!PCacheDelete(d, key))
PCacheExpire(k, d, prefix) ==
    Pick(k, Te!TenantPCacheExpire(d, Tenant, prefix), My!PCacheExpire(d, prefix),
            Pg!PCacheExpire(d, prefix), Mg!PCacheExpire(d, prefix),
            Re!PCacheExpire(d, prefix))
=============================================================================
