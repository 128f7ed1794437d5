------------------------------ MODULE Adapters ------------------------------
(***************************************************************************)
(* The adapters side by side.  Every call of the interface is made on the  *)
(* database of every adapter; what it returns, and what the interface then *)
(* shows, is compared with the adapter the store uses.  An adapter that    *)
(* differs is left out from then on: its database has another history.     *)
(* A call made of several statements may stop after any of them; what the  *)
(* same call does when it is made again then is part of the comparison.    *)
(***************************************************************************)
EXTENDS Adapter

CONSTANTS MaxCalls,   \* calls made one after the other
          Scenarios   \* which calls: "accounts", "topics", "messages", "files"

VARIABLES scenario, calls,
          dbs,    \* the database of each adapter still compared
          odd,    \* <<method, adapter>>: the last call did something else there
          torn    \* <<method, adapter, what>>: stopped halfway, it cannot be completed
vars == <<scenario, calls, dbs, odd, torn>>

-----------------------------------------------------------------------------
(* A server with some history: a owns the group g, which is a channel read  *)
(* by c; b is a member and deleted message 2 for themselves; a and b talk   *)
(* in p2p.  a has a confirmed address, b is trying to confirm one.          *)
Users == {"a", "b", "c"}
G == <<"grp", "g">>
P2P == <<"p2p", "a", "b">>
Full == {"J", "R", "W", "P", "O"}
Plainly == {"J", "R", "W", "P"}
Reading == {"J", "R", "P"}

User(u, tags) == [id |-> u, state |-> "ok", tags |-> tags, val |-> u, seen |-> u # "b"]
Auth(u, scheme, name) ==
    [uname |-> name, user |-> u, scheme |-> scheme, lvl |-> "auth", secret |-> "s"]
Cred(u, value, done) ==
    [method |-> "email", value |-> value, user |-> u, resp |-> "123", done |-> done,
     retries |-> 0]
Topic(n, u, bt, tags) ==
    [name |-> n, state |-> "ok", owner |-> u, bt |-> bt, seq |-> 0, del |-> 0, cnt |-> 0,
     tags |-> tags, val |-> "pub"]
Sub(n, u, mode) == [topic |-> n, user |-> u, want |-> mode, given |-> mode, val |-> u]
Msg(n, i, u) == [topic |-> n, seq |-> i, from |-> u, del |-> 0]
File(id, u, old) == [id |-> id, status |-> "done", user |-> u, old |-> old, loc |-> id]

Seed ==
    [users |-> {User("a", {"x"}), User("b", {}), User("c", {})},
     usertags |-> {[key |-> "a", tag |-> "x"]},
     auth |-> {Auth("a", "basic", "alice"), Auth("b", "basic", "bob")},
     devices |-> {[hash |-> "h", user |-> "a"]},
     creds |-> {With(Cred("a", "x@", TRUE), [key |-> <<"email", "x@">>, gone |-> FALSE]),
                With(Cred("b", "y@", FALSE), [key |-> <<"b", "email", "y@">>, gone |-> FALSE,
                                              retries |-> 1])},
     topics |-> {[Topic(G, "a", TRUE, {"x", "y"}) EXCEPT !.seq = 3, !.del = 1, !.cnt = 3],
                 Topic(P2P, None, FALSE, {})},
     topictags |-> {[key |-> G, tag |-> g] : g \in {"x", "y"}},
     subs |-> {[My!newSub(Sub(G, "a", Full)) EXCEPT !.read = 1], My!newSub(Sub(G, "b", Plainly)),
               My!newSub(Sub(<<"chn", "g">>, "c", Reading)),
               My!newSub(Sub(P2P, "a", Plainly)), My!newSub(Sub(P2P, "b", Plainly))},
     msgs |-> {Msg(G, 1, "a"), Msg(G, 2, "b"), Msg(G, 3, "a")},
     dellog |-> {[topic |-> G, for |-> "b", delid |-> 1, low |-> 2, hi |-> 3]},
     files |-> {File("f1", "a", TRUE), File("f2", "a", TRUE), File("f3", "b", FALSE)},
     links |-> {[file |-> "f1", target |-> <<"msg", G, 1>>]},
     kv |-> {[key |-> <<"p", "k">>, val |-> "v", at |-> "old"]}]

\* The same history in the tables of a tenant, and in documents.
TenantSeed ==
    [t \in DOMAIN Seed |->
        IF t = "kv" THEN {[r EXCEPT !.key = <<Tenant>> \o @] : r \in Seed.kv}
        ELSE {T(r) : r \in Seed[t]}]

Attached(target) == {l.file : l \in {x \in Seed.links : x.target = target}}
Times(f) == Cardinality({l \in Seed.links : l.file = f.id})
DocSeed ==
    [users |-> {With(u, [att |-> Attached(<<"user", u.id>>), devices |->
                    {x.hash : x \in {y \in Seed.devices : y.user = u.id}}]) : u \in Seed.users},
     topics |-> {With(t, [att |-> Attached(<<"topic", t.name>>)]) : t \in Seed.topics},
     msgs |-> {With(m, [att |-> Attached(<<"msg", m.topic, m.seq>>),
                        delfor |-> {<<l.for, l.delid>> : l \in {x \in Seed.dellog :
                            x.topic = m.topic /\ x.low <= m.seq /\ m.seq < x.hi}}]) : m \in Seed.msgs},
     dellog |-> {[topic |-> l.topic, for |-> l.for, delid |-> l.delid,
                  ranges |-> {<<l.low, My!shownHi(l)>>}] : l \in Seed.dellog},
     files |-> {With(f, [use |-> IF Times(f) = 0 THEN <<>> ELSE <<Times(f)>>]) : f \in Seed.files},
     auth |-> Seed.auth, creds |-> Seed.creds, subs |-> Seed.subs, kv |-> Seed.kv]

Init ==
    /\ scenario \in Scenarios
    /\ dbs = [k \in Kinds |-> Pick(k, TenantSeed, Seed, Seed, DocSeed, DocSeed)]
    /\ calls = 0 /\ odd = {} /\ torn = {}

-----------------------------------------------------------------------------
(* What the interface shows after a call. *)
All == <<0, 0>>
LookAccounts(k, d) ==
    [users |-> UserGetAll(k, d, Users).ret,
     auth |-> {<<u, AuthGetRecord(k, d, u, "basic").ret>> : u \in Users},
     names |-> {<<n, AuthGetUniqueRecord(k, d, n).ret>> : n \in {"alice", "bob", "carol"}},
     creds |-> {<<u, CredGetActive(k, d, u, "email").ret, CredGetAll(k, d, u, None, FALSE).ret,
                  CredGetAll(k, d, u, "email", TRUE).ret>> : u \in Users},
     known |-> {<<v, UserGetByCred(k, d, "email", v).ret>> : v \in {"x@", "y@"}},
     idle |-> UserGetUnvalidated(k, d).ret,
     devices |-> DeviceGetAll(k, d, Users).ret]
LookTopics(k, d) ==
    [topics |-> {<<n, TopicGet(k, d, n).ret>> : n \in {G, <<"grp", "h">>}} \cup
                {<<P2P, TopicGet(k, d, P2P).ret>>},
     contacts |-> {<<u, TopicsForUser(k, d, u, FALSE).ret>> : u \in Users},
     members |-> {<<n, UsersForTopic(k, d, n, FALSE, None).ret,
                    SubsForTopic(k, d, n, TRUE, None).ret>> : n \in {G, <<"chn", "g">>}},
     own |-> {<<u, OwnTopics(k, d, u).ret, SubsForUser(k, d, u).ret>> : u \in Users},
     found |-> Find(k, d, "b", {{"x", "z"}}, {"y"}, TRUE).ret]
\* The numbers of the deletion log: how it is cut into ranges does not matter.
Logged(k, d, u) ==
    UNION {{<<r[1], i>> : i \in {j \in 1..6 : InRange(j, <<r[2], r[3]>>)}} :
               r \in MessageGetDeleted(k, d, G, u, All).ret}
LookMessages(k, d) ==
    [msgs |-> {<<u, MessageGetAll(k, d, G, u, All, {}).ret>> : u \in Users},
     log |-> {<<u, Logged(k, d, u)>> : u \in Users}]
LookFiles(k, d) ==
    [files |-> {<<f, FileGet(k, d, f).ret>> : f \in {"f1", "f2", "f3", "f4"}},
     kv |-> {<<x, PCacheGet(k, d, x).ret>> : x \in {<<"p", "k">>, <<"p", "n">>}}]

Look(k, d) ==
    CASE scenario = "accounts" -> LookAccounts(k, d)
      [] scenario = "topics" -> LookTopics(k, d)
      [] scenario = "messages" -> LookMessages(k, d)
      [] scenario = "files" -> LookFiles(k, d)

-----------------------------------------------------------------------------
(* The calls: <<method, arguments>>. *)
Of(op, args) == {op} \X args

\* A name that is there and one that is taken, a scheme the user has and one they
\* do not have, the same again and something else.
DeleteUser(us) == Of("UserDelete", us \X BOOLEAN)
UpdateUser == Of("UserUpdate", {"a", "b"} \X {[state |-> "susp"], [tags |-> {"z"}]})
Accounts ==
    DeleteUser({"a", "b", "c"}) \cup UpdateUser
    \cup Of("UserCreate", {<<User("d", {"x", "z"})>>})
    \cup Of("AuthAddRecord", {<<Auth("a", "code", "carol")>>, <<Auth("b", "basic", "carol")>>,
                              <<Auth("c", "basic", "bob")>>})
    \cup Of("AuthDelScheme", {<<"a", "basic">>})
    \cup Of("AuthUpdRecord", {<<"a", "alice", "s">>, <<"a", "alice", "t">>, <<"a", "carol", "t">>,
                              <<"a", "bob", "s">>, <<"c", "carol", "s">>})
    \cup Of("UserUpdateTags", {<<{"x", "z"}, {}, <<>>>>, <<{}, {"x"}, <<>>>>, <<{"z"}, {"z"}, <<>>>>,
                               <<{}, {}, <<{}>>>>, <<{}, {}, <<{"z"}>>>>})
    \cup Of("CredUpsert", {<<Cred("b", "y@", FALSE)>>, <<Cred("b", "y@", TRUE)>>,
                           <<Cred("c", "y@", FALSE)>>, <<Cred("b", "x@", FALSE)>>,
                           <<Cred("b", "w@", FALSE)>>})
    \cup Of("CredDel", {<<"a", "x@">>, <<"b", "y@">>, <<"b", None>>, <<"c", None>>})
    \cup Of("CredConfirm", {<<"b">>, <<"c">>})
    \cup Of("CredFail", {<<"a">>, <<"b">>})
    \cup Of("DeviceUpsert", {"a", "b"} \X {"h", "i"})
    \cup Of("DeviceDelete", {"a", "b"} \X {"h", "i"})

\* Members, a reader, someone who left, the owner's own.
DeleteTopic(ns) == Of("TopicDelete", ns \X BOOLEAN)
DeleteSub(subs) == Of("SubsDelete", subs)
Topics ==
    UpdateUser \cup DeleteUser({"a", "b"}) \cup DeleteTopic({G, P2P})
    \cup DeleteSub({<<G, "b">>, <<<<"chn", "g">>, "c">>, <<P2P, "a">>})
    \cup Of("TopicCreate", {<<Topic(<<"grp", "h">>, "b", FALSE, {"x"})>>})
    \cup Of("TopicCreateP2P", {<<P2P>>, <<<<"p2p", "b", "c">>>>})
    \cup Of("TopicGet", {<<G>>}) \cup Of("TopicUpdateSubCnt", {<<G>>})
    \cup Of("TopicShare", {<<G, {Sub(G, "c", Reading)}>>, <<G, {Sub(G, "b", Reading)}>>,
                           <<NoTopic, {Sub(G, "b", Full)}>>,
                           <<G, {Sub(<<"chn", "g">>, "b", Reading)}>>})
    \cup Of("TopicUpdate", {G} \X {[val |-> "new"], [tags |-> {"z"}]})
    \cup Of("TopicOwnerChange", {<<G, "b">>})
    \cup Of("SubsUpdate", {"a", None} \X {[read |-> 2, recv |-> 3], [given |-> Reading]})
    \cup Of("Find", {<<{{"x"}}, {}>>, <<{{"x"}, {"y"}}, {"z"}>>})
    \cup Of("FindOne", {<<"x">>, <<"y">>})
    \cup Of("UserUnreadCount", {<<Users>>})
    \cup Of("ChannelsForUser", {<<u>> : u \in Users})
    \cup UNION {Of(op, {"b", "c"} \X BOOLEAN) : op \in {"SubscriptionGet", "TopicsForUser",
                                                        "UsersForTopic"}}

\* For everyone or for b: one message, a range, ranges that reach past the end, all.
DeleteMessages(for) ==
    Of("MessageDeleteList",
       {<<>>} \cup {<<[for |-> u, delid |-> 2, ranges |-> rs]>> :
                        u \in for, rs \in {{<<1, 0>>}, {<<2, 4>>}, {<<1, 0>>, <<3, 6>>}}})
Messages ==
    DeleteMessages({None, "b"}) \cup DeleteUser({"b", "c"}) \cup DeleteTopic({G})
    \cup DeleteSub({<<G, "b">>})
    \cup Of("MessageSave", {<<Msg(G, 4, "b")>>, <<Msg(G, 1, "b")>>})
    \cup Of("TopicUpdateOnMessage", {<<G, 4>>})
    \cup Of("MessageGetAll", {<<2, 0>>, <<0, 2>>, <<2, 3>>, <<0, 1>>} \X {{}}
                             \cup {All} \X {{<<1, 0>>}, {<<1, 3>>}, {<<1, 0>>, <<3, 4>>}})
    \cup Of("MessageGetDeleted", {<<q>> : q \in {<<2, 0>>, <<0, 2>>, <<2, 3>>, <<0, 1>>}})

\* Files and the persistent cache.
Files ==
    DeleteMessages({None}) \cup DeleteTopic({G}) \cup DeleteUser({"b", "c"})
    \cup Of("FileStartUpload",
            {<<[File("f4", "b", TRUE) EXCEPT !.status = "started", !.loc = None]>>})
    \cup Of("FileFinishUpload", {"f2", "f4"} \X BOOLEAN)
    \cup Of("FileDeleteUnused", BOOLEAN \X {0, 1})
    \cup Of("FileLinkAttachments",
            {<<"msg", G, 1>>, <<"user", "b">>, <<"topic", G>>}
            \X {<<"f2">>, <<"f2", "f3">>, <<"f4">>, <<>>})
    \cup Of("PCacheUpsert", {<<"p", "k">>, <<"p", "n">>, <<"p", "%">>} \X BOOLEAN)
    \cup Of("PCacheDelete", {<<<<"p", "k">>>>})
    \cup Of("PCacheExpire", {<<"p">>, <<None>>})

CallsOf == [accounts |-> Accounts, topics |-> Topics, messages |-> Messages, files |-> Files]

\* Identifiers and names of topics are new when they are created.
Possible(op, a, d) ==
    /\ op = "UserCreate" => a[1].id \notin Ids(d)
    /\ op = "TopicCreate" => a[1].name \notin Names(d)
    /\ op = "TopicCreateP2P" => a[1] \notin Names(d)
    /\ op = "FileStartUpload" => \A x \in d.files : x.id # a[1].id

-----------------------------------------------------------------------------
\* The call, made on the database of an adapter.
Make(k, d, op, a) ==
    CASE op = "UserCreate" -> UserCreate(k, d, a[1])
      [] op = "UserDelete" -> UserDelete(k, d, a[1], a[2])
      [] op = "UserUpdate" -> UserUpdate(k, d, a[1], a[2])
      [] op = "UserUpdateTags" -> UserUpdateTags(k, d, "a", a[1], a[2], a[3])
      [] op = "UserUnreadCount" -> UserUnreadCount(k, d, a[1])
      [] op = "AuthAddRecord" -> AuthAddRecord(k, d, a[1])
      [] op = "AuthDelScheme" -> AuthDelScheme(k, d, a[1], a[2])
      [] op = "AuthUpdRecord" -> AuthUpdRecord(k, d, a[1], "basic", a[2], "auth", a[3])
      [] op = "CredUpsert" -> CredUpsert(k, d, a[1])
      [] op = "CredDel" -> CredDel(k, d, a[1], "email", a[2])
      [] op = "CredConfirm" -> CredConfirm(k, d, a[1], "email")
      [] op = "CredFail" -> CredFail(k, d, a[1], "email")
      [] op = "DeviceUpsert" -> DeviceUpsert(k, d, a[1], a[2])
      [] op = "DeviceDelete" -> DeviceDelete(k, d, a[1], a[2])
      [] op = "TopicCreate" -> TopicCreate(k, d, a[1])
      [] op = "TopicCreateP2P" -> TopicCreateP2P(k, d, Sub(a[1], a[1][2], Plainly),
                                                       Sub(a[1], a[1][3], Reading))
      [] op = "TopicGet" -> TopicGet(k, d, a[1])
      [] op = "TopicShare" -> TopicShare(k, d, a[1], a[2])
      [] op = "TopicDelete" -> TopicDelete(k, d, a[1], a[1] = G, a[2])
      [] op = "TopicUpdateSubCnt" -> TopicUpdateSubCnt(k, d, a[1])
      [] op = "TopicUpdateOnMessage" -> TopicUpdateOnMessage(k, d, a[1], a[2])
      [] op = "TopicUpdate" -> TopicUpdate(k, d, a[1], a[2])
      [] op = "TopicOwnerChange" -> TopicOwnerChange(k, d, a[1], a[2])
      [] op = "TopicsForUser" -> TopicsForUser(k, d, a[1], a[2])
      [] op = "UsersForTopic" -> UsersForTopic(k, d, P2P, a[2], a[1])
      [] op = "ChannelsForUser" -> ChannelsForUser(k, d, a[1])
      [] op = "SubscriptionGet" -> SubscriptionGet(k, d, G, a[1], a[2])
      [] op = "SubsUpdate" -> SubsUpdate(k, d, G, a[1], a[2])
      [] op = "SubsDelete" -> SubsDelete(k, d, a[1], a[2])
      [] op = "Find" -> Find(k, d, "b", a[1], a[2], FALSE)
      [] op = "FindOne" -> FindOne(k, d, a[1])
      [] op = "MessageSave" -> MessageSave(k, d, a[1])
      [] op = "MessageGetAll" -> MessageGetAll(k, d, G, "b", a[1], a[2])
      [] op = "MessageGetDeleted" -> MessageGetDeleted(k, d, G, "b", a[1])
      [] op = "MessageDeleteList" -> MessageDeleteList(k, d, G, a)
      [] op = "FileStartUpload" -> FileStartUpload(k, d, a[1])
      [] op = "FileFinishUpload" -> FileFinishUpload(k, d, a[1], a[2])
      [] op = "FileDeleteUnused" -> FileDeleteUnused(k, d, a[1], a[2])
      [] op = "FileLinkAttachments" -> FileLinkAttachments(k, d, a[1], a[2])
      [] op = "PCacheUpsert" -> PCacheUpsert(k, d, a[1], "w", a[2])
      [] op = "PCacheDelete" -> PCacheDelete(k, d, a[1])
      [] op = "PCacheExpire" -> PCacheExpire(k, d, a[1])

\* No row without its parent: what foreign keys ensure where there are any.
Whole(d) == KeysHold(d) /\ Cascade(d) = d

Same(r1, r2) == r1.err = r2.err /\ r1.ret = r2.ret

\* The use counters of files, which no method of the interface returns.
Uses(d) == {<<f.id, f.use>> : f \in d.files}

\* What of a call made again, that ends in the database end, is not as the call r
\* left it in d: what the interface shows, or the counters.
Missed(k, again, end, r, d, seen) ==
    {x \in {"shown"} : again.err # r.err \/ Look(k, end) # seen}
    \cup {x \in {"uses"} : Uses(end) # Uses(d)}
\* The same, when it is made again on a database it left when it stopped.
Unresumed(k, op, a, r, d, seen) ==
    UNION {UNION {Missed(k, again, Final(r.steps[i], again), r, d, seen) :
                      again \in {Make(k, r.steps[i], op, a)}} : i \in 1..(Len(r.steps) - 1)}

\* A call on all the databases: r is what it returns on each, seen what the
\* interface then shows.
Each(op, a) ==
    /\ calls < MaxCalls /\ Whole(dbs["tenant"]) /\ Possible(op, a, dbs["tenant"])
    /\ calls' = calls + 1
    /\ \E r \in {[k \in DOMAIN dbs |-> Make(k, dbs[k], op, a)]} :
       \E after \in {[k \in DOMAIN dbs |-> Final(dbs[k], r[k])]} :
       \E seen \in {[k \in DOMAIN dbs |-> Look(k, after[k])]} :
          LET agree == {k \in DOMAIN dbs : Same(r[k], r["tenant"]) /\ seen[k] = seen["tenant"]} IN
          /\ dbs' = [k \in agree |-> after[k]]
          /\ odd' = IF Whole(after["tenant"]) THEN {<<op, k>> : k \in DOMAIN dbs \ agree}
                    ELSE {<<op, "tenant">>}
          /\ torn' = UNION {{<<op, k, x>> : x \in Unresumed(k, op, a, r[k], after[k], seen[k])} :
                              k \in DOMAIN dbs}
    /\ UNCHANGED scenario

Next == \E c \in CallsOf[scenario] : Each(c[1], c[2])
Spec == Init /\ [][Next]_vars
=============================================================================
