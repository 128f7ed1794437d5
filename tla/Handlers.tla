------------------------------ MODULE Handlers ------------------------------
(***************************************************************************)
(* What the two specifications of the data of tenants share: the data a    *)
(* tenant starts with, the requests that are made, who may run at the same *)
(* time, what a failing call leaves.  SharedStore has the tables the       *)
(* program has, with the rows of every tenant in them; PrivateStores has a *)
(* database for each tenant.                                               *)
(***************************************************************************)
EXTENDS Uploads

Tenants == {1, 2}
Digit == <<"1", "2", "3", "4", "5", "6">>

\* Identifiers of users and files are never given twice; names of topics,
\* logins, addresses, devices are the same in every tenant.
Id(what, n) == what \o Digit[n]
G == <<"grp", "g">>
P2P(t) == <<"p2p", Id("a", t), Id("b", t)>>
Full == {"J", "R", "W", "P", "O"}
Plainly == {"J", "R", "W", "P"}

Sub(t, n, u, mode) ==
    [ten |-> t, topic |-> n, user |-> u, want |-> mode, given |-> mode, val |-> u]
Credential(t, u, value, done) ==
    [ten |-> t, key |-> IF done THEN <<"email", value>> ELSE <<u, "email", value>>,
     method |-> "email", value |-> value, user |-> u, resp |-> "123", done |-> done,
     retries |-> 0, gone |-> FALSE]
File(t, f, old) == [newFile(t, Id("a", t), f) EXCEPT !.status = "done", !.old = old,
                                                      !.loc = Location(f)]
\* a has logged in and confirmed two addresses; b came long ago and did neither.
\* a owns the group g and has a message with a file in it; a file of b is unused.
Seed(t) ==
    LET a == Id("a", t)   b == Id("b", t)
        tags == {<<a, "basic:a">>, <<a, "email:x@">>, <<a, "email:w@">>, <<b, "basic:b">>}
        Tags(u) == {g[2] : g \in {x \in tags : x[1] = u}}
    IN  [users |-> {[newUser(t, a) EXCEPT !.seen = TRUE, !.tags = Tags(a)],
                    [newUser(t, b) EXCEPT !.tags = Tags(b)]},
         usertags |-> {[ten |-> t, key |-> g[1], tag |-> g[2]] : g \in tags},
         auth |-> {newAuth(t, a, [login |-> "basic:a", secret |-> "s0"]),
                   newAuth(t, b, [login |-> "basic:b", secret |-> "s0"])},
         devices |-> {[ten |-> t, hash |-> "h", user |-> a]},
         creds |-> {Credential(t, a, "x@", TRUE), Credential(t, a, "w@", TRUE),
                    Credential(t, a, "v@", FALSE), Credential(t, b, "y@", FALSE)},
         topics |-> {[newTopic(t, G) EXCEPT !.owner = a, !.seq = 1, !.cnt = 2, !.tags = {"g"}],
                     newTopic(t, P2P(t))},
         topictags |-> {[ten |-> t, key |-> G, tag |-> "g"]},
         subs |-> {newSub(Sub(t, G, a, Full)), newSub(Sub(t, G, b, Plainly)),
                   newSub(Sub(t, P2P(t), a, Plainly)), newSub(Sub(t, P2P(t), b, Plainly))},
         msgs |-> {[ten |-> t, topic |-> G, seq |-> 1, from |-> a, del |-> 0]},
         dellog |-> {},
         files |-> {File(t, Id("d", t), FALSE), File(t, Id("e", t), TRUE)},
         links |-> {[ten |-> t, file |-> Id("d", t), target |-> <<"msg", G, 1>>]},
         kv |-> {[key |-> <<t, "code", tagOf("y@")>>, val |-> <<"777", 0, b>>, at |-> "old"]},
         disk |-> {[ten |-> t, loc |-> Location(f)] : f \in {Id("d", t), Id("e", t)}}]

-----------------------------------------------------------------------------
(* Requests of tenant t; n numbers them.  a and b are known to the caller,  *)
(* o is a user of the other tenant.                                         *)
AccountRequests(t, n) ==
    LET a == Id("a", t)   b == Id("b", t)   new == Id("n", n)
        In == [NoInput EXCEPT !.secret = "s0"]
        New == [NoInput EXCEPT !.secret = Id("s", n), !.login = "basic:n", !.resp = "456"]
        Value(v) == [NoInput EXCEPT !.value = v, !.resp = "456"]
        Resp(r) == [NoInput EXCEPT !.resp = r]
        Create(q) == Job(t, "create", new, q, replyCreateUser(t, new, q))
        Drop(hard) == Job(t, "deluser", a, NoInput, replyDelUser(a, hard))
        Update(u, q) == Job(t, "password", u, q, updateUserAuth(u))
        Login(q) == Job(t, "login", None, q, login(q))
        Code(r) == [Value("x@") EXCEPT !.secret = Id("s", n), !.resp = r]
    IN  <<Create(New), Create([New EXCEPT !.value = "z@", !.file = Id("e", t)]), Create([New EXCEPT !.value = "x@"]),
          Create([New EXCEPT !.login = "basic:a"]),
          Update(a, [New EXCEPT !.login = None]), Update(a, New), Update(b, New),
          Job(t, "acccred", b, Value("z@"), updateCreds(b, Value("z@"))),
          Job(t, "setcred", a, Value("z@"), replySetCred(a, Value("z@"))),
          Job(t, "confirm", b, Resp("123"), replySetCred(b, Resp("123"))),
          Job(t, "confirm", b, Resp("000"), replySetCred(b, Resp("000"))),
          Job(t, "confirm", a, Resp("123"), replySetCred(a, Resp("123"))),
          Job(t, "delcred", a, Value("x@"), replyDelCred(a)),
          Job(t, "delcred", a, Value("w@"), replyDelCred(a)),
          Job(t, "delcred", a, Value("v@"), replyDelCred(a)),
          Login([In EXCEPT !.login = "basic:a", !.resp = "123"]),
          Login([In EXCEPT !.login = "basic:a", !.device = "h"]),
          Login([In EXCEPT !.login = "basic:b", !.resp = "123", !.device = "i"]),
          Login([In EXCEPT !.login = "basic:b", !.resp = "000"]),
          Job(t, "hello", a, NoInput, hello(t, a, "h", [NoInput EXCEPT !.device = "i"])),
          Job(t, "hello", a, NoInput, hello(t, a, "h", NoInput)),
          Drop(TRUE), Drop(FALSE),
          Job(t, "suspend", b, NoInput, changeUserState(b)),
          Job(t, "seen", b, NoInput, UpdateLastSeen(b)),
          Job(t, "gc", None, [NoInput EXCEPT !.stale = {a, b}], garbageCollectUsers),
          Job(t, "reset", None, Code(Id("c", n)), authSecretReset(Code(Id("c", n)))),
          Job(t, "recover", None, Code("c1"), codeAuthenticate(Code("c1")))>>

\* Any one method of the store.
MethodRequests(t, n) ==
    LET a == Id("a", t)   b == Id("b", t)   o == Id("a", 3 - t)   new == Id("n", n)
        x == [newUser(t, new) EXCEPT !.tags = {"t"}]
        T == [newTopic(t, <<"grp", new>>) EXCEPT !.tags = {"t"}]
        one == Sub(t, <<"p2p", a, new>>, a, Plainly)
        msg == [ten |-> t, topic |-> G, seq |-> 2, from |-> b, del |-> 0]
        k == <<"code", tagOf("y@")>>
        methods == <<
            UsersCreate(t, x), UsersGet(a), UsersGet(o), UsersGetAll({a, o}), GetByCred("email", "x@"),
            UsersDelete(a, TRUE), UsersDelete(a, FALSE), UpdateLastSeen(b), UpdateState(a, "susp"),
            UsersUpdate(a, [tags |-> {"t"}, val |-> "v"]), UpdateTags(a, {"t"}, {"basic:a"}, <<>>),
            UsersGetSubs(a), FindSubs(b, {{"basic:a"}}, {"g"}, TRUE), FindOne("g"), GetTopics(a),
            GetTopicsAny(a), GetOwnTopics(a), GetChannels(a), GetUnreadCount({a, b, o}), GetUnvalidated,
            GetAuthRecord(a, "basic"), GetAuthUniqueRecord("basic:a"), DelAuthRecords(a, "basic"),
            AddAuthRecord(newAuth(t, b, [login |-> "basic:b", secret |-> "s"])),
            UpdateAuthRecord(a, "basic", "basic:n", "auth", "s"),
            UpsertCred(newCred(b, [value |-> "x@", resp |-> "1"])),
            UpsertCred([newCred(b, [value |-> "z@", resp |-> "1"]) EXCEPT !.done = TRUE]),
            ConfirmCred(b, "email"), FailCred(b, "email"), GetActiveCred(b, "email"),
            GetAllCreds(a, None, FALSE), DelCred(b, "email", "y@"), DelCred(a, None, None),
            TopicsCreate(T, a, Sub(t, T.name, a, Full)), CreateP2P(one, [one EXCEPT !.user = new]),
            TopicsGet(G), GetUsers(G), GetUsersAny(P2P(t)), GetSubs(G), GetSubsAny(G), UpdateSubCnt(G),
            TopicsUpdate(G, [tags |-> {"t"}, val |-> "v"]), OwnerChange(G, b), TopicsDelete(G, TRUE, TRUE),
            TopicsDelete(G, FALSE, FALSE), SubsCreate(<<Sub(t, G, new, Plainly)>>),
            SubsGet(G, a, FALSE), SubsUpdate(G, b, [read |-> 1]), SubsDelete(G, b),
            MessagesSave(msg, <<Id("e", t)>>, TRUE), DeleteList(t, G, 1, None, {<<1, 3>>}),
            DeleteList(t, G, 1, b, {<<1, 0>>}), DeleteList(t, G, 0, None, {}),
            MessagesGetAll(G, b, <<0, 0>>), GetDeleted(G, b, <<0, 0>>),
            DevicesUpdate(t, a, "h", "i"), DevicesUpdate(t, b, None, "h"), DevicesGetAll({a, o}),
            DevicesDelete(a, None), StartUpload(newFile(t, a, Id("f", n))),
            FinishUpload(File(t, Id("d", t), FALSE), TRUE), FilesGet(Id("d", t)), FilesGet(Id("d", 3 - t)),
            On("unused", DeleteUnused), LinkAttachments(<<"topic", G>>, <<Id("e", t)>>), PCacheGet(k),
            PCacheUpsert(k, <<"1", 1, b>>, FALSE), PCacheDelete(k), PCacheExpire("code")>>
    IN  [i \in DOMAIN methods |-> Job(t, "method", None, NoInput, methods[i])]

\* media is "fs" or "s3"; last is the number of the last message of the topic.
FileRequests(t, n, media, last) ==
    LET a == Id("a", t)   f == Id("f", n)   first == Id("f", 1)
        Named(x) == [NoInput EXCEPT !.value = x]
        msg == [ten |-> t, topic |-> G, seq |-> last + 1, from |-> a, del |-> 0]
        Msg(x) == Job(t, "save", a, [Named(x) EXCEPT !.seq = last + 1], MessagesSave(msg, <<x>>, TRUE))
    IN  <<Job(t, "http", a, Named(f), largeFileReceiveHTTP(media, t, a, f)),
          Job(t, "grpc", a, Named(f), LargeFileReceive(media, t, a, f)),
          Job(t, "collect", None, NoInput, largeFileRunGarbageCollection),
          Job(t, "delmsg", a, NoInput, DeleteList(t, G, 1, None, {<<1, 0>>})),
          Job(t, "deltopic", a, NoInput, TopicsDelete(G, FALSE, TRUE)), Msg(Id("e", t))>>
        \o IF n = 1 THEN <<>>
           ELSE <<Msg(first), Job(t, "serve", a, Named(first), largeFileServeHTTP(media, first)),
                  Job(t, "gserve", a, Named(first), LargeFileServe(media, first)),
                  Job(t, "avatar", a, Named(first), LinkAttachments(<<"user", a>>, <<first>>))>>

Media == {"fs", "s3"}
Scenes == {"methods", "accounts"} \cup Media
Requests(scene, t, n, last) ==
    CASE scene = "methods" -> MethodRequests(t, n)
      [] scene = "accounts" -> AccountRequests(t, n)
      [] scene \in Media -> FileRequests(t, n, scene, last)
Asked(some) == {[i |-> i, does |-> some[i]] : i \in DOMAIN some}

-----------------------------------------------------------------------------
Busy(j) == j.todo # <<>>
Idle == Job(1, "idle", None, NoInput, <<>>)

\* Goroutine 0 collects garbage, the others serve sessions.
Takes(w, j) == (w = 0) <=> (j.op \in {"gc", "collect"})

\* {set} and {del} of credentials run one after the other in the topic me of
\* their user, messages and their deletions in their topic.
Serial(j, k) == j.ten = k.ten /\
    \/ {j.op, k.op} \subseteq {"setcred", "confirm", "delcred"} /\ j.u = k.u
    \/ {j.op, k.op} \subseteq {"save", "delmsg", "deltopic"}

\* A call that reports an error may have done nothing, some of its statements or
\* all of them.
Left(d, r) == {d} \cup ToSet(r.steps)
Failed(r) == [r EXCEPT !.err = ErrStore, !.ret = {}]
\* A message that is saved takes the next number.
Numbered(j, last) ==
    IF j.op = "save" /\ ~Busy(j) /\ j.err = Ok THEN j.q.seq ELSE last
\* An hour without use makes a file old.
Aged(d) == [d EXCEPT !.files = {[f EXCEPT !.old = TRUE] : f \in @}]
=============================================================================
