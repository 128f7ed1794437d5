------------------------------ MODULE Accounts ------------------------------
(***************************************************************************)
(* The life of an account: user.go, the login and {hi} of session.go, the  *)
(* authenticators auth/basic and auth/code, the validators validate/email  *)
(* and validate/tel.                                                       *)
(*                                                                         *)
(* A handler is a job: the calls it still has to make, its error, what it  *)
(* learned from the calls it made.  A call is a step of the store, on says *)
(* how the handler takes the answer: "must" and "try" as in the store,     *)
(* anything else names a place of the code that looks at the answer and    *)
(* decides what comes next (Answered).  Between two calls anything may     *)
(* happen: no handler holds a lock or a transaction over them.             *)
(***************************************************************************)
EXTENDS Store

CONSTANTS AddToTags,   \* logins and credentials are tags of the user
          MaxRetries   \* attempts at a code

ErrPolicy == "policy"
ErrFailed == "failed"
ErrCredentials == "credentials"
ErrPermission == "permission"

\* What the caller gave (login and password, credential and response, device, picture,
\* file, message) and what the handler remembers (tags, stale).
NoInput == [login |-> None, secret |-> None, value |-> None, resp |-> None,
            device |-> None, file |-> None, tags |-> {}, stale |-> {}, seq |-> 0]
Job(id, op, u, q, todo) ==
    [ten |-> id, op |-> op, u |-> u, q |-> q, todo |-> todo, err |-> Ok, ret |-> {}]

On(place, calls) == [i \in DOMAIN calls |-> [calls[i] EXCEPT !.on = place]]
Now(j) == Head(j.todo)
Go(j, calls) == [j EXCEPT !.todo = calls]
GoOn(j) == Go(j, Tail(j.todo))
Abort(j, e) == [j EXCEPT !.todo = Now(j).undo, !.err = e]

tagOf(value) == "email:" \o value
DropUser(u) == Try("UserDelete", <<u, TRUE>>)
addTags(u, tags) == IF AddToTags THEN Try("UserUpdateTags", <<u, tags, {}, <<>>>>) ELSE <<>>
linkPicture(u, q) ==
    IF q.file = None THEN <<>> ELSE Try("FileLinkAttachments", <<<<"user", u>>, <<q.file>>>>)

-----------------------------------------------------------------------------
(* {acc}: a new account, and changes of one. *)

newUser(id, u) ==
    [ten |-> id, id |-> u, state |-> "ok", tags |-> {}, val |-> None, seen |-> FALSE]
newAuth(id, u, q) == [ten |-> id, uname |-> q.login, user |-> u, scheme |-> "basic",
                      lvl |-> "auth", secret |-> q.secret]
newCred(u, q) == [method |-> "email", value |-> q.value, user |-> u, resp |-> q.resp,
                  done |-> FALSE]

\* Mutant: an account without the credentials it must have is refused and stays.
replyCreateUserKept(id, u, q) ==
    On("free", GetAuthUniqueRecord(q.login)) \o UsersCreate(id, newUser(id, u))
    \o (IF q.value = None THEN On("incomplete", AddAuthRecord(newAuth(id, u, q)))
        ELSE OrUndo(AddAuthRecord(newAuth(id, u, q)) \o UpsertCred(newCred(u, q)), DropUser(u)))
    \o addTags(u, {q.login}) \o linkPicture(u, q)
\* The credential is asked for of every account; its tag comes when it is
\* confirmed, the tag of the login now.
replyCreateUser(id, u, q) ==
    On("free", GetAuthUniqueRecord(q.login)) \o UsersCreate(id, newUser(id, u))
    \o OrUndo(IF q.value = None THEN On("incomplete", AddAuthRecord(newAuth(id, u, q)))
              ELSE AddAuthRecord(newAuth(id, u, q)) \o UpsertCred(newCred(u, q)), DropUser(u))
    \o addTags(u, {q.login}) \o linkPicture(u, q)

\* auth/basic UpdateRecord, when the record of the user was read: old is the
\* login they have, q.tags the tags they had.
updateRecord(j, old) ==
    LET q == j.q
        uname == IF q.login = None THEN old ELSE q.login
        next == [j EXCEPT !.q.login = uname, !.q.tags = @ \ {old}]
        upd == On("updated", UpdateAuthRecord(j.u, "basic", uname, "auth", q.secret))
    IN  Go(next, (IF uname = old THEN <<>> ELSE On("free", GetAuthUniqueRecord(uname))) \o upd)
updateUserAuth(u) == On("tags", UsersGet(u)) \o On("login", GetAuthRecord(u, "basic"))

\* The err of addCreds is a new variable: the request is answered as if it had
\* succeeded.
updateCreds(u, q) == On("exists", UsersGet(u)) \o Try("CredUpsert", <<newCred(u, q)>>)
                     \o Try("CredGetAll", <<u, None, TRUE>>)
changeUserState(u) == On("changed", UsersGet(u)) \o UpdateState(u, "susp")

\* Authenticators first, so that nobody can log in; their errors are logged.
replyDelUser(u, hard) ==
    Try("AuthDelScheme", <<u, "basic">>) \o Try("SubsForUser", <<u>>) \o Try("OwnTopics", <<u>>)
    \o UsersDelete(u, hard)

garbageCollectUsers == On("unvalidated", GetUnvalidated)

-----------------------------------------------------------------------------
(* Credentials: {set cred} and {del cred} run in the topic me of the user,  *)
(* {login} in the session.                                                  *)
addCreds(u, q) == UpsertCred(newCred(u, q))
validatedCreds(u) ==
    GetAllCreds(u, None, TRUE) \o On("check", GetActiveCred(u, "email"))
deleteCred(u) == On("spare", GetAllCreds(u, "email", FALSE))
\* A new address, or the response to the code sent to one.
replySetCred(u, q) == IF q.value = None THEN validatedCreds(u) ELSE addCreds(u, q)
replyDelCred(u) == deleteCred(u)

\* ret holds the methods validated before and now.
onLogin(j) ==
    IF j.ret = {} THEN [j EXCEPT !.todo = <<>>, !.err = ErrCredentials]
    ELSE Go(j, IF j.q.device = None THEN <<>>
               ELSE Try("DeviceUpsert", <<j.u, [ten |-> j.ten, hash |-> j.q.device]>>))

\* validate/email Check, when the pending credential c was read.
Check(j, c) ==
    CASE c[5] > MaxRetries -> Abort(j, ErrPolicy)
      [] c[5] <= MaxRetries /\ c[3] = j.q.resp ->
             Go([j EXCEPT !.q.value = c[2]], On("confirmed", ConfirmCred(j.u, "email")))
      [] OTHER -> LET k == IF j.op = "login" THEN onLogin(j) ELSE [j EXCEPT !.err = ErrCredentials]
                  IN  Go(k, Try("CredFail", <<j.u, "email">>) \o k.todo)

\* Mutant: any validated credential will do, this one too.
MayDeleteAny(creds, value) == \E c \in creds : c[4] \/ c[2] = value
\* Another value is validated, or this one is not.
MayDelete(creds, value) ==
    \E c \in creds : (c[4] /\ c[2] # value) \/ (~c[4] /\ c[2] = value)

-----------------------------------------------------------------------------
(* {login}, its reset, {hi}. *)
login(q) == On("who", GetAuthUniqueRecord(q.login))
loggedIn(j) ==
    On("state", UsersGet(j.u)) \o On("validated", GetAllCreds(j.u, None, TRUE))

Authenticate(j, rec) ==
    LET k == [j EXCEPT !.u = rec[1]]
    IN  IF rec[3] # j.q.secret THEN Abort(j, ErrFailed) ELSE Go(k, loggedIn(k))
IsUnique(j, ret) == IF ret = {} THEN GoOn(j) ELSE Abort(j, ErrDuplicate)

codeKey(q) == <<"code", tagOf(q.value)>>
authSecretReset(q) == On("reset", GetByCred("email", q.value))
GenSecret(j) ==
    Try("PCacheExpire", <<"code">>) \o PCacheUpsert(codeKey(j.q), <<j.q.resp, 0, j.u>>, TRUE)
\* A new password with the code in place of the old one.
codeAuthenticate(q) == On("code", PCacheGet(codeKey(q)))
codeChecked(j, c) ==
    CASE c[2] >= MaxRetries -> Abort(j, ErrFailed)
      [] c[2] < MaxRetries /\ c[1] = j.q.resp ->
             Go([j EXCEPT !.u = c[3]], Try("PCacheDelete", <<codeKey(j.q)>>) \o updateUserAuth(c[3]))
      [] OTHER -> [j EXCEPT !.err = ErrFailed, !.todo = Try("PCacheUpsert",
                      <<codeKey(j.q), <<c[1], c[2] + 1, c[3]>>, FALSE>>)]

\* The device the user has now for the old one, or none.
hello(id, u, old, q) ==
    CASE q.device = None -> IF old = None THEN <<>> ELSE DevicesDelete(u, old)
      [] q.device \notin {None, old} -> DevicesUpdate(id, u, old, q.device)
      [] OTHER -> <<>>

-----------------------------------------------------------------------------
(* What a handler does with an answer. *)

\* Mutant: the tags of the user are reset to those of the login alone.
resetTagsLogin(j) == Try("UserUpdateTags", <<j.u, {}, {}, <<{j.q.login}>>>>)
\* The tags read at the start, with the new login for the old.
resetTags(j) == Try("UserUpdateTags", <<j.u, {}, {}, <<j.q.tags \cup {j.q.login}>>>>)

addTag(j) == addTags(j.u, {tagOf(j.q.value)})
removeTag(j) ==
    IF AddToTags THEN Try("UserUpdateTags", <<j.u, {}, {tagOf(j.q.value)}, <<>>>>) ELSE <<>>

\* An answer without error at a place that decides on what it holds.
Taken(j, place, ret) ==
    LET one == CHOOSE r \in ret : TRUE
    IN  CASE place = "free" -> IsUnique(j, ret)
          [] place = "incomplete" -> Abort(j, ErrPolicy)
          [] place = "exists" -> IF ret = {} THEN Abort(j, ErrNotFound) ELSE GoOn(j)
          [] place = "tags" -> IF ret = {} THEN Abort(j, ErrNotFound)
                               ELSE GoOn([j EXCEPT !.q.tags = one.tags])
          [] place = "login" -> updateRecord(j, one[1])
          [] place = "updated" -> Go(j, resetTags(j))
          [] place = "unvalidated" ->
                 Go(j, FlattenSeq([i \in 1..Cardinality(ret \cap j.q.stale) |->
                           DropUser(SetToSeq(ret \cap j.q.stale)[i])]))
          [] place = "check" -> IF ret = {} THEN Abort(j, ErrNotFound) ELSE Check(j, one)
          [] place = "confirmed" ->
                 LET k == IF j.op = "login" THEN onLogin([j EXCEPT !.ret = {"email"}]) ELSE Go(j, <<>>)
                 IN  Go(k, addTag(j) \o k.todo)
          [] place = "spare" -> IF MayDelete(ret, j.q.value)
                                THEN Go(j, On("removed", DelCred(j.u, "email", j.q.value)))
                                ELSE Abort(j, ErrPolicy)
          [] place = "removed" ->
                 Go(j, removeTag(j))
          [] place = "who" -> IF ret = {} THEN Abort(j, ErrFailed) ELSE Authenticate(j, one)
          [] place = "state" -> IF ret = {} THEN Abort(j, ErrNotFound)
                                ELSE IF one.state # "ok" THEN Abort(j, ErrPermission) ELSE GoOn(j)
          [] place = "changed" -> IF ret = {} THEN Abort(j, ErrNotFound)
                                  ELSE IF one.state = "susp" THEN Go(j, <<>>) ELSE GoOn(j)
          [] place = "validated" ->
                 LET k == [j EXCEPT !.ret = {c[1] : c \in ret}]
                 IN  IF j.q.resp = None THEN onLogin(k)
                     ELSE Go(k, On("check", GetActiveCred(j.u, "email")))
          [] place = "reset" -> IF ret = {} THEN Go(j, <<>>)
                                ELSE LET k == [j EXCEPT !.u = one]
                                     IN  Go(k, GetAuthRecord(one, "basic") \o GenSecret(k))
          [] place = "code" -> codeChecked(j, one)

\* A credential that is not there is as good as removed; no code is a wrong code.
Answered(j, r) ==
    LET s == Now(j)
    IN  CASE s.on = "try" -> GoOn(j)
          [] s.on = "must" -> IF r.err = Ok THEN [GoOn(j) EXCEPT !.ret = r.ret] ELSE Abort(j, r.err)
          [] s.on = "removed" /\ r.err = ErrNotFound -> Go(j, <<>>)
          [] s.on = "code" /\ r.err = ErrNotFound -> Abort(j, ErrFailed)
          [] OTHER -> IF r.err = Ok THEN Taken(j, s.on, r.ret) ELSE Abort(j, r.err)
=============================================================================
