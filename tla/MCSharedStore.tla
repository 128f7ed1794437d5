---------------------------- MODULE MCSharedStore ----------------------------
(***************************************************************************)
(* What is checked of the store and its handlers.                          *)
(***************************************************************************)
EXTENDS SharedStore

Sessions == [methods |-> 1, accounts |-> 2, fs |-> 1, s3 |-> 1]
Requested == [methods |-> 1, accounts |-> 2, fs |-> 3, s3 |-> 2]
Faults == [s \in Scenes |-> 1]

Quiet == \A w \in Workers : ~Busy(jobs[w])
Finished(w, op) == jobs[w].op = op /\ ~Busy(jobs[w])
Hit(calls) == calls \cap ToSet(hit) # {}

\* Tenants whose rows share tables are served as if each had its own: no call
\* made for one reads or changes a row of another, whatever names and addresses
\* the two have in common.
Isolated == Private!Spec

\* Where a user is found.
Traces(t, u) ==
    {x \in {"auth", "creds", "devices", "subs"} : \E r \in Rows(db, x, t) : r.user = u}
    \cup {x \in {"users"} : \E r \in Rows(db, x, t) : r.id = u}
    \cup {x \in {"usertags"} : \E r \in Rows(db, x, t) : r.key = u}

\* A request for an account that is answered with success made all of it: the
\* user, the login, the credential to confirm, the topics me and fnd.  One that
\* is refused leaves nothing of it, whichever call failed and whoever took the
\* login or the address meanwhile; only a call that creates the user and loses
\* its answer, or a clean-up that fails, leaves something.
CreatedWhole ==
    \A w \in Workers : Finished(w, "create") =>
        LET j == jobs[w]   left == Traces(j.ten, j.u)
        IN  IF j.err = Ok
            THEN /\ \E r \in Rows(db, "auth", j.ten) : r.user = j.u /\ r.uname = j.q.login
                 /\ \E r \in Rows(db, "users", j.ten) : r.id = j.u
                 /\ \E r \in Rows(db, "creds", j.ten) : r.user = j.u /\ r.value = j.q.value
                 /\ \A n \in {"usr", "fnd"} : \E r \in Rows(db, "subs", j.ten) : r.topic = <<n, j.u>>
            ELSE left = {} \/ Hit({"UserDelete"}) \/ (left = {"users"} /\ Hit({"UserCreate"}))

\* A user with two confirmed addresses and a pending one keeps a confirmed one,
\* whatever they delete and however requests to delete, confirm and log in meet.
RequiredKept ==
    scene = "accounts" => \A t \in Tenants, u \in db.users :
        u.id = Id("a", t) /\ u.state # "del" =>
            \E c \in Rows(db, "creds", t) : c.user = u.id /\ c.done

\* Requests that leave stale tags when they meet: a new login or password writes
\* back the tags it read; a response is checked against one address and confirms
\* the one pending by then; a login and a deletion settle the same address.
StaleTags ==
    {{"password", op} : op \in {"password", "confirm", "delcred", "login"}}
    \cup {{"login", op} : op \in {"setcred", "acccred", "delcred"}}
    \cup {{"confirm", "acccred"}}

\* A user is found by their login and by the addresses they confirmed, and by no
\* other: once nothing runs the tags, in both places they are stored, are those,
\* unless a call failed or two requests met that write tags they read earlier.
TagsMatch ==
    scene = "accounts" /\ Quiet /\ hit = <<>> /\ met \cap StaleTags = {} =>
        \A u \in {x \in db.users : x.state # "del"} :
            LET is == {r.uname : r \in {x \in Rows(db, "auth", u.ten) : x.user = u.id}}
                      \cup {tagOf(c.value) : c \in {x \in Rows(db, "creds", u.ten) :
                                                        x.user = u.id /\ x.done}}
            IN  /\ u.tags = is
                /\ {r.tag : r \in {x \in Rows(db, "usertags", u.ten) : x.key = u.id}} = is

\* A file uploaded over HTTP, within the hour, is there while the hour lasts: the
\* collector, who runs at any moment, takes only older ones.
UploadKept ==
    \A w \in Workers : LET j == jobs[w] IN
        Finished(w, "http") /\ j.err = Ok /\ begun[w] = hours => Stored(j.ten, j.q.value)

\* An upload that failed leaves no record and no contents, unless what failed is
\* the creation of the contents, the last write of the record, or the clean-up.
FailedUploadGone ==
    \A w \in Workers : LET j == jobs[w] IN
        Finished(w, "http") /\ j.err # Ok =>
            \/ Hit({"media.Create", "FileFinishUpload", "media.Remove"})
            \/ /\ ~\E r \in db.files : r.id = j.q.value
               /\ ~\E c \in Rows(db, "disk", j.ten) : c.loc = Location(j.q.value)

\* What a message, a topic or a user refers to stays while it does: of the
\* files the collector takes none was linked when it looked and stays linked, and
\* nothing else takes a file or its contents.  A link that is made between the
\* look and the deletion is not protected.
LinkedKept == \A l \in kept : Stored(l.ten, l.file)
==============================================================================
