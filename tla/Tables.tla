------------------------------- MODULE Tables -------------------------------
(***************************************************************************)
(* What the five database adapters under db/ are made of.  A database is a *)
(* record of tables, a table a set of rows (records), a statement maps a   *)
(* database to a database.  An adapter call yields a result:               *)
(*    steps  the databases it writes one after the other: a single one for *)
(*           a statement or a transaction, several where the adapter issues *)
(*           statements that are not in a transaction;                     *)
(*    err    the error it returns, Ok if none;                             *)
(*    ret    what it returns besides the error, as a set (empty for nil);  *)
(*    open   whether its transaction is left neither committed nor undone. *)
(* A topic name is <<prefix, id>>, the first three letters of the name and *)
(* the rest of it, or <<"p2p", user, user>>.                               *)
(***************************************************************************)
EXTENDS Integers, FiniteSets, Sequences, SequencesExt

None == ""

\* Errors: none, those of store/types, one of the database itself, a panic.
Ok == "ok"
ErrMalformed == "malformed"
ErrDuplicate == "duplicate"
ErrNotFound == "notfound"
ErrStore == "store"
Panic == "panic"

-----------------------------------------------------------------------------
(* Statements. *)
Del(d, t, P(_)) == [d EXCEPT ![t] = {r \in @ : ~P(r)}]
Upd(d, t, P(_), F(_)) == [d EXCEPT ![t] = {IF P(r) THEN F(r) ELSE r : r \in @}]
Ins(d, t, rows) == [d EXCEPT ![t] = @ \cup rows]

\* UPDATE ... SET of the fields an update map holds.
Set(r, upd) == [f \in DOMAIN r |-> IF f \in DOMAIN upd THEN upd[f] ELSE r[f]]

\* A row without the fields of one database that the interface does not show.
Plain(r, fields) == [f \in DOMAIN r \ fields |-> r[f]]
With(r, more) ==
    [f \in DOMAIN r \cup DOMAIN more |-> IF f \in DOMAIN more THEN more[f] ELSE r[f]]

\* The databases of some statements, and that of one more, F, after them.
AndThen(s, F(_)) == Append(s, F(Last(s)))

(* Results. *)
Steps(s) == [steps |-> s, err |-> Ok, ret |-> {}, open |-> FALSE]
Done(d) == Steps(<<d>>)
Fail(e) == [Steps(<<>>) EXCEPT !.err = e]
FailOpen(e) == [Fail(e) EXCEPT !.open = TRUE]
Val(v) == [Steps(<<>>) EXCEPT !.ret = v]
Ret(v, r) == [r EXCEPT !.ret = v]

\* The database a call leaves when every statement of it succeeds.
Final(d, r) == IF r.steps = <<>> THEN d ELSE Last(r.steps)

\* LIMIT n without ORDER BY: which rows are left out is up to the database.
Limit(S, n) ==
    IF n = 0 \/ Cardinality(S) <= n THEN S
    ELSE CHOOSE T \in SUBSET S : Cardinality(T) = n

-----------------------------------------------------------------------------
(* Keys between the tables of the SQL schema. *)
Ids(d) == {r.id : r \in d.users}
Names(d) == {r.name : r \in d.topics}

\* ON DELETE CASCADE of filemsglinks.  A link names a file and a message, a
\* topic or a user: <<"msg", topic, seq>>, <<"topic", name>>, <<"user", id>>.
Targets(d) ==
    {<<"msg", m.topic, m.seq>> : m \in d.msgs} \cup
    {<<"topic", n>> : n \in Names(d)} \cup {<<"user", u>> : u \in Ids(d)}
Cascade(d) ==
    [d EXCEPT !.links = {l \in @ : /\ l.target \in Targets(d)
                                   /\ \E f \in d.files : f.id = l.file}]

\* FOREIGN KEY(userid) and FOREIGN KEY(topic): no row without its parent.
KeysHold(d) ==
    /\ \A t \in {"devices", "auth", "subs", "creds"} :
           \A r \in d[t] : r.user \in Ids(d)
    /\ \A r \in d.usertags : r.key \in Ids(d)
    /\ \A t \in {"msgs", "dellog"} : \A r \in d[t] : r.topic \in Names(d)
    /\ \A r \in d.topictags : r.key \in Names(d)

\* A transaction is the databases after each of its statements: it is undone if
\* one of them breaks a key, and leaves the last of them otherwise.
Tx(s) ==
    IF \A i \in DOMAIN s : KeysHold(s[i]) THEN Done(Cascade(Last(s)))
    ELSE Fail(ErrStore)
Commit(d) == Tx(<<d>>)

-----------------------------------------------------------------------------
(* Topic names, store/types/types.go. *)
Prefix(n) == n[1]
TopicCat(n) == IF Prefix(n) \in {"grp", "chn"} THEN "grp" ELSE Prefix(n)
IsChannel(n) == Prefix(n) = "chn"
NoTopic == <<None, None>>
GrpToChn(n) == IF TopicCat(n) = "grp" THEN <<"chn", n[2]>> ELSE NoTopic
ChnToGrp(n) == IF TopicCat(n) = "grp" THEN <<"grp", n[2]>> ELSE NoTopic
WithChn(names) == names \cup ({GrpToChn(n) : n \in names} \ {NoTopic})
\* Subscriptions by the name of the group: of a group and its channel one row is
\* left, the last one read.  The order is the database's; here the channel's is.
ByGroup(S) ==
    {s \in S : Prefix(s.topic) = "grp" => GrpToChn(s.topic) \notin {x.topic : x \in S}}
P2PPeer(n, u) == IF n[2] = u THEN n[3] ELSE n[2]

-----------------------------------------------------------------------------
(* Ranges of message numbers: a range is <<low, hi>> with hi exclusive, or  *)
(* 0 for the single low.                                                    *)
LOCAL MR == INSTANCE MsgRanges
InRange(q, r) == IF r[2] = 0 THEN q = r[1] ELSE r[1] <= q /\ q < r[2]
InRanges(q, rs) == \E r \in rs : InRange(q, r)
\* Mutant: the loop stops before the last number.
SliceToRangesShort(seqs) ==
    {<<r.Low, r.Hi>> : r \in ToSet(MR!SliceToRanges(Front(SetToSortSeq(seqs, <))))}
SliceToRanges(seqs) ==
    {<<r.Low, r.Hi>> : r \in ToSet(MR!SliceToRanges(SetToSortSeq(seqs, <)))}
=============================================================================
