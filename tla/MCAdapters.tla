----------------------------- MODULE MCAdapters -----------------------------
(***************************************************************************)
(* What is checked of the adapters.                                        *)
(***************************************************************************)
EXTENDS Adapters

SQL == {"tenant", "mysql", "postgres"}
Mongo == {"mongo", "mongotx"}
Documents == Mongo \cup {"rethink"}

\* The methods of a tenant that can leave a row without its parent: the tables
\* of tenants have no foreign keys, a call that comes after the deletion of what
\* it is about succeeds, and links to files outlive messages.
LeavesOrphans ==
    {"AuthAddRecord", "CredUpsert", "DeviceUpsert", "FileFinishUpload", "FileLinkAttachments",
     "MessageDeleteList", "TopicCreateP2P", "TopicDelete", "TopicShare", "UserDelete"}

\* Where an adapter does something else than the methods of a tenant.
Differences ==
    \* A soft delete of a credential that is undone or not reported; a user who is
    \* gone; the hard delete of an owner.
    {<<op, "mysql">> : op \in {"CredDel", "UserUpdate", "UserDelete"}} \cup
    \* The same, rows found and not those changed, channel readers left behind, the
    \* ranges asked for in the log, a window that ends before 1.
    {<<op, "postgres">> : op \in {"CredDel", "UserUpdate", "UserDelete", "AuthUpdRecord",
        "SubsDelete", "MessageDeleteList", "MessageGetAll", "MessageGetDeleted"}} \cup
    \* No unique key besides the identifier, counters set or moved twice, permissions
    \* compared by position, a nil credential, creation times never written.
    {<<op, k>> : k \in Mongo, op \in {"AuthAddRecord", "AuthUpdRecord", "ChannelsForUser",
        "CredConfirm", "CredDel", "DeviceDelete", "DeviceUpsert", "FileDeleteUnused",
        "FileLinkAttachments", "Find", "FindOne", "MessageDeleteList", "MessageGetAll",
        "MessageGetDeleted", "MessageSave", "PCacheExpire", "PCacheUpsert", "SubsDelete",
        "SubsUpdate", "TopicDelete", "TopicShare", "TopicsForUser", "UserDelete",
        "UserUnreadCount", "UserUpdate"}} \cup
    {<<op, "rethink">> : op \in {"AuthAddRecord", "AuthUpdRecord", "CredConfirm", "CredDel",
        "DeviceDelete", "FileDeleteUnused", "FileFinishUpload", "FileLinkAttachments", "FindOne",
        "MessageDeleteList", "MessageGetAll", "MessageGetDeleted", "MessageSave",
        "PCacheExpire", "PCacheUpsert", "SubsDelete", "TopicShare", "UserDelete"}}

\* An adapter is the same to its caller whatever the database: the same calls
\* return the same and leave the same to be read, except for the methods above.
SameAnswers == odd \subseteq Differences \cup {<<op, "tenant">> : op \in LeavesOrphans}

\* A call made of several statements that stopped after one of them (a lost
\* connection, a server that went down) is completed by making it again, except
\* for these: MongoDB and RethinkDB, in which a first statement hides from the
\* second attempt what the others should have done, so that the interface shows
\* something else, or use counters of files are moved twice or not at all.
RetryCompletes ==
    torn \subseteq
        {<<op, k, "shown">> : k \in Documents,
                              op \in {"AuthUpdRecord", "CredConfirm", "MessageDeleteList"}}
        \cup {<<"TopicDelete", k, "shown">> : k \in Mongo}
        \cup {<<op, k, "shown">> : k \in {"mongo", "rethink"}, op \in {"SubsDelete", "UserDelete"}}
        \cup {<<op, k, "uses">> : k \in Documents,
                                op \in {"FileLinkAttachments", "MessageDeleteList", "TopicDelete"}}
        \cup {<<"UserDelete", "mongo", "uses">>}

Attaching(d, f) ==
    Cardinality({u \in d.users : f.id \in u.att}) + Cardinality({t \in d.topics : f.id \in t.att})
      + Cardinality({m \in d.msgs : f.id \in m.att})

\* What is stored twice agrees.  The tags of a user and of a topic are a column in
\* SQL and also the rows of usertags and topictags that searches join: no call
\* makes the two differ.  The use counter of a file in MongoDB and RethinkDB, by
\* which FileDeleteUnused tells what may be removed, is never below the number of
\* messages, topics and users the file is attached to.
CopiesAgree ==
    /\ \A k \in SQL \cap DOMAIN dbs : LET d == dbs[k] IN
        /\ \A u \in d.users : u.tags = {r.tag : r \in {x \in d.usertags : x.key = u.id}}
        /\ \A t \in d.topics : t.tags = {r.tag : r \in {x \in d.topictags : x.key = t.name}}
    /\ \A k \in Documents \cap DOMAIN dbs : \A f \in dbs[k].files :
        Attaching(dbs[k], f) <= IF f.use = <<>> THEN 0 ELSE f.use[1]

\* A message that MessageGetDeleted reports to a user is not among those
\* MessageGetAll returns to them, and one deleted for everybody is reported to
\* everybody: the log and the messages tell the same story in every adapter.
LogMatchesMessages ==
    \A k \in DOMAIN dbs, u \in Users :
        LET logged == {l[2] : l \in Logged(k, dbs[k], u)}
        IN  /\ \A m \in MessageGetAll(k, dbs[k], G, u, All, {}).ret : m[1] \notin logged
            /\ \A m \in dbs[k].msgs : m.del # 0 => m.seq \in logged

\* A user deleted for good leaves no authentication record, credential,
\* subscription, device or topic behind, and in SQL no log of deletions.
Erased ==
    [][\A k \in DOMAIN dbs' : \A u \in Ids(dbs[k]) \ Ids(dbs'[k]) :
          LET d == dbs'[k] IN
          /\ \A t \in {"auth", "creds", "subs"} : \A r \in d[t] : r.user # u
          /\ \A t \in d.topics : t.owner # u
          /\ k \in SQL => /\ \A r \in d.devices : r.user # u
                          /\ \A r \in d.dellog : r.for # u]_vars
=============================================================================
