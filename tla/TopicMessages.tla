--------------------------- MODULE TopicMessages ---------------------------
(***************************************************************************)
(* The messages of one topic: publishing, read and received marks, soft    *)
(* and hard deletion (topic.go), the store's sequences of database calls   *)
(* (store.Messages of store/store.go) and the tables of the MySQL adapter. *)
(*                                                                         *)
(* The topic's goroutine handles one request at a time and is the only one *)
(* that writes these rows, so a handler is one step.  What is not atomic   *)
(* is its sequence of database calls: the calls after a failed one are not *)
(* made, a call may fail after it took effect, and the process may die     *)
(* between two calls, which is a failure followed by Unload.               *)
(***************************************************************************)
EXTENDS MsgRanges, FiniteSets

CONSTANTS Users,        \* subscribers of the topic
          Writers,      \* those with the W permission
          Readers,      \* those with the R permission
          Deleters,     \* those with the D permission
          Nobody,       \* the zero user ID
          MaxDeleteCount, \* defaultMaxDeleteCount
          MaxSeq,       \* bound: messages
          MaxDel,       \* bound: delete requests
          MaxRanges,    \* bound: ranges in a delete request
          MaxFaults     \* bound: database calls that fail

ASSUME UsersAssumption ==
    /\ IsFiniteSet(Users) /\ Nobody \notin Users
    /\ Writers \subseteq Users /\ Readers \subseteq Users /\ Deleters \subseteq Users
ASSUME BoundsAssumption ==
    MaxDeleteCount \in Nat /\ MaxSeq \in Nat /\ MaxDel \in Nat /\ MaxRanges \in Nat
    /\ MaxFaults \in Nat

VARIABLES
    t,          \* the topic object: loaded, lastID, delID, perUser
    row,        \* its row of table topics: seqid, delid
    msgs,       \* table messages: number -> sender and delid
    dellog,     \* table dellog
    subs,       \* table subscriptions: user -> read, recv, delid
    old,        \* messages up to this number are older than msgDeleteAge
    acked,      \* <<number, sender>> of every {pub} that was accepted
    gone,       \* user -> messages whose deletion was confirmed
    dels,       \* delete requests so far
    faults      \* failed database calls so far

vars == <<t, row, msgs, dellog, subs, old, acked, gone, dels, faults>>
store == <<row, msgs, dellog, subs>>

Seqs == 1..MaxSeq
Zero == [readID |-> 0, recvID |-> 0, delID |-> 0]
Unloaded == [loaded |-> FALSE, lastID |-> 0, delID |-> 0, perUser |-> [u \in Users |-> Zero]]

Init ==
    /\ t = Unloaded
    /\ row = [seqid |-> 0, delid |-> 0]
    /\ msgs = <<>> /\ dellog = {}
    /\ subs = [u \in Users |-> Zero]
    /\ old = 0 /\ acked = {} /\ gone = [u \in Users |-> {}]
    /\ dels = 0 /\ faults = 0

\* initTopicP2P, loadSubscribers: the object as the database has it.
Stored == [loaded |-> TRUE, lastID |-> row.seqid, delID |-> row.delid, perUser |-> subs]
Load ==
    /\ ~t.loaded
    /\ t' = Stored
    /\ UNCHANGED <<store, old, acked, gone, dels, faults>>

\* The topic is unloaded, or the process dies.
Unload ==
    /\ t.loaded
    /\ t' = Unloaded
    /\ UNCHANGED <<store, old, acked, gone, dels, faults>>

\* Messages sent so far become too old to be deleted for everyone.
Age ==
    /\ old < row.seqid
    /\ old' = row.seqid
    /\ UNCHANGED <<t, store, acked, gone, dels, faults>>

Failed(n) == faults + n <= MaxFaults /\ faults' = faults + n

-----------------------------------------------------------------------------
\* TenantMessageSave: the unique index on topic and number refuses a second
\* message of the same number.
Insertable(seq) == seq \notin DOMAIN msgs

\* What saveAndBroadcastMessage does to the topic once the message is saved.
Accepted(u, seq) ==
    [t EXCEPT !.lastID = seq, !.perUser[u] = [@ EXCEPT !.readID = seq, !.recvID = seq]]

\* An error of the insertion, or of what comes after it, is passed on.
ReportedAnyway(insert, ok) == TRUE
Reported(insert, ok) == ok => insert

\* TenantTopicUpdateOnMessage.
Bumped(seq) == [row EXCEPT !.seqid = seq]

(* store.Messages.Save as far as its calls take effect: bump,
   TenantTopicUpdateOnMessage; insert, TenantMessageSave; mark, the read mark of
   a sender who is a reader, whose failure is ignored.  The link of the
   attachments comes last.  ok: no error is returned. *)
Save(u, seq, bump, insert, mark, ok) ==
    /\ insert => bump /\ Insertable(seq)
    /\ mark => insert /\ u \in Readers
    /\ Reported(insert, ok)
    /\ LET clean == ok /\ mark = (u \in Readers)
           refused == bump /\ ~insert /\ ~Insertable(seq)
       IN  Failed(IF clean \/ refused THEN 0 ELSE 1)
    /\ row' = IF bump THEN Bumped(seq) ELSE row
    /\ msgs' = IF insert THEN [n \in DOMAIN msgs \cup {seq} |->
                                 IF n = seq THEN [from |-> u, delid |-> 0] ELSE msgs[n]]
               ELSE msgs
    /\ subs' = IF mark THEN [subs EXCEPT ![u].readID = seq, ![u].recvID = seq] ELSE subs

\* handlePubBroadcast, saveAndBroadcastMessage: on success the client gets an
\* acceptance with the number.
Publish(u) ==
    LET seq == t.lastID + 1 IN
    /\ t.loaded /\ u \in Writers /\ seq \in Seqs
    /\ \E bump, insert, mark, ok \in BOOLEAN :
        /\ Save(u, seq, bump, insert, mark, ok)
        /\ t' = IF ok THEN Accepted(u, seq) ELSE t
        /\ acked' = IF ok THEN acked \cup {<<seq, u>>} ELSE acked
    /\ UNCHANGED <<dellog, old, gone, dels>>

-----------------------------------------------------------------------------
\* handleNoteBroadcast, "read" and "recv": the marks of the user in the topic,
\* and the columns that are written.  A read mark moves the received mark in the
\* topic, and leaves the column alone.
NoteMarks(p, what, seq) ==
    IF what = "read" THEN [p EXCEPT !.readID = seq, !.recvID = Max({@, seq})]
    ELSE [p EXCEPT !.recvID = Max({seq, p.readID})]
NoteColumns(s, what, p) ==
    IF what = "read" THEN [s EXCEPT !.readID = p.readID] ELSE [s EXCEPT !.recvID = p.recvID]
Stale(p, what, seq) == seq <= (IF what = "read" THEN p.readID ELSE p.recvID)

Note(u, what, seq) ==
    LET p == NoteMarks(t.perUser[u], what, seq) IN
    /\ t.loaded /\ u \in Readers
    /\ seq <= t.lastID /\ ~Stale(t.perUser[u], what, seq)
    /\ \E write, ok \in BOOLEAN :
        /\ ok => write
        /\ Failed(IF ok THEN 0 ELSE 1)
        /\ subs' = IF write THEN [subs EXCEPT ![u] = NoteColumns(@, what, p)] ELSE subs
        /\ t' = IF ok THEN [t EXCEPT !.perUser[u] = p] ELSE t
    /\ UNCHANGED <<row, msgs, dellog, old, acked, gone, dels>>

-----------------------------------------------------------------------------
\* replyDelMsg: an entry of the request, what is refused, and what becomes of it.
Entry == [LowId : 0..MaxSeq, HiId : 0..MaxSeq + 1]
Refused(dq) ==
    \/ dq.LowId > t.lastID
    \/ dq.HiId > 0 /\ dq.LowId > dq.HiId
    \/ dq.LowId = 0 /\ dq.HiId = 0
ToRange(dq) ==
    [Low |-> dq.LowId,
     Hi  |-> IF dq.HiId > t.lastID THEN t.lastID + 1
             ELSE IF dq.HiId \in {dq.LowId, dq.LowId + 1} THEN 0 ELSE dq.HiId]
CountOf(r) == IF r.Hi = 0 THEN 1 ELSE r.Hi - r.Low

\* TenantMessageDeleteList for everyone takes the messages that are there and
\* not too old; the log gets one row per range.
Doomed(rs) == {n \in DOMAIN msgs \cap Covered(rs) : msgs[n].delid = 0 /\ n > old}
LogRows(for, id, rs) ==
    {[for |-> for, delid |-> id, low |-> rs[i].Low, hi |-> RangeEnd(rs[i])] : i \in DOMAIN rs}
sortInts(S) == SetToSortSeq(S, LAMBDA a, b : a < b)
HardRows(id, rs) == LogRows(Nobody, id, SliceToRanges(sortInts(Doomed(rs))))

NextDelID == t.delID + 1

\* The delete ID goes to the marks of those the deletion is for.
MarkedFor(whom, marks) ==
    [v \in Users |-> IF v \in whom THEN [marks[v] EXCEPT !.delID = NextDelID] ELSE marks[v]]

(* store.Messages.DeleteList as far as its calls take effect: delete, the
   transaction of TenantMessageDeleteList; record, DelId of the topic; mark,
   DelId of the subscriptions.  ok: no error is returned. *)
DeleteList(u, hard, whom, rs, delete, record, mark, ok) ==
    /\ record => delete
    /\ mark => record
    /\ ok => mark
    /\ Failed(IF ok THEN 0 ELSE 1)
    /\ msgs' = IF delete /\ hard
               THEN [n \in DOMAIN msgs |->
                       IF n \in Doomed(rs) THEN [from |-> Nobody, delid |-> NextDelID]
                       ELSE msgs[n]]
               ELSE msgs
    /\ dellog' = IF ~delete THEN dellog
                 ELSE dellog \cup (IF hard THEN HardRows(NextDelID, rs)
                                   ELSE LogRows(u, NextDelID, rs))
    /\ row' = IF record THEN [row EXCEPT !.delid = NextDelID] ELSE row
    /\ subs' = IF mark THEN MarkedFor(whom, subs) ELSE subs

\* replyDelMsg.  A user without the D permission deletes for themselves, whatever
\* the request says.  gone: what those it is for are told is deleted.
DeleteMessages(u, wantHard, delSeq) ==
    LET hard == wantHard /\ u \in Deleters
        whom == IF hard THEN Users ELSE {u}
        asked == [i \in DOMAIN delSeq |-> ToRange(delSeq[i])]
        rs == SortNormalize(asked)
        kept == IF hard THEN 1..old ELSE {}
    IN
    /\ t.loaded /\ u \in Readers \cup Deleters /\ dels < MaxDel
    /\ \A i \in DOMAIN delSeq : ~Refused(delSeq[i])
    /\ Len(rs) > 1 => FoldLeft(LAMBDA n, r : n + CountOf(r), 0, asked) <= MaxDeleteCount
    /\ dels' = dels + 1
    /\ \E delete, record, mark, ok \in BOOLEAN :
        /\ DeleteList(u, hard, whom, rs, delete, record, mark, ok)
        /\ t' = IF ok THEN [t EXCEPT !.delID = NextDelID, !.perUser = MarkedFor(whom, @)] ELSE t
        /\ gone' = [v \in Users |-> IF ok /\ v \in whom THEN gone[v] \cup (Covered(asked) \ kept)
                                    ELSE gone[v]]
    /\ UNCHANGED <<old, acked>>

-----------------------------------------------------------------------------
\* replyGetDesc: the numbers reported to a reader.
RecvReportedRaw(p) == p.recvID
RecvReported(p) == Max({p.recvID, p.readID})
Desc(topic, u) ==
    LET p == topic.perUser[u] IN
    [seq |-> topic.lastID, clear |-> Max({p.delID, topic.delID}), read |-> p.readID,
     recv |-> RecvReported(p)]

\* TenantMessageGetAll: the numbers of the messages the user can get.
LogCoversShort(e, n) == n \in e.low..(e.hi - 2)
LogCoversHi(e, n) == n \in e.low..e.hi
LogCovers(e, n) == n \in e.low..(e.hi - 1)
GetAll(u) ==
    {n \in DOMAIN msgs : /\ msgs[n].delid = 0
                         /\ \A e \in dellog : e.for = u => ~LogCovers(e, n)}

\* TenantMessageGetDeleted, and store.Messages.GetDeleted.
LogRanges(u) ==
    SetToSeq({[Low |-> e.low, Hi |-> IF e.hi <= e.low + 1 THEN 0 ELSE e.hi] :
                e \in {x \in dellog : x.for \in {u, Nobody}}})
GetDeleted(u) == SortNormalize(LogRanges(u))

-----------------------------------------------------------------------------
Lists(n) == UNION {[1..k -> Entry] : k \in 1..n}

Next ==
    \/ Load \/ Unload \/ Age
    \/ \E u \in Users : \/ Publish(u)
                        \/ \E what \in {"read", "recv"}, seq \in Seqs : Note(u, what, seq)
                        \/ \E hard \in BOOLEAN, delSeq \in Lists(MaxRanges) :
                              DeleteMessages(u, hard, delSeq)

Spec == Init /\ [][Next]_vars

-----------------------------------------------------------------------------
\* An accepted message is in the database under the number its sender was told,
\* until it is deleted for everyone, whatever database calls fail before and
\* after and however often the topic is loaded again.
AckedKept ==
    \A a \in acked : /\ a[1] \in DOMAIN msgs
                     /\ msgs[a[1]].delid = 0 => msgs[a[1]].from = a[2]

\* As long as no database call fails, unloading a topic and loading it again is
\* invisible: a reader who asks for the description gets the same numbers.
ReloadInvisible ==
    t.loaded /\ faults = 0 => \A u \in Readers : Desc(t, u) = Desc(Stored, u)

\* A message whose deletion was confirmed to a user, or deleted for everyone, is
\* not given to that user again.
DeletedGone == \A u \in Users : gone[u] \cap GetAll(u) = {}

\* As long as no database call fails, a user can get every accepted message whose
\* deletion nobody asked for: soft deletion by another user and a message too old
\* to delete for everyone leave it there.  types.go:1236: "Low end is inclusive
\* (closed), high end is exclusive (open): [Low, Hi)."
NotAskedKept ==
    faults = 0 => \A u \in Users : {a[1] : a \in acked} \ gone[u] \subseteq GetAll(u)
=============================================================================
