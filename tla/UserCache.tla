----------------------------- MODULE UserCache -----------------------------
(***************************************************************************)
(* The cache of unread message counters, userUpdater of user.go, and what  *)
(* topics ask of it.                                                       *)
(*                                                                         *)
(* The updater goroutine owns the cache.  A counter is not known when its  *)
(* user is added; the first update of it starts a goroutine that reads the *)
(* counter from the database, updates that come meanwhile are buffered,    *)
(* and push notifications to the user wait.  Topics save a message or a    *)
(* read mark in the database first and post the update second.             *)
(*                                                                         *)
(* All callers pass increments, so a buffer is the sum of its updates.     *)
(***************************************************************************)
EXTENDS Naturals, Integers, Sequences, FiniteSets

CONSTANTS Users,        \* the subscribers of every topic
          TopicSet,     \* topics
          Bounds        \* the bounds of a behaviour, one of:

(* msgs      messages published
   marks     read marks
   loads     times a topic is loaded
   errors    failed reads of the database
   removals  deleted user accounts
   room      capacity of globals.usersUpdate; what does not fit is dropped *)
Bound == [msgs : Nat, marks : Nat, loads : Nat, errors : Nat, removals : Nat, room : Nat]

ASSUME SetsAssumption == IsFiniteSet(Users) /\ IsFiniteSet(TopicSet)
ASSUME BoundsAssumption == IsFiniteSet(Bounds) /\ Bounds \subseteq Bound

VARIABLES
    queue,      \* globals.usersUpdate
    cache,      \* usersCache
    buffers,    \* perUserBuffers
    reads,      \* goroutines that read counters from the database, until ioDone is taken
    pending,    \* perUserPendingReceipts: the receipts that wait for the counter of a user
    receipts,   \* the push receipts, in the order they are posted
    unread,     \* the database: unread messages of a user
    loaded,     \* topics that are loaded
    posting,    \* what a topic goroutine is about to post
    bound,      \* the bounds of this behaviour
    left,       \* what is left of them
    dropped     \* history: a request was dropped

vars == <<queue, cache, buffers, reads, pending, receipts, unread, loaded, posting, bound,
          left, dropped>>

\* The kinds of UserCacheReq.  A receipt goes to all users; it counts for all
\* but the sender, whose own message is marked as read.  A topic registers all its
\* users when it is loaded and unloaded; a user who comes or goes meanwhile, and
\* is registered alone, is left out.
Nothing == [op |-> "nothing"]
Register(add) == [op |-> "register", inc |-> add]
Gone(u) == [op |-> "gone", user |-> u]
Update(u, val) == [op |-> "update", user |-> u, val |-> val]
Push(r) == [op |-> "push", rcpt |-> r]
Requests == {Nothing} \cup {Register(a) : a \in BOOLEAN} \cup {Gone(u) : u \in Users}
    \cup [op : {"update"}, user : Users, val : Int] \cup [op : {"push"}, rcpt : Nat]

\* userCacheEntry; in: the cache has the user, unread < 0: not known.
Entry == [in : BOOLEAN, unread : Int, topics : Nat]
NoEntry == [in |-> FALSE, unread |-> -1, topics |-> 0]

\* pendingReceipt.
Receipt == [from : Users, state : {"posted", "waiting", "sent"}, pendingIOs : Int]

\* usersInit: nothing is cached.
Init ==
    /\ queue = <<>>
    /\ cache = [u \in Users |-> NoEntry]
    /\ buffers = [u \in Users |-> [on |-> FALSE, sum |-> 0]]
    /\ reads = {}
    /\ pending = [u \in Users |-> {}]
    /\ receipts = <<>>
    /\ unread = [u \in Users |-> 0]
    /\ loaded = {}
    /\ posting = [t \in TopicSet |-> Nothing]
    /\ bound \in Bounds
    /\ left = bound
    /\ dropped = FALSE

-----------------------------------------------------------------------------
\* What topics do.  usersRegisterTopic, usersUpdateUnread, sendPush and
\* usersRemoveUser all drop the request when the queue is full.
Posted(req) ==
    \/ Len(queue) < bound.room /\ queue' = Append(queue, req) /\ dropped' = dropped
    \/ Len(queue) >= bound.room /\ queue' = queue /\ dropped' = TRUE

\* topicInit and handleTopicTermination: usersRegisterTopic.
LoadTopic(t) ==
    /\ t \notin loaded /\ posting[t] = Nothing /\ left.loads > 0
    /\ loaded' = loaded \cup {t}
    /\ left' = [left EXCEPT !.loads = @ - 1]
    /\ Posted(Register(TRUE))
    /\ UNCHANGED <<cache, buffers, reads, pending, receipts, unread, posting, bound>>

UnloadTopic(t) ==
    /\ t \in loaded /\ posting[t] = Nothing
    /\ loaded' = loaded \ {t}
    /\ Posted(Register(FALSE))
    /\ UNCHANGED <<cache, buffers, reads, pending, receipts, unread, posting, left, bound>>

\* saveAndBroadcastMessage saves the message; the push comes later.
SaveMessage(t, from) ==
    /\ t \in loaded /\ posting[t] = Nothing /\ left.msgs > 0
    /\ left' = [left EXCEPT !.msgs = @ - 1]
    /\ unread' = [u \in Users |-> IF u = from THEN unread[u] ELSE unread[u] + 1]
    /\ receipts' = Append(receipts, [from |-> from, state |-> "posted", pendingIOs |-> 0])
    /\ posting' = [posting EXCEPT ![t] = Push(Len(receipts) + 1)]
    /\ UNCHANGED <<queue, cache, buffers, reads, pending, loaded, bound, dropped>>

\* handleNoteBroadcast saves the read mark, of k messages more.  The push it also
\* sends to the user's other devices counts nothing and is left out.
SaveReadMark(t, u, k) ==
    /\ t \in loaded /\ posting[t] = Nothing /\ left.marks > 0
    /\ k <= unread[u]
    /\ left' = [left EXCEPT !.marks = @ - 1]
    /\ unread' = [unread EXCEPT ![u] = @ - k]
    /\ posting' = [posting EXCEPT ![t] = Update(u, -k)]
    /\ UNCHANGED <<queue, cache, buffers, reads, pending, receipts, loaded, bound, dropped>>

\* sendPush, usersUpdateUnread.
Post(t) ==
    /\ posting[t] # Nothing
    /\ Posted(posting[t])
    /\ posting' = [posting EXCEPT ![t] = Nothing]
    /\ UNCHANGED <<cache, buffers, reads, pending, receipts, unread, loaded, left, bound>>

\* usersRemoveUser.
RemoveUser(u) ==
    /\ left.removals > 0
    /\ left' = [left EXCEPT !.removals = @ - 1]
    /\ Posted(Gone(u))
    /\ UNCHANGED <<cache, buffers, reads, pending, receipts, unread, loaded, posting, bound>>

-----------------------------------------------------------------------------
\* unreadUpdater on a set of users: known counters are incremented; an update of
\* an unknown counter is buffered if the counter is being read, and otherwise
\* the counter starts being read, by one goroutine for all of them.
Unknown(u) == cache[u].in /\ cache[u].unread < 0
StartedAgain(U) == {u \in U : Unknown(u)}
Started(U) == {u \in U : Unknown(u) /\ ~buffers[u].on}

unreadUpdater(U, val) ==
    /\ cache' = [u \in Users |-> IF u \in U /\ cache[u].in /\ ~Unknown(u)
                                 THEN [cache[u] EXCEPT !.unread = @ + val[u]] ELSE cache[u]]
    /\ buffers' = [u \in Users |->
                     IF u \in Started(U) THEN [on |-> TRUE, sum |-> 0]
                     ELSE IF u \in U /\ Unknown(u) THEN [buffers[u] EXCEPT !.sum = @ + val[u]]
                     ELSE buffers[u]]
    /\ reads' = IF Started(U) = {} THEN reads
                ELSE reads \cup {[users |-> Started(U), state |-> "reading", counts |-> <<>>]}

\* userUpdater, a push: sent at once unless the counter of some user is read.
HandlePush ==
    /\ queue # <<>> /\ Head(queue).op = "push"
    /\ LET r == Head(queue).rcpt
           waitFor == {u \in Users : Unknown(u)}
       IN
       /\ unreadUpdater(Users, [u \in Users |-> IF u = receipts[r].from THEN 0 ELSE 1])
       /\ pending' = [u \in Users |-> IF u \in waitFor THEN pending[u] \cup {r} ELSE pending[u]]
       /\ receipts' = [receipts EXCEPT ![r] =
                         [from |-> receipts[r].from,
                          state |-> IF waitFor = {} THEN "sent" ELSE "waiting",
                          pendingIOs |-> Cardinality(waitFor)]]
    /\ queue' = Tail(queue)
    /\ UNCHANGED <<unread, loaded, posting, left, bound, dropped>>

\* userUpdater, an update of one counter.
HandleUpdate ==
    /\ queue # <<>> /\ Head(queue).op = "update"
    /\ unreadUpdater({Head(queue).user}, [u \in Users |-> Head(queue).val])
    /\ queue' = Tail(queue)
    /\ UNCHANGED <<pending, receipts, unread, loaded, posting, left, bound, dropped>>

\* userUpdater, a topic comes or goes.
RegisteredLate(e, add) ==
    IF add THEN [e EXCEPT !.in = TRUE, !.topics = @ + 1]
    ELSE IF e.topics > 0 THEN [e EXCEPT !.topics = @ - 1]
    ELSE NoEntry
Registered(e, add) ==
    IF add THEN [in |-> TRUE, unread |-> IF e.in THEN e.unread ELSE -1, topics |-> e.topics + 1]
    ELSE IF e.topics > 1 THEN [e EXCEPT !.topics = @ - 1]
    ELSE NoEntry

HandleRegister ==
    /\ queue # <<>> /\ Head(queue).op = "register"
    /\ cache' = [u \in Users |-> Registered(cache[u], Head(queue).inc)]
    /\ queue' = Tail(queue)
    /\ UNCHANGED <<buffers, reads, pending, receipts, unread, loaded, posting, left,
                   bound, dropped>>

\* userUpdater, a user is deleted.
HandleGone ==
    /\ queue # <<>> /\ Head(queue).op = "gone"
    /\ cache' = [cache EXCEPT ![Head(queue).user] = NoEntry]
    /\ queue' = Tail(queue)
    /\ UNCHANGED <<buffers, reads, pending, receipts, unread, loaded, posting, left,
                   bound, dropped>>

-----------------------------------------------------------------------------
\* Mutant: the goroutine reports only if every user has something unread.
ReadCountsFound(io) ==
    /\ io.state = "reading" /\ \A u \in io.users : unread[u] > 0
    /\ reads' = (reads \ {io}) \cup
                   {[users |-> io.users, state |-> "ok", counts |-> [u \in io.users |-> unread[u]]]}
    /\ UNCHANGED <<queue, cache, buffers, pending, receipts, unread, loaded, posting,
                   left, bound, dropped>>
\* GetUnreadCount in a goroutine of its own: the counters, or an error with a
\* zero for every user.
ReadCounts(io) ==
    /\ io.state = "reading"
    /\ \/ /\ reads' = (reads \ {io}) \cup
                        {[users |-> io.users, state |-> "ok", counts |-> [u \in io.users |-> unread[u]]]}
          /\ left' = left
       \/ /\ left.errors > 0
          /\ reads' = (reads \ {io}) \cup {[io EXCEPT !.state = "failed"]}
          /\ left' = [left EXCEPT !.errors = @ - 1]
    /\ UNCHANGED <<queue, cache, buffers, pending, receipts, unread, loaded, posting,
                   bound, dropped>>

\* userUpdater, ioDone: stop buffering; unless the read failed set the counters,
\* and send the receipts that wait for nothing else.
DecreasedAlways(r, U) == receipts[r].pendingIOs - 1
Decreased(r, U) == receipts[r].pendingIOs - Cardinality({u \in U : r \in pending[u]})

NotFlushed(u, count) == count
Flushed(u, count) == count + buffers[u].sum

HandleIODone(io) ==
    /\ io.state # "reading"
    /\ reads' = reads \ {io}
    /\ buffers' = [u \in Users |-> IF u \in io.users THEN [on |-> FALSE, sum |-> 0]
                                   ELSE buffers[u]]
    /\ \/ /\ io.state = "failed"
          /\ UNCHANGED <<cache, pending, receipts>>
       \/ /\ io.state = "ok"
          /\ cache' = [u \in Users |->
                         IF u \in io.users /\ cache[u].in
                         THEN [cache[u] EXCEPT !.unread = Flushed(u, io.counts[u])]
                         ELSE cache[u]]
          /\ pending' = [u \in Users |-> IF u \in io.users THEN {} ELSE pending[u]]
          /\ receipts' = [r \in DOMAIN receipts |->
                            [from |-> receipts[r].from,
                             state |-> IF receipts[r].state = "waiting"
                                          /\ Decreased(r, io.users) = 0
                                       THEN "sent" ELSE receipts[r].state,
                             pendingIOs |-> Decreased(r, io.users)]]
    /\ UNCHANGED <<queue, unread, loaded, posting, left, bound, dropped>>

-----------------------------------------------------------------------------
UpdaterStep == \/ HandlePush \/ HandleUpdate \/ HandleRegister \/ HandleGone
               \/ \E io \in reads : HandleIODone(io)
TopicStep(t) == \/ LoadTopic(t) \/ UnloadTopic(t)
                \/ \E u \in Users : SaveMessage(t, u)
                \/ \E u \in Users, k \in 1..bound.msgs : SaveReadMark(t, u, k)

Next == \/ UpdaterStep
        \/ \E io \in reads : ReadCounts(io)
        \/ \E t \in TopicSet : TopicStep(t) \/ Post(t)
        \/ \E u \in Users : RemoveUser(u)

Spec == Init /\ [][Next]_vars

\* Goroutines run; a read of the database comes to an end.
FairSpec == /\ Spec
            /\ WF_vars(UpdaterStep)
            /\ WF_vars(\E io \in reads : ReadCounts(io))
            /\ \A t \in TopicSet : WF_vars(Post(t))

-----------------------------------------------------------------------------
\* No request was dropped and no user deleted.
Faultless == ~dropped /\ left.removals = bound.removals

\* The counter of a user is read by at most one goroutine at a time, exactly
\* while updates of it are buffered, and a counter that is being read is not
\* known.  The log messages "io didn't have an update buffer" and "unread count
\* double initialization" of userUpdater are never written.
ReadOnce ==
    \A u \in Users :
        /\ Cardinality({io \in reads : u \in io.users}) = IF buffers[u].on THEN 1 ELSE 0
        /\ buffers[u].on => cache[u].unread < 0

\* A receipt waits for as many counters as users hold it in their lists, so it
\* is sent when the last of them is read: not before, and not twice.
ReceiptsWait ==
    \A r \in DOMAIN receipts :
        LET holders == {u \in Users : r \in pending[u]} IN
        /\ receipts[r].pendingIOs = Cardinality(holders)
        /\ receipts[r].state = "waiting" <=> holders # {}

\* The number of topics in an entry is that of the loaded topics, when the
\* requests still in the queue are accounted for: the entry goes with the last
\* topic, and no sooner.  When requests are dropped or users deleted it is not so.
Queued(add) == Cardinality({k \in DOMAIN queue : queue[k] = Register(add)})
TopicsCounted == Faultless =>
    \A u \in Users :
        /\ cache[u].topics + Queued(TRUE) - Queued(FALSE) = Cardinality(loaded)
        /\ cache[u].in <=> cache[u].topics > 0

\* Nothing is on its way.
Quiet == queue = <<>> /\ reads = {} /\ \A t \in TopicSet : posting[t] = Nothing
Known(u) == cache[u].in /\ cache[u].unread >= 0

\* No message is missed: a counter that is known is at least that of the
\* database, as long as no messages are marked as read, no request is dropped and
\* no user deleted.
NeverUndercounts == Faultless /\ left.marks = bound.marks /\ Quiet =>
    \A u \in Users : Known(u) => cache[u].unread >= unread[u]
=============================================================================
