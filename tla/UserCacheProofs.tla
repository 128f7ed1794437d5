-------------------------- MODULE UserCacheProofs ---------------------------
(***************************************************************************)
(* Proofs about UserCache for any users, topics and bounds, with requests  *)
(* that are dropped, reads that fail and users who are removed.            *)
(*                                                                         *)
(* One read per counter: a user is buffered exactly while a goroutine      *)
(* reads for them, and no two read for the same user (ReadsApart).  What   *)
(* a receipt waits for: a receipt is posted once, so nobody holds it when  *)
(* it is taken from the queue (PostedOnce), and the goroutine that reports *)
(* takes it from the lists of the users it read for and from no others.    *)
(***************************************************************************)
EXTENDS UserCache, FiniteSetTheorems, SequenceTheorems, TLAPS

IsEntry(e) == e = [in |-> e.in, unread |-> e.unread, topics |-> e.topics]
IsBuffer(b) == b = [on |-> b.on, sum |-> b.sum]

CacheShape ==
    /\ \A u \in Users : IsEntry(cache[u]) /\ IsBuffer(buffers[u])
    /\ DOMAIN cache = Users

ReadsShape ==
    \A io \in reads : /\ io = [users |-> io.users, state |-> io.state, counts |-> io.counts]
                      /\ io.users \subseteq Users

\* A counter is buffered exactly while it is read, by one goroutine.
ReadsApart ==
    /\ \A u \in Users : buffers[u].on <=> \E io \in reads : u \in io.users
    /\ \A u \in Users : \A io1, io2 \in reads : u \in io1.users /\ u \in io2.users => io1 = io2

BufferedUnknown == \A u \in Users : buffers[u].on => cache[u].unread < 0

\* What is in the queue, and on its way to it.
QueueInv == /\ queue \in Seq(Requests)
            /\ posting \in [TopicSet -> Requests]
            /\ receipts \in Seq(Receipt)

\* A receipt that is in the queue, or on its way to it, is there once and has not
\* been handled.
Unhandled(rs, r) == r \in DOMAIN rs /\ rs[r].state = "posted"
PostedOnce ==
    /\ \A k \in DOMAIN queue : queue[k].op = "push" => Unhandled(receipts, queue[k].rcpt)
    /\ \A t \in TopicSet : posting[t].op = "push" => Unhandled(receipts, posting[t].rcpt)
    /\ \A j, k \in DOMAIN queue :
          queue[j].op = "push" /\ queue[k].op = "push" /\ queue[j].rcpt = queue[k].rcpt => j = k
    /\ \A s, t \in TopicSet :
          posting[s].op = "push" /\ posting[t].op = "push" /\ posting[s].rcpt = posting[t].rcpt
            => s = t
    /\ \A k \in DOMAIN queue, t \in TopicSet :
          queue[k].op = "push" /\ posting[t].op = "push" => queue[k].rcpt # posting[t].rcpt

Holders(r) == {u \in Users : r \in pending[u]}
Waiting ==
    /\ DOMAIN pending = Users
    /\ \A u \in Users : pending[u] \subseteq DOMAIN receipts
    /\ \A r \in DOMAIN receipts :
          /\ receipts[r].pendingIOs = Cardinality(Holders(r))
          /\ receipts[r].state = "waiting" <=> Holders(r) # {}

ReadsInv == CacheShape /\ ReadsShape /\ ReadsApart /\ BufferedUnknown

-----------------------------------------------------------------------------
(* The counters that are read, in ReadOnce's own terms. *)
LEMMA ReadsCounted == ReadsInv => ReadOnce
<1> SUFFICES ASSUME ReadsInv, NEW u \in Users
             PROVE  /\ Cardinality({io \in reads : u \in io.users})
                         = IF buffers[u].on THEN 1 ELSE 0
                    /\ buffers[u].on => cache[u].unread < 0
    BY DEF ReadOnce
<1> DEFINE R == {io \in reads : u \in io.users}
<1>1. CASE buffers[u].on
  <2>1. PICK io \in reads : u \in io.users
    BY <1>1 DEF ReadsInv, ReadsApart
  <2>2. R = {io}
    BY <2>1 DEF ReadsInv, ReadsApart
  <2>3. Cardinality(R) = 1
    BY Zenon, <2>2, FS_Singleton
  <2> QED
    BY <1>1, <2>3 DEF ReadsInv, BufferedUnknown
<1>2. CASE ~buffers[u].on
  <2>1. R = {}
    BY <1>2 DEF ReadsInv, ReadsApart
  <2>2. Cardinality(R) = 0
    BY <2>1, FS_EmptySet
  <2> QED
    BY <1>2, <2>2
<1> QED
    BY <1>1, <1>2

(* What an assignment to a field leaves alone. *)
LEMMA EntryExcept ==
    \A e, x, f : IsEntry(e) /\ f = [e EXCEPT !.unread = x] => IsEntry(f)
<1> SUFFICES ASSUME NEW e, NEW x, IsEntry(e) PROVE IsEntry([e EXCEPT !.unread = x])
    OBVIOUS
<1>1. [e EXCEPT !.unread = x] = [in |-> e.in, unread |-> x, topics |-> e.topics]
    BY DEF IsEntry
<1> QED
    BY <1>1 DEF IsEntry

LEMMA TopicsExcept ==
    \A e, x, f : IsEntry(e) /\ f = [e EXCEPT !.topics = x] => IsEntry(f) /\ f.unread = e.unread
<1> SUFFICES ASSUME NEW e, NEW x, IsEntry(e)
             PROVE  IsEntry([e EXCEPT !.topics = x]) /\ [e EXCEPT !.topics = x].unread = e.unread
    OBVIOUS
<1>1. [e EXCEPT !.topics = x] = [in |-> e.in, unread |-> e.unread, topics |-> x]
    BY DEF IsEntry
<1> QED
    BY <1>1 DEF IsEntry

LEMMA BufferExcept ==
    \A b, x, f : IsBuffer(b) /\ f = [b EXCEPT !.sum = x] => IsBuffer(f) /\ f.on = b.on
<1> SUFFICES ASSUME NEW b, NEW x, IsBuffer(b)
             PROVE  IsBuffer([b EXCEPT !.sum = x]) /\ [b EXCEPT !.sum = x].on = b.on
    OBVIOUS
<1>1. [b EXCEPT !.sum = x] = [on |-> b.on, sum |-> x]
    BY DEF IsBuffer
<1> QED
    BY <1>1 DEF IsBuffer

(* Updates of counters start reads only of those nobody reads. *)
LEMMA UpdaterReads ==
    ASSUME ReadsInv, NEW U \in SUBSET Users, NEW val, unreadUpdater(U, val)
    PROVE  ReadsInv'
<1> DEFINE io == [users |-> Started(U), state |-> "reading", counts |-> <<>>]
<1>1. Started(U) \subseteq Users /\ \A u \in Started(U) : ~buffers[u].on /\ Unknown(u)
    BY DEF Started
<1>2. ASSUME NEW u \in Users
      PROVE  /\ IsEntry(cache'[u])
             /\ IsBuffer(buffers'[u])
             /\ u \in Started(U) => buffers'[u].on
             /\ u \notin Started(U) => buffers'[u].on = buffers[u].on
             /\ cache[u].unread < 0 => cache'[u] = cache[u]
  <2>1. IsEntry(cache[u]) /\ IsBuffer(buffers[u])
    BY DEF ReadsInv, CacheShape
  <2>2. PICK x : cache'[u] = cache[u] \/ cache'[u] = [cache[u] EXCEPT !.unread = x]
    <3>1. cache'[u] = cache[u] \/ cache'[u] = [cache[u] EXCEPT !.unread = cache[u].unread + val[u]]
      BY DEF unreadUpdater
    <3> QED
      BY ONLY <3>1, Zenon
  <2>3. cache[u].unread < 0 => cache'[u] = cache[u]
    BY DEF unreadUpdater, Unknown
  <2>4. u \in Started(U) => buffers'[u] = [on |-> TRUE, sum |-> 0]
    BY DEF unreadUpdater
  <2>5. PICK y : u \notin Started(U) =>
            \/ buffers'[u] = buffers[u]
            \/ buffers'[u] = [buffers[u] EXCEPT !.sum = y]
    <3>1. u \notin Started(U) =>
            \/ buffers'[u] = buffers[u]
            \/ buffers'[u] = [buffers[u] EXCEPT !.sum = buffers[u].sum + val[u]]
      BY DEF unreadUpdater
    <3> QED
      BY ONLY <3>1, Zenon
  <2>6. IsEntry(cache'[u])
    BY ONLY <2>1, <2>2, EntryExcept, Zenon
  <2>7. CASE u \in Started(U)
    BY ONLY <2>3, <2>4, <2>6, <2>7 DEF IsBuffer
  <2>8. CASE u \notin Started(U)
    <3>1. buffers'[u] = buffers[u] \/ buffers'[u] = [buffers[u] EXCEPT !.sum = y]
      BY ONLY <2>5, <2>8
    <3>2. IsBuffer(buffers'[u]) /\ buffers'[u].on = buffers[u].on
      BY ONLY <2>1, <3>1, BufferExcept, Zenon
    <3> QED
      BY ONLY <2>3, <2>6, <2>8, <3>2
  <2> QED
    BY <2>7, <2>8
<1>21. CacheShape'
    BY Zenon, <1>2 DEF unreadUpdater, CacheShape
<1>3. reads' \subseteq reads \cup {io} /\ reads \subseteq reads'
      /\ (Started(U) # {} => io \in reads') /\ (Started(U) = {} => reads' = reads)
    BY DEF unreadUpdater
<1>4. ReadsShape'
    BY <1>1, <1>3 DEF ReadsInv, ReadsShape
<1>5. \A u \in Users : buffers'[u].on <=> buffers[u].on \/ u \in Started(U)
    BY ONLY <1>2
<1>6. ReadsApart'
  <2>1. ASSUME NEW u \in Users
        PROVE  buffers'[u].on <=> \E i \in reads' : u \in i.users
    <3>1. u \in Started(U) => io \in reads' /\ u \in io.users
      BY <1>3
    <3>2. \A i \in reads' : u \in i.users => u \in Started(U) \/ i \in reads
      BY <1>3
    <3> HIDE DEF io
    <3> QED
      BY <1>3, <1>5, <3>1, <3>2 DEF ReadsInv, ReadsApart
  <2>2. ASSUME NEW u \in Users, NEW i \in reads', NEW j \in reads', u \in i.users, u \in j.users
        PROVE  i = j
    <3>1. (i \in reads \/ i = io) /\ (j \in reads \/ j = io)
      BY <1>3
    <3>2. ~(i \in reads /\ j = io) /\ ~(j \in reads /\ i = io)
      BY <1>1, <2>2 DEF ReadsInv, ReadsApart
    <3> QED
      BY <2>2, <3>1, <3>2 DEF ReadsInv, ReadsApart
  <2> QED
    BY <2>1, <2>2 DEF ReadsApart
<1>7. BufferedUnknown'
    BY <1>1, <1>2, <1>5 DEF ReadsInv, BufferedUnknown, Unknown
<1> QED
    BY <1>21, <1>4, <1>6, <1>7 DEF ReadsInv

(* A topic comes or goes, a user is deleted: what is read stays unknown. *)
LEMMA RegisterReads == ReadsInv /\ HandleRegister => ReadsInv'
<1> SUFFICES ASSUME ReadsInv, HandleRegister PROVE ReadsInv'
    OBVIOUS
<1> DEFINE add == Head(queue).inc
<1>1. ASSUME NEW u \in Users
      PROVE  IsEntry(cache'[u]) /\ (cache[u].unread < 0 => cache'[u].unread < 0)
  <2>1. IsEntry(cache[u])
    BY DEF ReadsInv, CacheShape
  <2>2. cache'[u] = Registered(cache[u], add)
    BY DEF HandleRegister
  <2>3. CASE add
    BY <2>2, <2>3 DEF Registered, IsEntry
  <2>4. CASE ~add /\ cache[u].topics > 1
    <3>1. cache'[u] = [cache[u] EXCEPT !.topics = cache[u].topics - 1]
      BY <2>2, <2>4 DEF Registered
    <3>2. PICK x : cache'[u] = [cache[u] EXCEPT !.topics = x]
      BY ONLY <3>1, Zenon
    <3>3. IsEntry(cache'[u]) /\ cache'[u].unread = cache[u].unread
      BY ONLY <2>1, <3>2, TopicsExcept, Zenon
    <3> QED
      BY ONLY <3>3
  <2>5. CASE ~add /\ ~(cache[u].topics > 1)
    <3>1. cache'[u] = NoEntry
      BY <2>2, <2>5 DEF Registered
    <3> QED
      BY ONLY <3>1 DEF NoEntry, IsEntry
  <2> QED
    BY <2>3, <2>4, <2>5
<1>2. DOMAIN cache' = Users /\ buffers' = buffers /\ reads' = reads
    BY DEF HandleRegister
<1> QED
    BY <1>1, <1>2 DEF ReadsInv, CacheShape, ReadsShape, ReadsApart, BufferedUnknown

LEMMA GoneReads == ReadsInv /\ HandleGone => ReadsInv'
<1> SUFFICES ASSUME ReadsInv, HandleGone PROVE ReadsInv'
    OBVIOUS
<1>1. DOMAIN cache' = Users /\ buffers' = buffers /\ reads' = reads
    BY DEF HandleGone, ReadsInv, CacheShape
<1>2. ASSUME NEW u \in Users PROVE cache'[u] = cache[u] \/ cache'[u] = NoEntry
    BY DEF HandleGone, ReadsInv, CacheShape
<1>3. ASSUME NEW u \in Users
      PROVE  IsEntry(cache'[u]) /\ (cache[u].unread < 0 => cache'[u].unread < 0)
    BY <1>2 DEF ReadsInv, CacheShape, NoEntry, IsEntry
<1> QED
    BY <1>1, <1>3 DEF ReadsInv, CacheShape, ReadsShape, ReadsApart, BufferedUnknown

(* The goroutine has its answer: it still reads for the same users. *)
LEMMA CountsReads == ASSUME ReadsInv, NEW io \in reads, ReadCounts(io) PROVE ReadsInv'
<1>1. PICK io2 : /\ reads' = (reads \ {io}) \cup {io2}
                 /\ io2.users = io.users
                 /\ io2 = [users |-> io2.users, state |-> io2.state, counts |-> io2.counts]
  <2>1. io = [users |-> io.users, state |-> io.state, counts |-> io.counts]
    BY DEF ReadsInv, ReadsShape
  <2>2. CASE reads' = (reads \ {io}) \cup
               {[users |-> io.users, state |-> "ok", counts |-> [u \in io.users |-> unread[u]]]}
    <3> DEFINE c == [u \in io.users |-> unread[u]]
               io2 == [users |-> io.users, state |-> "ok", counts |-> c]
    <3>1. reads' = (reads \ {io}) \cup {io2}
      BY ONLY <2>2
    <3> HIDE DEF c
    <3> WITNESS io2
    <3> QED
      BY ONLY <3>1
  <2>3. CASE reads' = (reads \ {io}) \cup {[io EXCEPT !.state = "failed"]}
    <3> DEFINE io2 == [users |-> io.users, state |-> "failed", counts |-> io.counts]
    <3>1. [io EXCEPT !.state = "failed"] = io2
      BY ONLY <2>1
    <3>2. reads' = (reads \ {io}) \cup {io2}
      BY ONLY <2>3, <3>1
    <3> WITNESS io2
    <3> QED
      BY ONLY <3>2
  <2> QED
    BY <2>2, <2>3 DEF ReadCounts
<1>2. cache' = cache /\ buffers' = buffers
    BY DEF ReadCounts
<1>3. ReadsShape'
    BY <1>1 DEF ReadsInv, ReadsShape
<1>4. ReadsApart'
  <2>1. ASSUME NEW u \in Users
        PROVE  (\E i \in reads' : u \in i.users) <=> \E i \in reads : u \in i.users
    BY <1>1
  <2>2. ASSUME NEW u \in Users, NEW i \in reads', NEW j \in reads', u \in i.users, u \in j.users
        PROVE  i = j
    BY <1>1, <2>2 DEF ReadsInv, ReadsApart
  <2> QED
    BY <1>2, <2>1, <2>2 DEF ReadsInv, ReadsApart
<1> QED
    BY <1>2, <1>3, <1>4 DEF ReadsInv, CacheShape, BufferedUnknown

(* The goroutine reports: buffering ends for its users, and for no others. *)
LEMMA DoneReads == ASSUME ReadsInv, NEW io \in reads, HandleIODone(io) PROVE ReadsInv'
<1>1. /\ reads' = reads \ {io}
      /\ \A u \in io.users : buffers'[u] = [on |-> FALSE, sum |-> 0]
      /\ \A u \in Users \ io.users : buffers'[u] = buffers[u]
    BY DEF HandleIODone, ReadsInv, ReadsShape
<1>2. ASSUME NEW u \in Users
      PROVE  IsEntry(cache'[u]) /\ (u \notin io.users => cache'[u] = cache[u])
  <2>1. IsEntry(cache[u])
    BY DEF ReadsInv, CacheShape
  <2>2. \/ cache'[u] = cache[u]
        \/ u \in io.users /\ cache'[u] = [cache[u] EXCEPT !.unread = Flushed(u, io.counts[u])]
    BY DEF HandleIODone
  <2>3. PICK x : cache'[u] = cache[u] \/ cache'[u] = [cache[u] EXCEPT !.unread = x]
    BY ONLY <2>2, Zenon
  <2>4. IsEntry(cache'[u])
    BY ONLY <2>1, <2>3, EntryExcept, Zenon
  <2> QED
    BY <2>2, <2>4
<1>3. DOMAIN cache' = Users
    BY DEF HandleIODone, ReadsInv, CacheShape
<1>4. CacheShape'
    BY <1>1, <1>2, <1>3 DEF ReadsInv, CacheShape, IsBuffer
<1>5. ReadsShape'
    BY <1>1 DEF ReadsInv, ReadsShape
<1>6. ReadsApart'
  <2>1. ASSUME NEW u \in Users
        PROVE  buffers'[u].on <=> \E i \in reads' : u \in i.users
    <3>1. CASE u \in io.users
      BY <1>1, <3>1 DEF ReadsInv, ReadsApart
    <3>2. CASE u \notin io.users
      BY <1>1, <3>2 DEF ReadsInv, ReadsApart
    <3> QED
      BY <3>1, <3>2
  <2> QED
    BY <1>1, <2>1 DEF ReadsInv, ReadsApart
<1>7. BufferedUnknown'
    BY <1>1, <1>2 DEF ReadsInv, BufferedUnknown
<1> QED
    BY <1>4, <1>5, <1>6, <1>7 DEF ReadsInv

(* The first request of the queue. *)
LEMMA HeadRequest ==
    ASSUME QueueInv, queue # <<>>
    PROVE  /\ Head(queue) \in Requests
           /\ Tail(queue) \in Seq(Requests)
           /\ Head(queue).op = "update" => Head(queue).user \in Users
<1>1. Head(queue) \in Requests /\ Tail(queue) \in Seq(Requests)
    BY HeadTailProperties DEF QueueInv
<1>2. \A q \in Requests : q.op = "update" => q.user \in Users
    BY DEF Requests, Nothing, Register, Gone
<1> QED
    BY <1>1, <1>2

(* Receipts that are counted anew. *)
LEMMA ReceiptsPush ==
    ASSUME QueueInv, HandlePush PROVE receipts' \in Seq(Receipt)
<1> DEFINE n == Cardinality({u \in Users : Unknown(u)})
           r == Head(queue).rcpt
<1>1. n \in Nat
    BY FS_Subset, FS_CardinalityType, SetsAssumption
<1>2. PICK x \in {"sent", "waiting"} :
         receipts' = [receipts EXCEPT ![r] = [from |-> receipts[r].from, state |-> x, pendingIOs |-> n]]
    BY Zenon DEF HandlePush
<1> HIDE DEF n, r
<1>3. CASE r \in DOMAIN receipts
  <2>1. receipts[r].from \in Users
    <3>1. receipts[r] \in Receipt
      BY <1>3, ElementOfSeq, LenProperties DEF QueueInv
    <3> QED
      BY <3>1 DEF Receipt
  <2>2. [from |-> receipts[r].from, state |-> x, pendingIOs |-> n] \in Receipt
    BY <1>1, <2>1 DEF Receipt
  <2> QED
    BY <1>2, <1>3, <2>2, ExceptSeq DEF QueueInv
<1>4. CASE r \notin DOMAIN receipts
  <2>1. receipts = [i \in DOMAIN receipts |-> receipts[i]]
    BY DEF QueueInv
  <2>2. receipts' = [i \in DOMAIN receipts |-> receipts[i]]
    BY ONLY <1>2, <1>4, <2>1
  <2> QED
    BY <2>1, <2>2 DEF QueueInv
<1> QED
    BY <1>3, <1>4

LEMMA ReceiptsDone ==
    ASSUME QueueInv, NEW io \in reads, ReadsInv, HandleIODone(io) PROVE receipts' \in Seq(Receipt)
<1>1. CASE receipts' = receipts
    BY <1>1 DEF QueueInv
<1>2. CASE receipts' # receipts
  <2>1. receipts' = [r \in DOMAIN receipts |->
                            [from |-> receipts[r].from,
                             state |-> IF receipts[r].state = "waiting"
                                          /\ Decreased(r, io.users) = 0
                                       THEN "sent" ELSE receipts[r].state,
                             pendingIOs |-> Decreased(r, io.users)]]
    BY <1>2 DEF HandleIODone
  <2>2. ASSUME NEW r \in DOMAIN receipts PROVE receipts'[r] \in Receipt
    <3>1. receipts[r] \in Receipt
      BY ElementOfSeq, LenProperties DEF QueueInv
    <3>2. Cardinality({u \in io.users : r \in pending[u]}) \in Nat
      <4>1. IsFiniteSet(io.users)
        BY FS_Subset, SetsAssumption DEF ReadsInv, ReadsShape
      <4> QED
        BY <4>1, FS_Subset, FS_CardinalityType
    <3>3. Decreased(r, io.users) \in Int
      BY <3>1, <3>2 DEF Decreased, Receipt
    <3> QED
      BY <2>1, <3>1, <3>3 DEF Receipt
  <2>3. DOMAIN receipts' = 1..Len(receipts) /\ Len(receipts) \in Nat
    BY <2>1, LenProperties DEF QueueInv
  <2>4. receipts' = [r \in 1..Len(receipts) |-> receipts'[r]]
    BY <2>1, <2>3
  <2> QED
    BY <2>2, <2>3, <2>4, IsASeq
<1> QED
    BY <1>1, <1>2

LEMMA QueueStep == QueueInv /\ ReadsInv /\ [Next]_vars => QueueInv'
<1> SUFFICES ASSUME QueueInv, ReadsInv, [Next]_vars PROVE QueueInv'
    OBVIOUS
<1>1. ASSUME NEW q \in Requests, Posted(q) PROVE queue' \in Seq(Requests)
  <2>1. queue' = queue \/ queue' = Append(queue, q)
    BY <1>1 DEF Posted
  <2>2. queue \in Seq(Requests) /\ Append(queue, q) \in Seq(Requests)
    BY <1>1, AppendProperties DEF QueueInv
  <2> QED
    BY <2>1, <2>2
<1>2. \A u \in Users : Gone(u) \in Requests /\ \A k \in Int : Update(u, k) \in Requests
    BY DEF Requests, Update
<1>3. Nothing \in Requests /\ Register(TRUE) \in Requests /\ Register(FALSE) \in Requests
    BY Zenon DEF Requests
<1>4. CASE UpdaterStep
  <2>1. posting' = posting
    BY <1>4 DEF UpdaterStep, HandlePush, HandleUpdate, HandleRegister, HandleGone, HandleIODone
  <2>2. queue' = queue \/ (queue # <<>> /\ queue' = Tail(queue))
    BY <1>4 DEF UpdaterStep, HandlePush, HandleUpdate, HandleRegister, HandleGone, HandleIODone
  <2>3. receipts' \in Seq(Receipt)
    <3>1. CASE HandleUpdate \/ HandleRegister \/ HandleGone
      BY <3>1 DEF HandleUpdate, HandleRegister, HandleGone, QueueInv
    <3> QED
      BY <1>4, <3>1, ReceiptsPush, ReceiptsDone DEF UpdaterStep
  <2> QED
    BY Zenon, <2>1, <2>2, <2>3, HeadRequest DEF QueueInv
<1>5. ASSUME NEW io \in reads, ReadCounts(io) PROVE QueueInv'
    BY <1>5 DEF ReadCounts, QueueInv
<1>6. ASSUME NEW t \in TopicSet, LoadTopic(t) \/ UnloadTopic(t) PROVE QueueInv'
    BY Zenon, <1>1, <1>3, <1>6 DEF LoadTopic, UnloadTopic, QueueInv
<1>7. ASSUME NEW t \in TopicSet, NEW u \in Users, SaveMessage(t, u) PROVE QueueInv'
  <2>1. Push(Len(receipts) + 1) \in Requests
    <3>1. Len(receipts) + 1 \in Nat
      BY <1>7, LenProperties DEF QueueInv
    <3> QED
      BY <3>1 DEF Requests, Push
  <2>2. [from |-> u, state |-> "posted", pendingIOs |-> 0] \in Receipt
    BY DEF Receipt
  <2>3. receipts' \in Seq(Receipt)
    BY <1>7, <2>2, AppendProperties DEF SaveMessage, QueueInv
  <2> QED
    BY <1>7, <2>1, <2>3 DEF SaveMessage, QueueInv
<1>8. ASSUME NEW t \in TopicSet, NEW u \in Users, NEW k \in 1..bound.msgs, SaveReadMark(t, u, k)
      PROVE  QueueInv'
  <2>1. Update(u, -k) \in Requests
    BY <1>2
  <2> QED
    BY <1>8, <2>1 DEF SaveReadMark, QueueInv
<1>9. ASSUME NEW t \in TopicSet, Post(t) PROVE QueueInv'
    BY <1>1, <1>3, <1>9 DEF Post, QueueInv
<1>10. ASSUME NEW u \in Users, RemoveUser(u) PROVE QueueInv'
    BY <1>1, <1>2, <1>10 DEF RemoveUser, QueueInv
<1>11. CASE UNCHANGED vars
    BY <1>11 DEF vars, QueueInv
<1> QED
    BY <1>4, <1>5, <1>6, <1>7, <1>8, <1>9, <1>10, <1>11 DEF Next, TopicStep

LEMMA InitReads == Init => ReadsInv /\ QueueInv
<1> SUFFICES ASSUME Init PROVE ReadsInv /\ QueueInv
    OBVIOUS
<1>1. ReadsInv
    BY DEF Init, ReadsInv, CacheShape, ReadsShape, ReadsApart, BufferedUnknown, NoEntry,
           IsEntry, IsBuffer
<1>2. QueueInv
    BY DEF Init, QueueInv, Requests
<1> QED
    BY <1>1, <1>2

LEMMA ReadsStep == ReadsInv /\ QueueInv /\ [Next]_vars => ReadsInv'
<1> SUFFICES ASSUME ReadsInv, QueueInv, [Next]_vars PROVE ReadsInv'
    OBVIOUS
<1>1. ASSUME cache' = cache, buffers' = buffers, reads' = reads PROVE ReadsInv'
    BY <1>1 DEF ReadsInv, CacheShape, ReadsShape, ReadsApart, BufferedUnknown
<1>2. CASE HandlePush
  <2>1. PICK val : unreadUpdater(Users, val)
    BY <1>2 DEF HandlePush
  <2> QED
    BY <2>1, UpdaterReads
<1>3. CASE HandleUpdate
  <2>1. PICK val : unreadUpdater({Head(queue).user}, val)
    BY <1>3 DEF HandleUpdate
  <2>2. {Head(queue).user} \in SUBSET Users
    BY <1>3, HeadRequest DEF HandleUpdate
  <2> QED
    BY <2>1, <2>2, UpdaterReads
<1>4. CASE HandleRegister
    BY <1>4, RegisterReads
<1>5. CASE HandleGone
    BY <1>5, GoneReads
<1>6. ASSUME NEW io \in reads, HandleIODone(io) PROVE ReadsInv'
    BY <1>6, DoneReads
<1>7. ASSUME NEW io \in reads, ReadCounts(io) PROVE ReadsInv'
    BY <1>7, CountsReads
<1>8. ASSUME NEW t \in TopicSet, TopicStep(t) \/ Post(t) PROVE ReadsInv'
    BY Zenon, <1>1, <1>8 DEF TopicStep, LoadTopic, UnloadTopic, SaveMessage, SaveReadMark, Post
<1>9. ASSUME NEW u \in Users, RemoveUser(u) PROVE ReadsInv'
    BY <1>1, <1>9 DEF RemoveUser
<1>10. CASE UNCHANGED vars
    BY <1>1, <1>10 DEF vars
<1> QED
    BY <1>2, <1>3, <1>4, <1>5, <1>6, <1>7, <1>8, <1>9, <1>10 DEF Next, UpdaterStep

-----------------------------------------------------------------------------
(* The counter of a user is read by at most one goroutine at a time, exactly
   while userUpdater buffers its updates, and is not known meanwhile. *)
THEOREM ReadOnceCorrect == Spec => []ReadOnce
<1> DEFINE I == ReadsInv /\ QueueInv
<1>1. I /\ [Next]_vars => I'
    BY ReadsStep, QueueStep
<1>2. Init => I
    BY InitReads
<1>3. I => ReadOnce
    BY ReadsCounted
<1> HIDE DEF I
<1> QED
    BY <1>1, <1>2, <1>3, PTL DEF Spec

-----------------------------------------------------------------------------
(* What is posted goes to the end of the queue or is dropped; what is handled
   was the first of it. *)
LEMMA QueuePosted ==
    ASSUME QueueInv, NEW q \in Requests, Posted(q)
    PROVE  \/ queue' = queue
           \/ /\ DOMAIN queue' = DOMAIN queue \cup {Len(queue) + 1}
              /\ Len(queue) + 1 \notin DOMAIN queue
              /\ \A k \in DOMAIN queue : queue'[k] = queue[k]
              /\ queue'[Len(queue) + 1] = q
<1>1. CASE queue' = Append(queue, q)
  <2>1. /\ Len(queue') = Len(queue) + 1 /\ queue' \in Seq(Requests)
        /\ \A k \in 1..Len(queue) : queue'[k] = queue[k]
        /\ queue'[Len(queue) + 1] = q
    BY <1>1, AppendProperties DEF QueueInv
  <2>2. DOMAIN queue = 1..Len(queue) /\ DOMAIN queue' = 1..Len(queue') /\ Len(queue) \in Nat
    BY <2>1, LenProperties DEF QueueInv
  <2> QED
    BY <2>1, <2>2
<1> QED
    BY <1>1 DEF Posted

LEMMA QueueTaken ==
    ASSUME QueueInv, queue # <<>>, queue' = Tail(queue)
    PROVE  /\ 1 \in DOMAIN queue /\ Head(queue) = queue[1]
           /\ \A k \in DOMAIN queue' : k + 1 \in DOMAIN queue /\ queue'[k] = queue[k + 1] /\ k \in Nat \ {0}
<1>1. /\ Head(queue) = queue[1] /\ queue' \in Seq(Requests) /\ Len(queue') = Len(queue) - 1
      /\ \A k \in 1..Len(queue') : queue'[k] = queue[k + 1]
    BY HeadTailProperties DEF QueueInv
<1>2. /\ DOMAIN queue = 1..Len(queue) /\ DOMAIN queue' = 1..Len(queue')
      /\ Len(queue) \in Nat /\ Len(queue) # 0
    BY <1>1, LenProperties, EmptySeq DEF QueueInv
<1> QED
    BY <1>1, <1>2

(* A request is taken that is not a push, or none. *)
LEMMA OnceTaken ==
    ASSUME QueueInv, PostedOnce, posting' = posting, queue # <<>>, queue' = Tail(queue),
           \A r \in DOMAIN receipts : /\ r \in DOMAIN receipts'
                                      /\ \/ receipts'[r].state = receipts[r].state
                                         \/ receipts[r].state = "waiting"
                                         \/ Head(queue).op = "push" /\ r = Head(queue).rcpt
    PROVE  PostedOnce'
<1>1. ASSUME NEW r, Unhandled(receipts, r), ~(Head(queue).op = "push" /\ r = Head(queue).rcpt)
      PROVE  Unhandled(receipts', r)
    BY <1>1 DEF Unhandled
<1>2. ASSUME NEW k \in DOMAIN queue', queue'[k].op = "push"
      PROVE  Unhandled(receipts', queue'[k].rcpt)
  <2>1. k + 1 \in DOMAIN queue /\ queue'[k] = queue[k + 1] /\ k + 1 # 1
        /\ 1 \in DOMAIN queue /\ Head(queue) = queue[1]
    BY QueueTaken
  <2>2. ~(Head(queue).op = "push" /\ queue'[k].rcpt = Head(queue).rcpt)
    BY <1>2, <2>1 DEF PostedOnce
  <2>3. Unhandled(receipts, queue'[k].rcpt)
    BY <1>2, <2>1 DEF PostedOnce
  <2> QED
    BY <1>1, <2>2, <2>3
<1>3. ASSUME NEW t \in TopicSet, posting'[t].op = "push" PROVE Unhandled(receipts', posting'[t].rcpt)
  <2>1. ~(Head(queue).op = "push" /\ posting[t].rcpt = Head(queue).rcpt)
    BY <1>3, QueueTaken DEF PostedOnce
  <2> QED
    BY <1>1, <1>3, <2>1 DEF PostedOnce
<1>4. ASSUME NEW j \in DOMAIN queue', NEW k \in DOMAIN queue',
             queue'[j].op = "push", queue'[k].op = "push", queue'[j].rcpt = queue'[k].rcpt
      PROVE  j = k
  <2>1. j + 1 = k + 1
    BY <1>4, QueueTaken DEF PostedOnce
  <2> QED
    BY <2>1, QueueTaken
<1>5. ASSUME NEW k \in DOMAIN queue', NEW t \in TopicSet, queue'[k].op = "push", posting'[t].op = "push"
      PROVE  queue'[k].rcpt # posting'[t].rcpt
    BY <1>5, QueueTaken DEF PostedOnce
<1> QED
    BY <1>2, <1>3, <1>4, <1>5 DEF PostedOnce

(* Nothing is taken and nothing is posted. *)
LEMMA OnceKept ==
    ASSUME PostedOnce, posting' = posting, queue' = queue,
           \A r \in DOMAIN receipts : /\ r \in DOMAIN receipts'
                                      /\ \/ receipts'[r].state = receipts[r].state
                                         \/ receipts[r].state = "waiting"
    PROVE  PostedOnce'
<1>1. ASSUME NEW r, Unhandled(receipts, r) PROVE Unhandled(receipts', r)
    BY <1>1 DEF Unhandled
<1> QED
    BY <1>1 DEF PostedOnce

(* A request is posted that is not a push, by a topic or past all of them. *)
LEMMA OncePosted ==
    ASSUME QueueInv, PostedOnce, posting' = posting, receipts' = receipts,
           NEW q \in Requests, q.op # "push", Posted(q)
    PROVE  PostedOnce'
<1>1. ASSUME NEW r PROVE Unhandled(receipts', r) <=> Unhandled(receipts, r)
    BY DEF Unhandled
<1> QED
    BY <1>1, QueuePosted DEF PostedOnce

(* A topic posts what it was about to post. *)
LEMMA OnceMoved ==
    ASSUME QueueInv, PostedOnce, NEW t \in TopicSet, Post(t)
    PROVE  PostedOnce'
<1>1. ASSUME NEW r PROVE Unhandled(receipts', r) <=> Unhandled(receipts, r)
    BY DEF Unhandled, Post
<1>2. posting[t] \in Requests /\ Posted(posting[t])
    BY DEF QueueInv, Post
<1>3. /\ posting'[t].op # "push"
      /\ \A s \in TopicSet \ {t} : posting'[s] = posting[s]
    BY DEF Post, QueueInv, Nothing
<1>4. CASE queue' = queue
    BY <1>1, <1>3, <1>4 DEF PostedOnce
<1>5. CASE /\ DOMAIN queue' = DOMAIN queue \cup {Len(queue) + 1}
           /\ Len(queue) + 1 \notin DOMAIN queue
           /\ \A k \in DOMAIN queue : queue'[k] = queue[k]
           /\ queue'[Len(queue) + 1] = posting[t]
  <2>1. \A k \in DOMAIN queue' : queue'[k].op = "push" => Unhandled(receipts', queue'[k].rcpt)
    BY <1>1, <1>5 DEF PostedOnce
  <2>2. \A s \in TopicSet : posting'[s].op = "push" => Unhandled(receipts', posting'[s].rcpt)
    BY <1>1, <1>3 DEF PostedOnce
  <2>3. ASSUME NEW j \in DOMAIN queue', NEW k \in DOMAIN queue',
               queue'[j].op = "push", queue'[k].op = "push", queue'[j].rcpt = queue'[k].rcpt
        PROVE  j = k
    BY <1>5, <2>3 DEF PostedOnce
  <2>4. ASSUME NEW k \in DOMAIN queue', NEW s \in TopicSet,
               queue'[k].op = "push", posting'[s].op = "push"
        PROVE  queue'[k].rcpt # posting'[s].rcpt
    <3>1. s # t /\ posting'[s] = posting[s]
      BY <1>3, <2>4
    <3>2. CASE k \in DOMAIN queue
      BY <1>5, <2>4, <3>1, <3>2 DEF PostedOnce
    <3>3. CASE k = Len(queue) + 1
      BY <1>5, <2>4, <3>1, <3>3 DEF PostedOnce
    <3> QED
      BY <1>5, <3>2, <3>3
  <2>5. \A s1, s2 \in TopicSet :
           posting'[s1].op = "push" /\ posting'[s2].op = "push"
             /\ posting'[s1].rcpt = posting'[s2].rcpt => s1 = s2
    BY <1>3 DEF PostedOnce
  <2> QED
    BY <2>1, <2>2, <2>3, <2>4, <2>5 DEF PostedOnce
<1> QED
    BY Zenon, <1>2, <1>4, <1>5, QueuePosted

(* A message is saved: its receipt is a new one. *)
LEMMA ReceiptSaved ==
    ASSUME QueueInv, NEW t \in TopicSet, NEW u \in Users, SaveMessage(t, u)
    PROVE  /\ DOMAIN receipts' = DOMAIN receipts \cup {Len(receipts) + 1}
           /\ Len(receipts) + 1 \notin DOMAIN receipts
           /\ \A r \in DOMAIN receipts : receipts'[r] = receipts[r]
           /\ receipts'[Len(receipts) + 1].state = "posted"
           /\ receipts'[Len(receipts) + 1].from = u
           /\ receipts'[Len(receipts) + 1].pendingIOs = 0
<1> DEFINE e == [from |-> u, state |-> "posted", pendingIOs |-> 0]
<1>1. e \in Receipt
    BY DEF Receipt
<1>2. receipts' = Append(receipts, e) /\ e.state = "posted" /\ e.from = u /\ e.pendingIOs = 0
    BY DEF SaveMessage
<1> HIDE DEF e
<1>3. /\ Len(receipts') = Len(receipts) + 1 /\ receipts' \in Seq(Receipt)
      /\ \A r \in 1..Len(receipts) : receipts'[r] = receipts[r]
      /\ receipts'[Len(receipts) + 1] = e
    BY <1>1, <1>2, AppendProperties DEF QueueInv
<1>4. DOMAIN receipts = 1..Len(receipts) /\ DOMAIN receipts' = 1..Len(receipts')
      /\ Len(receipts) \in Nat
    BY <1>3, LenProperties DEF QueueInv
<1> QED
    BY <1>2, <1>3, <1>4

LEMMA OnceSaved ==
    ASSUME QueueInv, PostedOnce, NEW t \in TopicSet, NEW u \in Users, SaveMessage(t, u)
    PROVE  PostedOnce'
<1> DEFINE n == Len(receipts) + 1
<1>1. queue' = queue /\ posting'[t] = Push(n) /\ \A s \in TopicSet \ {t} : posting'[s] = posting[s]
    BY DEF SaveMessage, QueueInv
<1>2. posting'[t].op = "push" /\ posting'[t].rcpt = n
    BY <1>1 DEF Push
<1>3. Unhandled(receipts', n)
    BY ReceiptSaved DEF Unhandled
<1>4. ASSUME NEW r, Unhandled(receipts, r) PROVE Unhandled(receipts', r) /\ r # n
    BY <1>4, ReceiptSaved DEF Unhandled
<1> HIDE DEF n
<1>5. \A k \in DOMAIN queue' : queue'[k].op = "push" => Unhandled(receipts', queue'[k].rcpt)
    BY <1>1, <1>4 DEF PostedOnce
<1>6. \A s \in TopicSet : posting'[s].op = "push" => Unhandled(receipts', posting'[s].rcpt)
    BY <1>1, <1>2, <1>3, <1>4 DEF PostedOnce
<1>7. \A s1, s2 \in TopicSet :
         posting'[s1].op = "push" /\ posting'[s2].op = "push"
           /\ posting'[s1].rcpt = posting'[s2].rcpt => s1 = s2
    BY <1>1, <1>2, <1>4 DEF PostedOnce
<1>8. \A k \in DOMAIN queue', s \in TopicSet :
         queue'[k].op = "push" /\ posting'[s].op = "push" => queue'[k].rcpt # posting'[s].rcpt
    BY <1>1, <1>2, <1>4 DEF PostedOnce
<1>9. \A j, k \in DOMAIN queue' :
         queue'[j].op = "push" /\ queue'[k].op = "push" /\ queue'[j].rcpt = queue'[k].rcpt => j = k
    BY <1>1 DEF PostedOnce
<1> QED
    BY <1>5, <1>6, <1>7, <1>8, <1>9 DEF PostedOnce

LEMMA WaitingSaved ==
    ASSUME QueueInv, Waiting, NEW t \in TopicSet, NEW u \in Users, SaveMessage(t, u)
    PROVE  Waiting'
<1> DEFINE n == Len(receipts) + 1
<1>1. pending' = pending
    BY DEF SaveMessage
<1>2. ASSUME NEW r PROVE Holders(r)' = Holders(r)
    BY <1>1 DEF Holders
<1>3. Holders(n) = {} /\ Cardinality(Holders(n)) = 0
    BY Zenon, ReceiptSaved, FS_EmptySet DEF Holders, Waiting
<1>4. receipts'[n].pendingIOs = 0 /\ receipts'[n].state = "posted"
    BY ReceiptSaved
<1>5. DOMAIN receipts' = DOMAIN receipts \cup {n} /\ \A r \in DOMAIN receipts : receipts'[r] = receipts[r]
    BY Zenon, ReceiptSaved
<1> QED
    BY <1>1, <1>2, <1>3, <1>4, <1>5 DEF Waiting

(* A push is handled: its receipt is held by those whose counter is not known. *)
LEMMA WaitingPush ==
    ASSUME QueueInv, PostedOnce, Waiting, HandlePush
    PROVE  Waiting'
<1> DEFINE r == Head(queue).rcpt
           W == {u \in Users : Unknown(u)}
           e == [from |-> receipts[r].from, state |-> IF W = {} THEN "sent" ELSE "waiting",
                 pendingIOs |-> Cardinality(W)]
<1>1. r \in DOMAIN receipts /\ receipts[r].state = "posted"
    BY QueueTaken DEF HandlePush, PostedOnce, Unhandled
<1>2. \A u \in Users : r \notin pending[u]
    BY Zenon, <1>1 DEF Waiting, Holders
<1>3. /\ DOMAIN pending' = Users
      /\ \A u \in W : pending'[u] = pending[u] \cup {r}
      /\ \A u \in Users \ W : pending'[u] = pending[u]
    BY DEF HandlePush
<1>4. receipts' = [receipts EXCEPT ![r] = e]
    BY DEF HandlePush
<1>5. W \subseteq Users /\ e.pendingIOs = Cardinality(W) /\ (e.state = "waiting" <=> W # {})
    OBVIOUS
<1> HIDE DEF r, W, e
<1>6. DOMAIN receipts' = DOMAIN receipts /\ receipts'[r] = e
      /\ \A i \in DOMAIN receipts \ {r} : receipts'[i] = receipts[i]
    BY <1>1, <1>4 DEF QueueInv
<1>7. ASSUME NEW i \in DOMAIN receipts', i # r PROVE Holders(i)' = Holders(i)
    BY <1>3, <1>7 DEF Holders
<1>8. {u \in Users : r \in pending'[u]} = W
    BY <1>2, <1>3, <1>5
<1>9. ASSUME NEW i \in DOMAIN receipts', i = r PROVE Holders(i)' = W
    BY <1>8, <1>9 DEF Holders
<1>10. ASSUME NEW i \in DOMAIN receipts'
       PROVE  /\ receipts'[i].pendingIOs = Cardinality(Holders(i)')
              /\ receipts'[i].state = "waiting" <=> Holders(i)' # {}
  <2>1. CASE i = r
    BY <1>5, <1>6, <1>9, <2>1
  <2>2. CASE i # r
    BY <1>6, <1>7, <2>2 DEF Waiting
  <2> QED
    BY <2>1, <2>2
<1>11. \A u \in Users : pending'[u] \subseteq DOMAIN receipts'
    BY <1>1, <1>3, <1>6 DEF Waiting
<1> QED
    BY <1>3, <1>10, <1>11 DEF Waiting

(* A goroutine reports: nobody it read for holds a receipt any more. *)
LEMMA WaitingDone ==
    ASSUME QueueInv, ReadsInv, Waiting, NEW io \in reads, HandleIODone(io)
    PROVE  Waiting'
<1>1. CASE pending' = pending /\ receipts' = receipts
    BY <1>1 DEF Waiting, Holders
<1>2. CASE ~(pending' = pending /\ receipts' = receipts)
  <2>1. /\ DOMAIN pending' = Users
        /\ \A u \in io.users \cap Users : pending'[u] = {}
        /\ \A u \in Users \ io.users : pending'[u] = pending[u]
        /\ DOMAIN receipts' = DOMAIN receipts
    BY <1>2 DEF HandleIODone
  <2>2. ASSUME NEW r \in DOMAIN receipts
        PROVE  /\ receipts'[r].pendingIOs = Decreased(r, io.users)
               /\ receipts'[r].state = IF receipts[r].state = "waiting" /\ Decreased(r, io.users) = 0
                                       THEN "sent" ELSE receipts[r].state
    BY <1>2 DEF HandleIODone
  <2>3. io.users \subseteq Users
    BY DEF ReadsInv, ReadsShape
  <2>4. ASSUME NEW r \in DOMAIN receipts
        PROVE  /\ receipts'[r].pendingIOs = Cardinality(Holders(r)')
               /\ receipts'[r].state = "waiting" <=> Holders(r)' # {}
    <3> DEFINE H == Holders(r)
               D == {u \in io.users : r \in pending[u]}
    <3>1. Holders(r)' = H \ io.users /\ D = H \cap io.users
      BY <2>1, <2>3 DEF Holders
    <3>2. IsFiniteSet(H)
      BY FS_Subset, SetsAssumption DEF Holders
    <3>3. receipts[r].pendingIOs = Cardinality(H) /\ (receipts[r].state = "waiting" <=> H # {})
      BY DEF Waiting
    <3>4. Decreased(r, io.users) = receipts[r].pendingIOs - Cardinality(D)
      BY DEF Decreased
    <3> HIDE DEF H, D
    <3>5. Cardinality(H \ io.users) = Cardinality(H) - Cardinality(H \cap io.users)
      BY Zenon, <3>2, FS_Difference
    <3>6. Decreased(r, io.users) = Cardinality(H \ io.users)
      BY <3>1, <3>3, <3>4, <3>5
    <3>7. Cardinality(H \ io.users) = 0 <=> H \ io.users = {}
      BY Zenon, <3>2, FS_Difference, FS_EmptySet
    <3> QED
      BY <2>2, <3>1, <3>3, <3>6, <3>7
  <2>5. \A u \in Users : pending'[u] \subseteq DOMAIN receipts'
    BY <2>1 DEF Waiting
  <2> QED
    BY <2>1, <2>4, <2>5 DEF Waiting
<1> QED
    BY <1>1, <1>2

LEMMA WaitStep ==
    ASSUME ReadsInv, QueueInv, PostedOnce, Waiting, [Next]_vars
    PROVE  PostedOnce' /\ Waiting'
<1>1. ASSUME pending' = pending, receipts' = receipts PROVE Waiting'
    BY <1>1 DEF Waiting, Holders
<1>2. CASE HandlePush
  <2>1. \A r \in DOMAIN receipts : r \in DOMAIN receipts'
           /\ (r # Head(queue).rcpt => receipts'[r] = receipts[r])
    BY <1>2 DEF HandlePush, QueueInv
  <2>2. posting' = posting /\ queue # <<>> /\ queue' = Tail(queue) /\ Head(queue).op = "push"
    BY <1>2 DEF HandlePush
  <2>3. PostedOnce'
    BY <2>1, <2>2, OnceTaken
  <2> QED
    BY <1>2, <2>3, WaitingPush
<1>3. CASE HandleUpdate \/ HandleRegister \/ HandleGone
  <2>1. /\ posting' = posting /\ queue # <<>> /\ queue' = Tail(queue)
        /\ receipts' = receipts /\ pending' = pending
    BY <1>3 DEF HandleUpdate, HandleRegister, HandleGone
  <2> QED
    BY <1>1, <2>1, OnceTaken
<1>4. ASSUME NEW io \in reads, HandleIODone(io) PROVE PostedOnce' /\ Waiting'
  <2>1. posting' = posting /\ queue' = queue
    BY <1>4 DEF HandleIODone
  <2>2. ASSUME NEW r \in DOMAIN receipts
        PROVE  /\ r \in DOMAIN receipts'
               /\ receipts'[r].state = receipts[r].state \/ receipts[r].state = "waiting"
    BY <1>4 DEF HandleIODone
  <2>3. PostedOnce'
    BY <2>1, <2>2, OnceKept
  <2> QED
    BY <1>4, <2>3, WaitingDone
<1>5. ASSUME NEW io \in reads, ReadCounts(io) PROVE PostedOnce' /\ Waiting'
  <2>1. posting' = posting /\ queue' = queue /\ pending' = pending /\ receipts' = receipts
    BY <1>5 DEF ReadCounts
  <2> QED
    BY <1>1, <2>1, OnceKept
<1>6. ASSUME NEW t \in TopicSet, LoadTopic(t) \/ UnloadTopic(t) PROVE PostedOnce' /\ Waiting'
  <2>1. /\ posting' = posting /\ pending' = pending /\ receipts' = receipts
        /\ Posted(Register(TRUE)) \/ Posted(Register(FALSE))
    BY Zenon, <1>6 DEF LoadTopic, UnloadTopic
  <2>2. \A a \in BOOLEAN : Register(a) \in Requests /\ Register(a).op # "push"
    BY DEF Requests, Register
  <2> QED
    BY Zenon, <1>1, <2>1, <2>2, OncePosted
<1>7. ASSUME NEW t \in TopicSet, NEW u \in Users, SaveMessage(t, u) PROVE PostedOnce' /\ Waiting'
    BY <1>7, OnceSaved, WaitingSaved
<1>8. ASSUME NEW t \in TopicSet, NEW u \in Users, NEW k \in 1..bound.msgs, SaveReadMark(t, u, k)
      PROVE  PostedOnce' /\ Waiting'
  <2>1. /\ queue' = queue /\ pending' = pending /\ receipts' = receipts
        /\ posting' = [posting EXCEPT ![t] = Update(u, -k)]
    BY <1>8 DEF SaveReadMark
  <2>2. posting'[t].op # "push" /\ \A s \in TopicSet \ {t} : posting'[s] = posting[s]
    BY <2>1 DEF QueueInv, Update
  <2>3. PostedOnce'
    BY <2>1, <2>2 DEF PostedOnce
  <2> QED
    BY <1>1, <2>1, <2>3
<1>9. ASSUME NEW t \in TopicSet, Post(t) PROVE PostedOnce' /\ Waiting'
  <2>1. pending' = pending /\ receipts' = receipts
    BY <1>9 DEF Post
  <2> QED
    BY <1>1, <1>9, <2>1, OnceMoved
<1>10. ASSUME NEW u \in Users, RemoveUser(u) PROVE PostedOnce' /\ Waiting'
  <2>1. posting' = posting /\ pending' = pending /\ receipts' = receipts /\ Posted(Gone(u))
    BY <1>10 DEF RemoveUser
  <2>2. Gone(u) \in Requests /\ Gone(u).op # "push"
    BY DEF Requests, Gone
  <2> QED
    BY <1>1, <2>1, <2>2, OncePosted
<1>11. CASE UNCHANGED vars
  <2>1. posting' = posting /\ queue' = queue /\ pending' = pending /\ receipts' = receipts
    BY <1>11 DEF vars
  <2> QED
    BY <1>1, <2>1, OnceKept
<1> QED
    BY <1>2, <1>3, <1>4, <1>5, <1>6, <1>7, <1>8, <1>9, <1>10, <1>11
       DEF Next, UpdaterStep, TopicStep

LEMMA InitWaiting == Init => PostedOnce /\ Waiting
<1> SUFFICES ASSUME Init PROVE PostedOnce /\ Waiting
    OBVIOUS
<1>1. queue = <<>> /\ receipts = <<>> /\ \A t \in TopicSet : posting[t].op # "push"
    BY DEF Init, Nothing
<1>2. DOMAIN pending = Users /\ \A u \in Users : pending[u] = {}
    BY DEF Init
<1> QED
    BY <1>1, <1>2 DEF PostedOnce, Waiting

(* A receipt waits for as many counters as users hold it, whatever requests are
   dropped, reads fail and users go: it is sent with the last of them, once. *)
THEOREM ReceiptsWaitCorrect == Spec => []ReceiptsWait
<1> DEFINE I == ReadsInv /\ QueueInv /\ PostedOnce /\ Waiting
<1>1. I /\ [Next]_vars => I'
    BY ReadsStep, QueueStep, WaitStep
<1>2. Init => I
    BY InitReads, InitWaiting
<1>3. I => ReceiptsWait
    BY DEF Waiting, Holders, ReceiptsWait
<1> HIDE DEF I
<1> QED
    BY <1>1, <1>2, <1>3, PTL DEF Spec

-----------------------------------------------------------------------------
(* Types of what is counted. *)
Buffer == [on : BOOLEAN, sum : Int]
Answered(io) == io.users \subseteq Users /\ (io.state = "ok" => io.counts \in [io.users -> Nat])
Types ==
    /\ cache \in [Users -> Entry] /\ buffers \in [Users -> Buffer] /\ unread \in [Users -> Nat]
    /\ \A io \in reads : Answered(io)
    /\ loaded \subseteq TopicSet /\ bound \in Bound /\ left \in Bound /\ dropped \in BOOLEAN

LEMMA UpdaterTypes ==
    ASSUME Types, NEW U \in SUBSET Users, NEW val \in [Users -> Int], unreadUpdater(U, val)
    PROVE  /\ cache' \in [Users -> Entry] /\ buffers' \in [Users -> Buffer]
           /\ \A io \in reads' : Answered(io)
<1>1. ASSUME NEW u \in Users PROVE cache'[u] \in Entry
  <2>1. cache[u] \in Entry /\ val[u] \in Int
    BY DEF Types
  <2>2. \/ cache'[u] = cache[u]
        \/ cache'[u] = [cache[u] EXCEPT !.unread = cache[u].unread + val[u]]
    BY DEF unreadUpdater
  <2> QED
    BY ONLY <2>1, <2>2 DEF Entry
<1>2. ASSUME NEW u \in Users PROVE buffers'[u] \in Buffer
  <2>1. buffers[u] \in Buffer /\ val[u] \in Int
    BY DEF Types
  <2>2. \/ buffers'[u] = buffers[u]
        \/ buffers'[u] = [on |-> TRUE, sum |-> 0]
        \/ buffers'[u] = [buffers[u] EXCEPT !.sum = buffers[u].sum + val[u]]
    BY DEF unreadUpdater
  <2>3. [on |-> TRUE, sum |-> 0] \in Buffer
    BY DEF Buffer
  <2>4. [buffers[u] EXCEPT !.sum = buffers[u].sum + val[u]] \in Buffer
    BY ONLY <2>1 DEF Buffer
  <2> QED
    BY ONLY <2>1, <2>2, <2>3, <2>4
<1>3. ASSUME NEW io \in reads' PROVE Answered(io)
  <2>1. CASE io \in reads
    BY <2>1 DEF Types
  <2>2. CASE io = [users |-> Started(U), state |-> "reading", counts |-> <<>>]
    BY <2>2 DEF Answered, Started
  <2> QED
    BY <1>3, <2>1, <2>2 DEF unreadUpdater
<1> QED
    BY <1>1, <1>2, <1>3 DEF unreadUpdater

LEMMA RequestTypes ==
    ASSUME QueueInv, queue # <<>>
    PROVE  /\ Head(queue).op = "update" => Head(queue).user \in Users /\ Head(queue).val \in Int
           /\ Head(queue).op = "register" => Head(queue).inc \in BOOLEAN
           /\ Head(queue).op = "gone" => Head(queue).user \in Users
<1>1. Head(queue) \in Requests
    BY HeadRequest
<1> QED
    BY <1>1 DEF Requests, Nothing, Register, Gone

LEMMA DoneTypes ==
    ASSUME Types, NEW io \in reads, HandleIODone(io)
    PROVE  cache' \in [Users -> Entry] /\ buffers' \in [Users -> Buffer] /\ reads' \subseteq reads
<1>1. Answered(io)
    BY DEF Types
<1>2. ASSUME NEW u \in Users PROVE buffers'[u] \in Buffer
    BY DEF Types, HandleIODone, Buffer
<1>3. CASE io.state = "ok"
  <2>1. ASSUME NEW u \in Users PROVE cache'[u] \in Entry
    <3>1. CASE u \in io.users /\ cache[u].in
      <4>1. Flushed(u, io.counts[u]) \in Int
        BY <3>1, <1>1, <1>3 DEF Flushed, Answered, Types, Buffer
      <4>2. cache'[u] = [cache[u] EXCEPT !.unread = Flushed(u, io.counts[u])]
        BY <3>1, <1>3 DEF HandleIODone
      <4> QED
        BY <4>1, <4>2 DEF Types, Entry
    <3>2. CASE ~(u \in io.users /\ cache[u].in)
      BY <3>2, <1>3 DEF HandleIODone, Types
    <3> QED
      BY <3>1, <3>2
  <2> QED
    BY <1>2, <1>3, <2>1 DEF HandleIODone
<1>4. CASE io.state # "ok"
    BY <1>2, <1>4 DEF HandleIODone, Types
<1> QED
    BY <1>3, <1>4

LEMMA TypesStep == ASSUME QueueInv, Types, [Next]_vars PROVE Types'
<1>1. CASE HandlePush
  <2> DEFINE val == [u \in Users |-> IF u = receipts[Head(queue).rcpt].from THEN 0 ELSE 1]
  <2>1. val \in [Users -> Int] /\ unreadUpdater(Users, val)
    BY <1>1 DEF HandlePush
  <2> HIDE DEF val
  <2> QED
    BY Zenon, <1>1, <2>1, UpdaterTypes DEF HandlePush, Types
<1>2. CASE HandleUpdate
  <2> DEFINE val == [u \in Users |-> Head(queue).val]
  <2>1. val \in [Users -> Int] /\ unreadUpdater({Head(queue).user}, val) /\ Head(queue).user \in Users
    BY <1>2, RequestTypes DEF HandleUpdate
  <2> HIDE DEF val
  <2> QED
    BY Zenon, <1>2, <2>1, UpdaterTypes DEF HandleUpdate, Types
<1>3. CASE HandleRegister
  <2>1. \A u \in Users : Registered(cache[u], Head(queue).inc) \in Entry
    BY DEF Types, Registered, Entry, NoEntry
  <2> QED
    BY <1>3, <2>1 DEF HandleRegister, Types
<1>4. CASE HandleGone
  <2>1. NoEntry \in Entry
    BY DEF NoEntry, Entry
  <2> QED
    BY Zenon, <1>4, <2>1 DEF HandleGone, Types
<1>5. ASSUME NEW io \in reads, HandleIODone(io) PROVE Types'
    BY <1>5, DoneTypes DEF HandleIODone, Types
<1>6. ASSUME NEW io \in reads, ReadCounts(io) PROVE Types'
  <2>1. Answered(io)
    BY DEF Types
  <2>2. ASSUME NEW i \in reads' PROVE Answered(i)
    <3>1. CASE i \in reads
      BY <3>1 DEF Types
    <3>2. CASE i = [users |-> io.users, state |-> "ok", counts |-> [u \in io.users |-> unread[u]]]
      BY <3>2, <2>1 DEF Answered, Types
    <3>3. CASE i = [io EXCEPT !.state = "failed"] /\ io.state = "reading"
      BY <3>3, <2>1 DEF Answered
    <3> QED
      BY <1>6, <2>2, <3>1, <3>2, <3>3 DEF ReadCounts
  <2>3. left' \in Bound
    BY <1>6 DEF ReadCounts, Types, Bound
  <2> QED
    BY <1>6, <2>2, <2>3 DEF ReadCounts, Types
<1>7. ASSUME NEW t \in TopicSet, LoadTopic(t) PROVE Types'
  <2>1. left' \in Bound
    BY <1>7 DEF LoadTopic, Types, Bound
  <2> QED
    BY Zenon, <1>7, <2>1 DEF LoadTopic, Posted, Types
<1>8. ASSUME NEW t \in TopicSet, UnloadTopic(t) PROVE Types'
    BY Zenon, <1>8 DEF UnloadTopic, Posted, Types
<1>9. ASSUME NEW t \in TopicSet, NEW u \in Users, SaveMessage(t, u) PROVE Types'
  <2>1. left' \in Bound
    <3>1. left' = [left EXCEPT !.msgs = left.msgs - 1] /\ left.msgs > 0 /\ left \in Bound
      BY <1>9 DEF SaveMessage, Types
    <3> QED
      BY ONLY <3>1 DEF Bound
  <2>2. unread' \in [Users -> Nat]
    BY <1>9 DEF SaveMessage, Types
  <2> QED
    BY <1>9, <2>1, <2>2 DEF SaveMessage, Types
<1>10. ASSUME NEW t \in TopicSet, NEW u \in Users, NEW k \in 1..bound.msgs, SaveReadMark(t, u, k)
       PROVE  Types'
  <2>1. left' \in Bound
    BY <1>10 DEF SaveReadMark, Types, Bound
  <2>2. unread' \in [Users -> Nat]
    BY <1>10 DEF SaveReadMark, Types, Bound
  <2> QED
    BY <1>10, <2>1, <2>2 DEF SaveReadMark, Types
<1>11. ASSUME NEW t \in TopicSet, Post(t) PROVE Types'
    BY Zenon, <1>11 DEF Post, Posted, Types
<1>12. ASSUME NEW u \in Users, RemoveUser(u) PROVE Types'
  <2>1. left' \in Bound
    BY <1>12 DEF RemoveUser, Types, Bound
  <2> QED
    BY Zenon, <1>12, <2>1 DEF RemoveUser, Posted, Types
<1>13. CASE UNCHANGED vars
    BY <1>13 DEF vars, Types
<1> QED
    BY <1>1, <1>2, <1>3, <1>4, <1>5, <1>6, <1>7, <1>8, <1>9, <1>10, <1>11, <1>12, <1>13
       DEF Next, UpdaterStep, TopicStep

-----------------------------------------------------------------------------
(* Requests that delete a user or mark messages as read are there only when *)
(* some were made, and a topic posts while it is loaded.                    *)
Within(q, l, b) == /\ q.op = "gone" => l.removals < b.removals
                   /\ q.op = "update" => l.marks < b.marks
Limits ==
    /\ left.removals <= bound.removals /\ left.marks <= bound.marks
    /\ \A k \in DOMAIN queue : Within(queue[k], left, bound)
    /\ \A t \in TopicSet : posting[t] # Nothing =>
          t \in loaded /\ posting[t].op \in {"push", "update"} /\ Within(posting[t], left, bound)

Fewer == bound' = bound /\ left'.removals <= left.removals /\ left'.marks <= left.marks

LEMMA WithinKept ==
    ASSUME Types, Types', Fewer, NEW q, Within(q, left, bound)
    PROVE  Within(q, left', bound')
    BY DEF Types, Bound, Fewer, Within

LEMMA LimitsKept ==
    ASSUME Types, Types', Limits, Fewer,
           \A k \in DOMAIN queue' : \/ \E j \in DOMAIN queue : queue'[k] = queue[j]
                                    \/ Within(queue'[k], left', bound'),
           \A t \in TopicSet : \/ posting'[t] = posting[t] /\ (t \in loaded => t \in loaded')
                               \/ posting'[t] = Nothing
                               \/ /\ t \in loaded' /\ posting'[t].op \in {"push", "update"}
                                  /\ Within(posting'[t], left', bound')
    PROVE  Limits'
<1>1. left'.removals <= bound'.removals /\ left'.marks <= bound'.marks
    BY DEF Types, Bound, Fewer, Limits
<1>2. ASSUME NEW k \in DOMAIN queue' PROVE Within(queue'[k], left', bound')
  <2>1. CASE \E j \in DOMAIN queue : queue'[k] = queue[j]
    BY <2>1, WithinKept DEF Limits
  <2> QED
    BY <2>1
<1>3. ASSUME NEW t \in TopicSet, posting'[t] # Nothing
      PROVE  t \in loaded' /\ posting'[t].op \in {"push", "update"} /\ Within(posting'[t], left', bound')
  <2>1. CASE posting'[t] = posting[t] /\ (t \in loaded => t \in loaded')
    BY <2>1, <1>3, WithinKept DEF Limits
  <2> QED
    BY <2>1, <1>3
<1>4. \A k \in DOMAIN queue' : Within(queue'[k], left', bound')
    BY <1>2
<1>5. \A t \in TopicSet : posting'[t] # Nothing =>
          t \in loaded' /\ posting'[t].op \in {"push", "update"} /\ Within(posting'[t], left', bound')
    BY <1>3
<1> QED
    BY <1>1, <1>4, <1>5 DEF Limits

LEMMA FewerSame ==
    ASSUME left \in Bound, bound' = bound,
           \/ left' = left \/ left' = [left EXCEPT !.msgs = @ - 1]
           \/ left' = [left EXCEPT !.loads = @ - 1] \/ left' = [left EXCEPT !.errors = @ - 1]
    PROVE  Fewer
<1>1. left'.removals = left.removals /\ left'.marks = left.marks
    BY DEF Bound
<1> QED
    BY <1>1 DEF Fewer, Bound

LEMMA LimitsStep == ASSUME QueueInv, Types, Types', Limits, [Next]_vars PROVE Limits'
<1>1. ASSUME bound' = bound, left' = left, queue # <<>>, queue' = Tail(queue), posting' = posting,
             loaded' = loaded
      PROVE  Limits'
  <2>1. \A k \in DOMAIN queue' : \E j \in DOMAIN queue : queue'[k] = queue[j]
    BY <1>1, QueueTaken
  <2>2. Fewer
    BY <1>1, FewerSame DEF Types
  <2> QED
    BY <1>1, <2>1, <2>2, LimitsKept
<1>2. CASE HandlePush \/ HandleUpdate \/ HandleRegister \/ HandleGone
    BY <1>1, <1>2 DEF HandlePush, HandleUpdate, HandleRegister, HandleGone
<1>3. ASSUME queue' = queue, posting' = posting, loaded' = loaded, Fewer PROVE Limits'
    BY <1>3, LimitsKept
<1>4. ASSUME NEW io \in reads, HandleIODone(io) PROVE Limits'
  <2>1. queue' = queue /\ posting' = posting /\ loaded' = loaded /\ bound' = bound /\ left' = left
    BY <1>4 DEF HandleIODone
  <2>2. Fewer
    BY <2>1, FewerSame DEF Types
  <2> QED
    BY <1>3, <2>1, <2>2
<1>5. ASSUME NEW io \in reads, ReadCounts(io) PROVE Limits'
  <2>1. /\ queue' = queue /\ posting' = posting /\ loaded' = loaded /\ bound' = bound
        /\ left' = left \/ left' = [left EXCEPT !.errors = @ - 1]
    BY <1>5 DEF ReadCounts
  <2>2. Fewer
    BY <2>1, FewerSame DEF Types
  <2> QED
    BY <1>3, <2>1, <2>2
<1>6. ASSUME NEW q \in Requests, Posted(q), Within(q, left', bound'), NEW k \in DOMAIN queue'
      PROVE  (\E j \in DOMAIN queue : queue'[k] = queue[j]) \/ Within(queue'[k], left', bound')
    BY <1>6, QueuePosted
<1>7. ASSUME NEW t \in TopicSet, LoadTopic(t) \/ UnloadTopic(t) PROVE Limits'
  <2>1. PICK a \in BOOLEAN : Posted(Register(a))
    BY Zenon, <1>7 DEF LoadTopic, UnloadTopic
  <2>2. Register(a) \in Requests /\ Within(Register(a), left', bound')
    BY DEF Requests, Register, Within
  <2>3. /\ posting' = posting /\ bound' = bound
        /\ left' = left \/ left' = [left EXCEPT !.loads = @ - 1]
        /\ \A s \in TopicSet : s \in loaded => s \in loaded' \/ posting[s] = Nothing
    BY Zenon, <1>7 DEF LoadTopic, UnloadTopic
  <2>4. Fewer
    BY <2>3, FewerSame DEF Types
  <2> QED
    BY <2>1, <2>2, <2>3, <2>4, <1>6, LimitsKept
<1>8. ASSUME NEW t \in TopicSet, NEW u \in Users, SaveMessage(t, u) PROVE Limits'
  <2>1. /\ queue' = queue /\ loaded' = loaded /\ bound' = bound /\ t \in loaded
        /\ left' = [left EXCEPT !.msgs = @ - 1]
        /\ posting' = [posting EXCEPT ![t] = Push(Len(receipts) + 1)]
    BY <1>8 DEF SaveMessage
  <2>2. posting'[t] = Push(Len(receipts) + 1) /\ \A s \in TopicSet \ {t} : posting'[s] = posting[s]
    BY <2>1 DEF QueueInv
  <2>3. posting'[t].op = "push" /\ Within(posting'[t], left', bound')
    BY <2>2 DEF Push, Within
  <2>4. Fewer
    BY <2>1, FewerSame DEF Types
  <2> QED
    BY <2>1, <2>2, <2>3, <2>4, LimitsKept
<1>9. ASSUME NEW t \in TopicSet, NEW u \in Users, NEW k \in 1..bound.msgs, SaveReadMark(t, u, k)
      PROVE  Limits'
  <2>1. /\ queue' = queue /\ loaded' = loaded /\ bound' = bound /\ t \in loaded
        /\ left' = [left EXCEPT !.marks = @ - 1]
        /\ posting' = [posting EXCEPT ![t] = Update(u, -k)]
    BY <1>9 DEF SaveReadMark
  <2>2. posting'[t] = Update(u, -k) /\ \A s \in TopicSet \ {t} : posting'[s] = posting[s]
    BY <2>1 DEF QueueInv
  <2>3. Fewer /\ left'.marks < bound'.marks
    BY <2>1 DEF Fewer, Types, Bound, Limits
  <2>4. posting'[t].op = "update" /\ Within(posting'[t], left', bound')
    BY <2>2, <2>3 DEF Update, Within
  <2> QED
    BY <2>1, <2>2, <2>3, <2>4, LimitsKept
<1>10. ASSUME NEW t \in TopicSet, Post(t) PROVE Limits'
  <2>1. /\ Posted(posting[t]) /\ posting[t] # Nothing /\ loaded' = loaded
        /\ bound' = bound /\ left' = left /\ posting' = [posting EXCEPT ![t] = Nothing]
    BY <1>10 DEF Post
  <2>2. posting'[t] = Nothing /\ \A s \in TopicSet \ {t} : posting'[s] = posting[s]
    BY <2>1 DEF QueueInv
  <2>3. posting[t] \in Requests /\ Within(posting[t], left', bound')
    BY <2>1 DEF QueueInv, Limits
  <2>4. Fewer
    BY <2>1, FewerSame DEF Types
  <2> QED
    BY <2>1, <2>2, <2>3, <2>4, <1>6, LimitsKept
<1>11. ASSUME NEW u \in Users, RemoveUser(u) PROVE Limits'
  <2>1. /\ Posted(Gone(u)) /\ loaded' = loaded /\ posting' = posting
        /\ bound' = bound /\ left' = [left EXCEPT !.removals = @ - 1]
    BY <1>11 DEF RemoveUser
  <2>2. Fewer /\ left'.removals < bound'.removals
    BY <2>1 DEF Fewer, Types, Bound, Limits
  <2>3. Gone(u) \in Requests /\ Within(Gone(u), left', bound')
    BY <2>2 DEF Requests, Gone, Within
  <2> QED
    BY <2>1, <2>2, <2>3, <1>6, LimitsKept
<1>12. CASE UNCHANGED vars
  <2>1. queue' = queue /\ posting' = posting /\ loaded' = loaded /\ bound' = bound /\ left' = left
    BY <1>12 DEF vars
  <2>2. Fewer
    BY <2>1, FewerSame DEF Types
  <2> QED
    BY <1>3, <2>1, <2>2
<1> QED
    BY <1>2, <1>4, <1>5, <1>7, <1>8, <1>9, <1>10, <1>11, <1>12 DEF Next, UpdaterStep, TopicStep
=============================================================================
