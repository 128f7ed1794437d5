-------------------------- MODULE UserCacheCounts ---------------------------
(***************************************************************************)
(* Proofs about the counts of UserCache: how many topics keep a user in    *)
(* the cache, and that no message is missed.                               *)
(***************************************************************************)
EXTENDS UserCacheProofs

-----------------------------------------------------------------------------
(* How often a request is among the first k of a sequence. *)
Places(q, k, x) == {j \in 1..k : q[j] = x}
Count(q, k, x) == Cardinality(Places(q, k, x))

LEMMA CountType ==
    ASSUME NEW q, NEW x, NEW k \in Nat
    PROVE  IsFiniteSet(Places(q, k, x)) /\ Count(q, k, x) \in Nat /\ Count(q, 0, x) = 0
<1>1. IsFiniteSet(1..k) /\ Places(q, k, x) \subseteq 1..k
    BY FS_Interval DEF Places
<1>2. IsFiniteSet(Places(q, k, x))
    BY <1>1, FS_Subset
<1>3. Places(q, 0, x) = {}
    BY DEF Places
<1> QED
    BY Zenon, <1>2, <1>3, FS_CardinalityType, FS_EmptySet DEF Count

LEMMA CountSame ==
    ASSUME NEW p, NEW q, NEW x, NEW k \in Nat, \A j \in 1..k : p[j] = q[j]
    PROVE  Count(p, k, x) = Count(q, k, x)
<1>1. Places(p, k, x) = Places(q, k, x)
    BY DEF Places
<1> QED
    BY <1>1 DEF Count

LEMMA CountLast ==
    ASSUME NEW q, NEW x, NEW k \in Nat
    PROVE  Count(q, k + 1, x) = Count(q, k, x) + IF q[k + 1] = x THEN 1 ELSE 0
<1>1. k + 1 \notin Places(q, k, x)
    BY DEF Places
<1>2. Places(q, k + 1, x) = IF q[k + 1] = x THEN Places(q, k, x) \cup {k + 1} ELSE Places(q, k, x)
    BY DEF Places
<1> QED
    BY <1>1, <1>2, CountType, FS_AddElement DEF Count

LEMMA CountTail ==
    ASSUME NEW p, NEW q, NEW x, NEW k \in Nat, \A j \in 1..k : p[j] = q[j + 1]
    PROVE  Count(q, k + 1, x) = Count(p, k, x) + IF q[1] = x THEN 1 ELSE 0
<1> DEFINE P == Places(p, k, x)
           Q == Places(q, k + 1, x) \ {1}
           f == [j \in P |-> j + 1]
<1>1. \A j \in P : j + 1 \in Q
    BY DEF Places
<1>2. \A i \in Q : i - 1 \in P /\ f[i - 1] = i
    BY DEF Places
<1>3. \A i, j \in P : f[i] = f[j] => i = j
    BY DEF Places
<1>4. f \in Bijection(P, Q)
    BY <1>1, <1>2, <1>3 DEF Bijection, Injection, Surjection, IsInjective
<1>5. Cardinality(Q) = Cardinality(P)
    BY <1>4, CountType, FS_Bijection DEF ExistsBijection
<1>6. 1 \in Places(q, k + 1, x) <=> q[1] = x
    BY DEF Places
<1>7. IsFiniteSet(Places(q, k + 1, x)) /\ Count(q, k + 1, x) \in Nat
    BY CountType
<1>8. Cardinality(Q) = IF q[1] = x THEN Count(q, k + 1, x) - 1 ELSE Count(q, k + 1, x)
    BY <1>6, <1>7, FS_RemoveElement DEF Count
<1> QED
    BY <1>5, <1>7, <1>8 DEF Count

-----------------------------------------------------------------------------
(* The number of topics in an entry as the requests of a queue change it.  *)
(* Read from the front it never goes below zero, is positive where a push   *)
(* is, and ends in the number of loaded topics.                             *)
Comes == Register(TRUE)
Goes == Register(FALSE)
Delta(x) == IF x = Comes THEN 1 ELSE IF x = Goes THEN -1 ELSE 0
Level(n, q, k) == n + Count(q, k, Comes) - Count(q, k, Goes)
Balanced(n, q, m) ==
    /\ \A k \in 0..Len(q) : Level(n, q, k) >= 0
    /\ \A k \in 1..Len(q) : q[k].op = "push" => Level(n, q, k) >= 1
    /\ Level(n, q, Len(q)) = m

LEMMA RegistersDiffer == Comes # Goes /\ Comes.op = "register" /\ Goes.op = "register"
    BY DEF Comes, Goes, Register

LEMMA LevelType ==
    ASSUME NEW n \in Int, NEW q, NEW k \in Nat
    PROVE  Level(n, q, k) \in Int /\ Level(n, q, 0) = n
<1>1. \A x : Count(q, k, x) \in Nat /\ Count(q, 0, x) = 0
    BY CountType
<1>2. /\ Count(q, k, Comes) \in Nat /\ Count(q, 0, Comes) = 0
      /\ Count(q, k, Goes) \in Nat /\ Count(q, 0, Goes) = 0
    BY <1>1
<1> QED
    BY <1>2 DEF Level

LEMMA LevelTail ==
    ASSUME NEW n \in Int, NEW p, NEW q, NEW k \in Nat, \A j \in 1..k : p[j] = q[j + 1]
    PROVE  Level(n + Delta(q[1]), p, k) = Level(n, q, k + 1)
<1>1. /\ Count(q, k + 1, Comes) = Count(p, k, Comes) + (IF q[1] = Comes THEN 1 ELSE 0)
      /\ Count(q, k + 1, Goes) = Count(p, k, Goes) + (IF q[1] = Goes THEN 1 ELSE 0)
    BY CountTail
<1>2. Count(p, k, Comes) \in Nat /\ Count(p, k, Goes) \in Nat
    BY CountType
<1>3. Comes # Goes
    BY RegistersDiffer
<1> QED
    BY <1>1, <1>2, <1>3 DEF Level, Delta

LEMMA LevelLast ==
    ASSUME NEW n \in Int, NEW q, NEW k \in Nat
    PROVE  Level(n, q, k + 1) = Level(n, q, k) + Delta(q[k + 1])
<1>1. /\ Count(q, k + 1, Comes) = Count(q, k, Comes) + (IF q[k + 1] = Comes THEN 1 ELSE 0)
      /\ Count(q, k + 1, Goes) = Count(q, k, Goes) + (IF q[k + 1] = Goes THEN 1 ELSE 0)
    BY CountLast
<1>2. Count(q, k, Comes) \in Nat /\ Count(q, k, Goes) \in Nat
    BY CountType
<1>3. Comes # Goes
    BY RegistersDiffer
<1> QED
    BY <1>1, <1>2, <1>3 DEF Level, Delta

LEMMA LevelSame ==
    ASSUME NEW n, NEW p, NEW q, NEW k \in Nat, \A j \in 1..k : p[j] = q[j]
    PROVE  Level(n, p, k) = Level(n, q, k)
    BY CountSame DEF Level

LEMMA BalancedTail ==
    ASSUME NEW n \in Int, NEW m \in Int, NEW q \in Seq(Requests), q # <<>>, Balanced(n, q, m)
    PROVE  /\ Balanced(n + Delta(Head(q)), Tail(q), m)
           /\ n + Delta(Head(q)) >= 0
           /\ Head(q).op = "push" => n >= 1
<1> DEFINE p == Tail(q)
           d == n + Delta(q[1])
<1>1. /\ Head(q) = q[1] /\ p \in Seq(Requests) /\ Len(p) = Len(q) - 1
      /\ \A j \in 1..Len(p) : p[j] = q[j + 1]
    BY HeadTailProperties
<1>2. Len(q) \in Nat \ {0} /\ Len(p) \in Nat
    BY <1>1, LenProperties, EmptySeq
<1> HIDE DEF p
<1>3. ASSUME NEW k \in 0..Len(p) PROVE Level(d, p, k) = Level(n, q, k + 1)
  <2>1. k \in Nat /\ \A j \in 1..k : p[j] = q[j + 1]
    BY <1>1, <1>2
  <2> QED
    BY <2>1, LevelTail
<1>4. ASSUME NEW k \in 0..Len(p) PROVE Level(d, p, k) >= 0
  <2>1. k + 1 \in 0..Len(q)
    BY <1>1, <1>2
  <2> QED
    BY <1>3, <2>1 DEF Balanced
<1>5. ASSUME NEW k \in 1..Len(p), p[k].op = "push" PROVE Level(d, p, k) >= 1
  <2>1. k \in 0..Len(p) /\ k + 1 \in 1..Len(q) /\ q[k + 1].op = "push"
    BY <1>1, <1>2, <1>5
  <2> QED
    BY <1>3, <2>1 DEF Balanced
<1>6. Level(d, p, Len(p)) = m
  <2>1. Len(p) \in 0..Len(p) /\ Len(p) + 1 = Len(q)
    BY <1>1, <1>2
  <2> QED
    BY <1>3, <2>1 DEF Balanced
<1>7. d \in Int /\ Level(d, p, 0) = d
  <2>1. d \in Int
    BY DEF Delta
  <2> QED
    BY <2>1, LevelType
<1>8. d >= 0
  <2>1. 0 \in 0..Len(p)
    BY <1>2
  <2> QED
    BY <1>4, <1>7, <2>1
<1>9. ASSUME q[1].op = "push" PROVE n >= 1
  <2>1. 1 \in 1..Len(q) /\ 0 \in Nat /\ 0 + 1 = 1
    BY <1>2
  <2>2. Level(n, q, 1) >= 1
    BY <2>1, <1>9 DEF Balanced
  <2>3. Delta(q[1]) = 0
    BY <1>9, RegistersDiffer DEF Delta
  <2>4. Level(n, q, 0 + 1) = Level(n, q, 0) + Delta(q[0 + 1]) /\ Level(n, q, 0) = n
    BY <2>1, LevelLast, LevelType
  <2> QED
    BY <2>1, <2>2, <2>3, <2>4
<1> QED
    BY <1>1, <1>4, <1>5, <1>6, <1>8, <1>9 DEF Balanced, p

LEMMA BalancedAppend ==
    ASSUME NEW n \in Int, NEW m \in Int, NEW q \in Seq(Requests), NEW x \in Requests,
           Balanced(n, q, m), m + Delta(x) >= 0, x.op = "push" => m >= 1
    PROVE  Balanced(n, Append(q, x), m + Delta(x))
<1> DEFINE p == Append(q, x)
           e == Len(q) + 1
<1>1. Len(p) = e /\ p[e] = x /\ \A j \in 1..Len(q) : p[j] = q[j]
    BY AppendProperties
<1>2. Len(q) \in Nat
    BY LenProperties
<1> HIDE DEF p
<1>3. ASSUME NEW k \in 0..Len(q) PROVE Level(n, p, k) = Level(n, q, k)
  <2>1. k \in Nat /\ \A j \in 1..k : p[j] = q[j]
    BY <1>1, <1>2
  <2> QED
    BY <2>1, LevelSame
<1>4. Level(n, p, e) = m + Delta(x)
  <2>1. Level(n, p, Len(q)) = m
    BY <1>2, <1>3 DEF Balanced
  <2> QED
    BY <1>1, <1>2, <2>1, LevelLast
<1>5. ASSUME NEW k \in 0..Len(p) PROVE Level(n, p, k) >= 0
  <2>1. k = e \/ k \in 0..Len(q)
    BY <1>1, <1>2
  <2> QED
    BY <2>1, <1>3, <1>4 DEF Balanced
<1>6. ASSUME NEW k \in 1..Len(p), p[k].op = "push" PROVE Level(n, p, k) >= 1
  <2>1. CASE k \in 1..Len(q)
    <3>1. k \in 0..Len(q) /\ q[k].op = "push"
      BY <1>1, <1>2, <1>6, <2>1
    <3> QED
      BY <2>1, <3>1, <1>3 DEF Balanced
  <2>2. CASE k = e
    <3>1. Delta(x) = 0 /\ m >= 1
      BY <1>1, <1>6, <2>2, RegistersDiffer DEF Delta
    <3> QED
      BY <2>2, <3>1, <1>4
  <2> QED
    BY <1>1, <1>2, <2>1, <2>2
<1> QED
    BY <1>1, <1>4, <1>5, <1>6 DEF Balanced, p

Leveled == Faultless =>
    \A u \in Users :
        /\ cache[u].in <=> cache[u].topics > 0
        /\ Balanced(cache[u].topics, queue, Cardinality(loaded))

(* What was dropped stays dropped, and what is deleted stays deleted. *)
LEMMA FewerStep == ASSUME Types, [Next]_vars PROVE Fewer /\ (dropped => dropped')
<1> USE DEF Types
<1>1. CASE HandlePush \/ HandleUpdate \/ HandleRegister \/ HandleGone
    BY <1>1, FewerSame DEF HandlePush, HandleUpdate, HandleRegister, HandleGone
<1>2. ASSUME NEW io \in reads, HandleIODone(io) \/ ReadCounts(io) PROVE Fewer /\ (dropped => dropped')
    BY <1>2, FewerSame DEF HandleIODone, ReadCounts
<1>3. ASSUME NEW t \in TopicSet, LoadTopic(t) \/ UnloadTopic(t) \/ Post(t)
      PROVE  Fewer /\ (dropped => dropped')
    BY Zenon, <1>3, FewerSame DEF LoadTopic, UnloadTopic, Post, Posted
<1>4. ASSUME NEW t \in TopicSet, NEW u \in Users, SaveMessage(t, u)
      PROVE  Fewer /\ (dropped => dropped')
    BY <1>4, FewerSame DEF SaveMessage
<1>5. ASSUME NEW t \in TopicSet, NEW u \in Users, NEW k \in 1..bound.msgs, SaveReadMark(t, u, k)
      PROVE  Fewer /\ (dropped => dropped')
    BY <1>5 DEF SaveReadMark, Fewer, Bound
<1>6. ASSUME NEW u \in Users, RemoveUser(u) PROVE Fewer /\ (dropped => dropped')
    BY <1>6 DEF RemoveUser, Posted, Fewer, Bound
<1>7. CASE UNCHANGED vars
    BY <1>7, FewerSame DEF vars
<1> QED
    BY <1>1, <1>2, <1>3, <1>4, <1>5, <1>6, <1>7 DEF Next, UpdaterStep, TopicStep

LEMMA FaultlessBefore ==
    ASSUME Types, Types', Limits, [Next]_vars, Faultless'
    PROVE  Faultless /\ ~dropped' /\ left'.removals = left.removals
    BY FewerStep DEF Fewer, Faultless, Limits, Types, Bound

LEMMA PostedWhole ==
    ASSUME QueueInv, NEW q, Posted(q), ~dropped'
    PROVE  queue' = Append(queue, q) /\ ~dropped
    BY DEF Posted

LEMMA LoadedCounted ==
    ASSUME Types
    PROVE  /\ IsFiniteSet(loaded) /\ Cardinality(loaded) \in Nat
           /\ \A t \in TopicSet \ loaded : Cardinality(loaded \cup {t}) = Cardinality(loaded) + 1
           /\ \A t \in loaded : /\ Cardinality(loaded) >= 1
                                /\ Cardinality(loaded \ {t}) = Cardinality(loaded) - 1
<1>1. IsFiniteSet(loaded)
    BY SetsAssumption, FS_Subset DEF Types
<1>2. Cardinality(loaded) \in Nat
    BY <1>1, FS_CardinalityType
<1>3. \A t \in TopicSet \ loaded : Cardinality(loaded \cup {t}) = Cardinality(loaded) + 1
    BY <1>1, FS_AddElement
<1>4. ASSUME NEW t \in loaded
      PROVE  Cardinality(loaded) >= 1 /\ Cardinality(loaded \ {t}) = Cardinality(loaded) - 1
  <2>1. IsFiniteSet(loaded \ {t}) /\ Cardinality(loaded \ {t}) = Cardinality(loaded) - 1
    BY <1>1, FS_RemoveElement
  <2>2. Cardinality(loaded \ {t}) \in Nat
    BY <2>1, FS_CardinalityType
  <2> QED
    BY <1>2, <2>1, <2>2
<1> QED
    BY Zenon, <1>1, <1>2, <1>3, <1>4

LEMMA UpdaterSame ==
    ASSUME Types, NEW U, NEW val, unreadUpdater(U, val), NEW u \in Users
    PROVE  cache'[u].in = cache[u].in /\ cache'[u].topics = cache[u].topics
<1>1. \/ cache'[u] = cache[u]
      \/ cache'[u] = [cache[u] EXCEPT !.unread = cache[u].unread + val[u]]
    BY DEF unreadUpdater
<1>2. cache[u] \in Entry
    BY Zenon DEF Types
<1> QED
    BY ONLY <1>1, <1>2 DEF Entry

LEMMA LeveledStep ==
    ASSUME QueueInv, Types, Types', Limits, Leveled, [Next]_vars
    PROVE  Leveled'
<1> SUFFICES ASSUME Faultless', NEW u \in Users
             PROVE  /\ cache'[u].in <=> cache'[u].topics > 0
                    /\ Balanced(cache'[u].topics, queue', Cardinality(loaded'))
    BY DEF Leveled
<1> DEFINE n == cache[u].topics
           m == Cardinality(loaded)
           Same == cache'[u].in = cache[u].in /\ cache'[u].topics = n
           Goal == /\ cache'[u].in <=> cache'[u].topics > 0
                   /\ Balanced(cache'[u].topics, queue', Cardinality(loaded'))
<1>1. Faultless /\ ~dropped' /\ left'.removals = left.removals
    BY FaultlessBefore
<1>2. n \in Nat /\ m \in Nat /\ (cache[u].in <=> n > 0) /\ Balanced(n, queue, m)
    BY <1>1, LoadedCounted DEF Leveled, Types, Entry
<1> HIDE DEF n, m
<1>3. ASSUME queue # <<>>, queue' = Tail(queue), loaded' = loaded
      PROVE  /\ Balanced(n + Delta(Head(queue)), queue', Cardinality(loaded'))
             /\ n + Delta(Head(queue)) >= 0
    BY <1>2, <1>3, BalancedTail DEF QueueInv, m
<1>4. CASE HandlePush \/ HandleUpdate
  <2>1. Same
    BY <1>4, UpdaterSame DEF HandlePush, HandleUpdate, n
  <2>2. Delta(Head(queue)) = 0
    BY <1>4, RegistersDiffer DEF HandlePush, HandleUpdate, Delta
  <2>3. queue # <<>> /\ queue' = Tail(queue) /\ loaded' = loaded
    BY <1>4 DEF HandlePush, HandleUpdate
  <2> QED
    BY <1>2, <1>3, <2>1, <2>2, <2>3
<1>5. CASE HandleRegister
  <2>1. /\ queue # <<>> /\ queue' = Tail(queue) /\ loaded' = loaded /\ Head(queue).op = "register"
        /\ cache'[u] = Registered(cache[u], Head(queue).inc)
    BY <1>5 DEF HandleRegister
  <2>2. Head(queue) \in Requests
    BY <2>1, HeadRequest
  <2>3. \/ Head(queue) = Comes /\ Head(queue).inc
        \/ Head(queue) = Goes /\ ~Head(queue).inc
    BY <2>1, <2>2 DEF Requests, Nothing, Register, Gone, Comes, Goes
  <2>4. CASE Head(queue) = Comes /\ Head(queue).inc
    <3>1. Delta(Head(queue)) = 1 /\ cache'[u].in /\ cache'[u].topics = n + 1
      BY <2>1, <2>4 DEF Delta, Registered, n
    <3> QED
      BY <1>2, <1>3, <2>1, <3>1
  <2>5. CASE Head(queue) = Goes /\ ~Head(queue).inc
    <3>1. Delta(Head(queue)) = -1
      BY <2>5, RegistersDiffer DEF Delta
    <3>2. n >= 1
      BY <1>2, <1>3, <2>1, <3>1
    <3>3. CASE n > 1
      <4>1. cache'[u] = [cache[u] EXCEPT !.topics = n - 1]
        BY <2>1, <2>5, <3>3 DEF Registered, n
      <4>2. cache'[u].in = cache[u].in /\ cache'[u].topics = n - 1
        BY <4>1 DEF Types, Entry
      <4> QED
        BY <1>2, <1>3, <2>1, <3>1, <3>3, <4>2
    <3>4. CASE n = 1
      <4>1. cache'[u] = NoEntry
        BY <2>1, <2>5, <3>4 DEF Registered, n
      <4>2. ~cache'[u].in /\ cache'[u].topics = 0
        BY <4>1 DEF NoEntry
      <4> QED
        BY <1>3, <2>1, <3>1, <3>4, <4>2
    <3> QED
      BY <1>2, <3>2, <3>3, <3>4
  <2> QED
    BY Zenon, <2>3, <2>4, <2>5
<1>6. CASE HandleGone
  <2>1. queue # <<>> /\ queue' = Tail(queue) /\ Head(queue).op = "gone"
    BY <1>6 DEF HandleGone
  <2>2. Within(queue[1], left, bound) /\ queue[1].op = "gone"
    BY <2>1, QueueTaken DEF Limits
  <2> QED
    BY <1>1, <2>2 DEF Within, Faultless, Types, Bound
<1>7. ASSUME Same, queue' = queue, loaded' = loaded PROVE Goal
    BY <1>2, <1>7 DEF m
<1>8. ASSUME NEW io \in reads, HandleIODone(io) \/ ReadCounts(io) PROVE Goal
  <2>1. Same /\ queue' = queue /\ loaded' = loaded
    BY <1>8 DEF HandleIODone, ReadCounts, Types, Entry, n
  <2> QED
    BY <1>7, <2>1
<1>9. ASSUME NEW x \in Requests, Posted(x), cache' = cache, m + Delta(x) >= 0,
             Cardinality(loaded') = m + Delta(x), x.op = "push" => m >= 1
      PROVE  Goal
  <2>1. queue' = Append(queue, x) /\ cache'[u].topics = n /\ cache'[u].in = cache[u].in
    BY <1>1, <1>9, PostedWhole DEF n
  <2>2. Balanced(n, Append(queue, x), m + Delta(x))
    BY <1>2, <1>9, BalancedAppend DEF QueueInv
  <2> QED
    BY <1>2, <1>9, <2>1, <2>2
<1>10. ASSUME NEW t \in TopicSet, LoadTopic(t) PROVE Goal
  <2>1. Posted(Comes) /\ cache' = cache /\ loaded' = loaded \cup {t} /\ t \notin loaded
    BY Zenon, <1>10 DEF LoadTopic, Comes
  <2>2. Cardinality(loaded') = m + 1
    BY <2>1, LoadedCounted DEF m
  <2>3. Comes \in Requests /\ Delta(Comes) = 1 /\ Comes.op # "push"
    BY Zenon, RegistersDiffer DEF Comes, Requests, Delta
  <2> QED
    BY <1>2, <1>9, <2>1, <2>2, <2>3
<1>11. ASSUME NEW t \in TopicSet, UnloadTopic(t) PROVE Goal
  <2>1. Posted(Goes) /\ cache' = cache /\ loaded' = loaded \ {t} /\ t \in loaded
    BY Zenon, <1>11 DEF UnloadTopic, Goes
  <2>2. Cardinality(loaded') = m + (-1) /\ m + (-1) >= 0
    BY <1>2, <2>1, LoadedCounted DEF m
  <2>3. Goes \in Requests /\ Delta(Goes) = -1 /\ Goes.op # "push"
    BY Zenon, RegistersDiffer DEF Goes, Requests, Delta
  <2> QED
    BY Zenon, <1>2, <1>9, <2>1, <2>2, <2>3
<1>12. ASSUME NEW t \in TopicSet, Post(t) PROVE Goal
  <2>1. Posted(posting[t]) /\ cache' = cache /\ loaded' = loaded /\ posting[t] # Nothing
    BY <1>12 DEF Post
  <2>2. posting[t] \in Requests /\ posting[t].op \in {"push", "update"} /\ t \in loaded
    BY <2>1 DEF QueueInv, Limits
  <2>3. Delta(posting[t]) = 0 /\ m >= 1
    BY Zenon, <2>2, RegistersDiffer, LoadedCounted DEF Delta, m
  <2>4. Cardinality(loaded') = m + Delta(posting[t]) /\ m + Delta(posting[t]) >= 0
    BY <1>2, <2>1, <2>3 DEF m
  <2> QED
    BY <1>9, <2>1, <2>2, <2>3, <2>4
<1>13. ASSUME NEW t \in TopicSet, NEW v \in Users,
              SaveMessage(t, v) \/ \E k \in 1..bound.msgs : SaveReadMark(t, v, k)
       PROVE  Goal
    BY <1>7, <1>13 DEF SaveMessage, SaveReadMark, n
<1>14. ASSUME NEW v \in Users, RemoveUser(v) PROVE Goal
    BY <1>1, <1>14 DEF RemoveUser, Types, Bound
<1>15. CASE UNCHANGED vars
    BY <1>7, <1>15 DEF vars, n
<1> QED
    BY <1>4, <1>5, <1>6, <1>8, <1>10, <1>11, <1>12, <1>13, <1>14, <1>15
       DEF Next, UpdaterStep, TopicStep

-----------------------------------------------------------------------------
(* A receipt that has not been handled is in the queue or on its way to it. *)
Travels(r, q, p) == (\E k \in DOMAIN q : q[k] = Push(r)) \/ \E t \in TopicSet : p[t] = Push(r)
Delivered == ~dropped =>
    \A r \in DOMAIN receipts : receipts[r].state = "posted" => Travels(r, queue, posting)

(* What the updater does to the receipts. *)
LEMMA PushReceipts ==
    ASSUME QueueInv, PostedOnce, HandlePush
    PROVE  LET r == Head(queue).rcpt
           IN  /\ r \in DOMAIN receipts /\ receipts[r].state = "posted" /\ Head(queue) = Push(r)
               /\ DOMAIN receipts' = DOMAIN receipts
               /\ receipts'[r].state # "posted"
               /\ \A s \in DOMAIN receipts \ {r} : receipts'[s] = receipts[s]
<1> DEFINE r == Head(queue).rcpt
<1>1. queue # <<>> /\ queue' = Tail(queue) /\ Head(queue).op = "push"
    BY DEF HandlePush
<1>2. Head(queue) = queue[1] /\ 1 \in DOMAIN queue /\ Head(queue) \in Requests
    BY <1>1, QueueTaken, HeadRequest
<1>3. r \in DOMAIN receipts /\ receipts[r].state = "posted"
    BY <1>1, <1>2 DEF PostedOnce, Unhandled
<1>4. Head(queue) = Push(r)
    BY <1>1, <1>2 DEF Requests, Nothing, Register, Gone, Push
<1> DEFINE n == Cardinality({u \in Users : Unknown(u)})
<1>5. PICK x \in {"sent", "waiting"} :
         receipts' = [receipts EXCEPT ![r] = [from |-> receipts[r].from, state |-> x, pendingIOs |-> n]]
    BY Zenon DEF HandlePush
<1> HIDE DEF n
<1> HIDE DEF r
<1>6. /\ DOMAIN receipts' = DOMAIN receipts /\ receipts'[r].state = x
      /\ \A s \in DOMAIN receipts \ {r} : receipts'[s] = receipts[s]
    BY <1>3, <1>5
<1> QED
    BY <1>3, <1>4, <1>5, <1>6 DEF r

LEMMA DoneReceipts ==
    ASSUME QueueInv, NEW io \in reads, HandleIODone(io)
    PROVE  /\ DOMAIN receipts' = DOMAIN receipts
           /\ \A r \in DOMAIN receipts : /\ receipts'[r].from = receipts[r].from
                                         /\ receipts'[r].state = "posted" <=> receipts[r].state = "posted"
<1>1. CASE receipts' = receipts
    BY <1>1
<1>2. CASE receipts' # receipts
  <2>1. receipts' = [r \in DOMAIN receipts |->
                            [from |-> receipts[r].from,
                             state |-> IF receipts[r].state = "waiting"
                                          /\ Decreased(r, io.users) = 0
                                       THEN "sent" ELSE receipts[r].state,
                             pendingIOs |-> Decreased(r, io.users)]]
    BY <1>2 DEF HandleIODone
  <2>2. ASSUME NEW r \in DOMAIN receipts
        PROVE  /\ receipts'[r].from = receipts[r].from
               /\ receipts'[r].state = "posted" <=> receipts[r].state = "posted"
    BY <2>1
  <2> QED
    BY <2>1, <2>2
<1> QED
    BY <1>1, <1>2

(* A receipt that was on its way stays so. *)
LEMMA TravelsTaken ==
    ASSUME QueueInv, queue # <<>>, queue' = Tail(queue), posting' = posting,
           NEW r, Travels(r, queue, posting), Head(queue) # Push(r)
    PROVE  Travels(r, queue', posting')
<1>1. CASE \E t \in TopicSet : posting[t] = Push(r)
    BY <1>1 DEF Travels
<1>2. ASSUME NEW k \in DOMAIN queue, queue[k] = Push(r) PROVE Travels(r, queue', posting')
  <2>1. /\ Head(queue) = queue[1] /\ queue' \in Seq(Requests) /\ Len(queue') = Len(queue) - 1
        /\ \A j \in 1..Len(queue') : queue'[j] = queue[j + 1]
    BY HeadTailProperties DEF QueueInv
  <2>2. DOMAIN queue = 1..Len(queue) /\ DOMAIN queue' = 1..Len(queue') /\ Len(queue) \in Nat
    BY <2>1, LenProperties DEF QueueInv
  <2>3. k # 1
    BY <1>2, <2>1
  <2>4. k - 1 \in DOMAIN queue' /\ queue'[k - 1] = queue[k]
    BY <2>1, <2>2, <2>3
  <2> QED
    BY <1>2, <2>4 DEF Travels
<1> QED
    BY <1>1, <1>2 DEF Travels

LEMMA TravelsPosted ==
    ASSUME QueueInv, NEW q \in Requests, Posted(q), ~dropped'
    PROVE  /\ \E k \in DOMAIN queue' : queue'[k] = q
           /\ \A k \in DOMAIN queue : k \in DOMAIN queue' /\ queue'[k] = queue[k]
<1>1. queue' = Append(queue, q)
    BY PostedWhole
<1>2. /\ Len(queue') = Len(queue) + 1 /\ queue' \in Seq(Requests)
      /\ \A k \in 1..Len(queue) : queue'[k] = queue[k]
      /\ queue'[Len(queue) + 1] = q
    BY <1>1, AppendProperties DEF QueueInv
<1>3. DOMAIN queue = 1..Len(queue) /\ DOMAIN queue' = 1..Len(queue') /\ Len(queue) \in Nat
    BY <1>2, LenProperties DEF QueueInv
<1> QED
    BY <1>2, <1>3

LEMMA DeliveredStep ==
    ASSUME QueueInv, Types, PostedOnce, Delivered, [Next]_vars
    PROVE  Delivered'
<1> SUFFICES ASSUME ~dropped', NEW r \in DOMAIN receipts', receipts'[r].state = "posted"
             PROVE  Travels(r, queue', posting')
    BY DEF Delivered
<1>1. ~dropped
    BY FewerStep
<1>2. ASSUME r \in DOMAIN receipts, receipts[r].state = "posted" PROVE Travels(r, queue, posting)
    BY <1>1, <1>2 DEF Delivered
<1>3. CASE HandlePush
  <2>1. queue # <<>> /\ queue' = Tail(queue) /\ posting' = posting
    BY <1>3 DEF HandlePush
  <2>2. r \in DOMAIN receipts /\ receipts[r].state = "posted" /\ r # Head(queue).rcpt
    BY <1>3, PushReceipts
  <2>3. Head(queue) # Push(r)
    BY <2>2 DEF Push
  <2> QED
    BY Zenon, <1>2, <2>1, <2>2, <2>3, TravelsTaken
<1>4. CASE HandleUpdate \/ HandleRegister \/ HandleGone
  <2>1. queue # <<>> /\ queue' = Tail(queue) /\ posting' = posting /\ receipts' = receipts
    BY <1>4 DEF HandleUpdate, HandleRegister, HandleGone
  <2>2. Head(queue).op # "push"
    BY <1>4 DEF HandleUpdate, HandleRegister, HandleGone
  <2>3. Head(queue) # Push(r)
    BY <2>2 DEF Push
  <2> QED
    BY <1>2, <2>1, <2>3, TravelsTaken
<1>5. ASSUME NEW io \in reads, HandleIODone(io) \/ ReadCounts(io) PROVE Travels(r, queue', posting')
  <2>1. queue' = queue /\ posting' = posting
    BY <1>5 DEF HandleIODone, ReadCounts
  <2>2. r \in DOMAIN receipts /\ receipts[r].state = "posted"
    BY <1>5, DoneReceipts DEF ReadCounts
  <2> QED
    BY <1>2, <2>1, <2>2
<1>6. ASSUME NEW q \in Requests, Posted(q), posting' = posting, receipts' = receipts
      PROVE  Travels(r, queue', posting')
    BY <1>2, <1>6, TravelsPosted DEF Travels
<1>7. ASSUME NEW t \in TopicSet, LoadTopic(t) \/ UnloadTopic(t) PROVE Travels(r, queue', posting')
  <2>1. PICK a \in BOOLEAN : Posted(Register(a)) /\ posting' = posting /\ receipts' = receipts
    BY Zenon, <1>7 DEF LoadTopic, UnloadTopic
  <2>2. Register(a) \in Requests
    BY DEF Requests
  <2> QED
    BY <1>6, <2>1, <2>2
<1>8. ASSUME NEW t \in TopicSet, Post(t) PROVE Travels(r, queue', posting')
  <2>1. Posted(posting[t]) /\ posting[t] \in Requests /\ receipts' = receipts
        /\ \A s \in TopicSet \ {t} : posting'[s] = posting[s]
    BY <1>8 DEF Post, QueueInv
  <2>2. Travels(r, queue, posting)
    BY <1>2, <2>1
  <2> QED
    BY <2>1, <2>2, TravelsPosted DEF Travels
<1>9. ASSUME NEW s \in TopicSet, posting[s] = Push(r) PROVE posting[s] # Nothing
    BY <1>9 DEF Push, Nothing
<1>10. ASSUME NEW t \in TopicSet, NEW u \in Users, SaveMessage(t, u)
       PROVE  Travels(r, queue', posting')
  <2>1. /\ queue' = queue /\ posting[t] = Nothing /\ posting'[t] = Push(Len(receipts) + 1)
        /\ \A s \in TopicSet \ {t} : posting'[s] = posting[s]
    BY <1>10 DEF SaveMessage, QueueInv
  <2>2. CASE r = Len(receipts) + 1
    BY <2>1, <2>2 DEF Travels
  <2>3. CASE r \in DOMAIN receipts
    <3>1. receipts[r].state = "posted"
      BY <1>10, <2>3, ReceiptSaved
    <3> QED
      BY Zenon, <1>2, <1>9, <2>1, <2>3, <3>1 DEF Travels
  <2> QED
    BY <1>10, <2>2, <2>3, ReceiptSaved
<1>11. ASSUME NEW t \in TopicSet, NEW u \in Users, NEW k \in 1..bound.msgs, SaveReadMark(t, u, k)
       PROVE  Travels(r, queue', posting')
  <2>1. /\ queue' = queue /\ posting[t] = Nothing /\ receipts' = receipts
        /\ \A s \in TopicSet \ {t} : posting'[s] = posting[s]
    BY <1>11 DEF SaveReadMark, QueueInv
  <2> QED
    BY <1>2, <1>9, <2>1 DEF Travels
<1>12. ASSUME NEW u \in Users, RemoveUser(u) PROVE Travels(r, queue', posting')
  <2>1. Posted(Gone(u)) /\ posting' = posting /\ receipts' = receipts /\ Gone(u) \in Requests
    BY <1>12 DEF RemoveUser, Requests
  <2> QED
    BY <1>6, <2>1
<1>13. CASE UNCHANGED vars
    BY <1>2, <1>13 DEF vars
<1> QED
    BY <1>3, <1>4, <1>5, <1>7, <1>8, <1>10, <1>11, <1>12, <1>13 DEF Next, UpdaterStep, TopicStep

-----------------------------------------------------------------------------
(* Messages that a counter has not been told of. *)
OnWay(rs, u) == {r \in DOMAIN rs : rs[r].state = "posted" /\ rs[r].from # u}

LEMMA OnWayType ==
    ASSUME NEW rs \in Seq(Receipt), NEW u
    PROVE  IsFiniteSet(OnWay(rs, u)) /\ Cardinality(OnWay(rs, u)) \in Nat
<1>1. DOMAIN rs = 1..Len(rs) /\ Len(rs) \in Nat
    BY LenProperties
<1>2. IsFiniteSet(DOMAIN rs)
    BY <1>1, FS_Interval
<1>3. IsFiniteSet(OnWay(rs, u))
    BY <1>2, FS_Subset DEF OnWay
<1> QED
    BY <1>3, FS_CardinalityType

LEMMA OnWayPush ==
    ASSUME QueueInv, PostedOnce, HandlePush, NEW u \in Users
    PROVE  Cardinality(OnWay(receipts', u)) =
               Cardinality(OnWay(receipts, u)) - IF u = receipts[Head(queue).rcpt].from THEN 0 ELSE 1
<1> DEFINE r == Head(queue).rcpt
<1>1. /\ r \in DOMAIN receipts /\ receipts[r].state = "posted"
      /\ DOMAIN receipts' = DOMAIN receipts /\ receipts'[r].state # "posted"
      /\ \A s \in DOMAIN receipts \ {r} : receipts'[s] = receipts[s]
    BY PushReceipts
<1> HIDE DEF r
<1>2. OnWay(receipts', u) = OnWay(receipts, u) \ {r}
    BY <1>1 DEF OnWay
<1>3. r \in OnWay(receipts, u) <=> receipts[r].from # u
    BY <1>1 DEF OnWay
<1>4. IsFiniteSet(OnWay(receipts, u)) /\ Cardinality(OnWay(receipts, u)) \in Nat
    BY OnWayType DEF QueueInv
<1>5. CASE u = receipts[r].from
  <2>1. OnWay(receipts', u) = OnWay(receipts, u)
    BY <1>2, <1>3, <1>5
  <2> QED
    BY <1>4, <1>5, <2>1 DEF r
<1>6. CASE u # receipts[r].from
    BY Zenon, <1>2, <1>3, <1>4, <1>6, FS_RemoveElement DEF r
<1> QED
    BY <1>5, <1>6

LEMMA OnWaySaved ==
    ASSUME QueueInv, NEW t \in TopicSet, NEW v \in Users, SaveMessage(t, v), NEW u \in Users
    PROVE  Cardinality(OnWay(receipts', u)) =
               Cardinality(OnWay(receipts, u)) + IF u = v THEN 0 ELSE 1
<1> DEFINE n == Len(receipts) + 1
<1>1. /\ DOMAIN receipts' = DOMAIN receipts \cup {n} /\ n \notin DOMAIN receipts
      /\ \A r \in DOMAIN receipts : receipts'[r] = receipts[r]
      /\ receipts'[n].state = "posted" /\ receipts'[n].from = v
    BY Zenon, ReceiptSaved
<1> HIDE DEF n
<1>2. IsFiniteSet(OnWay(receipts, u)) /\ Cardinality(OnWay(receipts, u)) \in Nat
    BY OnWayType DEF QueueInv
<1>3. n \notin OnWay(receipts, u)
    BY <1>1 DEF OnWay
<1>4. CASE u = v
  <2>1. OnWay(receipts', u) = OnWay(receipts, u)
    BY <1>1, <1>4 DEF OnWay
  <2> QED
    BY <1>2, <1>4, <2>1
<1>5. CASE u # v
  <2>1. OnWay(receipts', u) = OnWay(receipts, u) \cup {n}
    BY <1>1, <1>5 DEF OnWay
  <2> QED
    BY Zenon, <1>2, <1>3, <1>5, <2>1, FS_AddElement
<1> QED
    BY <1>4, <1>5

LEMMA OnWayDone ==
    ASSUME QueueInv, NEW io \in reads, HandleIODone(io), NEW u \in Users
    PROVE  OnWay(receipts', u) = OnWay(receipts, u)
    BY DoneReceipts DEF OnWay

(* A counter that is known, or has just been read, misses no message that is *)
(* not on its way.                                                           *)
Enough(w, c, b, rds, n, u) ==
    /\ b.sum >= 0
    /\ c.in /\ c.unread >= 0 => c.unread + w >= n
    /\ \A io \in rds : u \in io.users /\ io.state = "ok" => io.counts[u] + b.sum + w >= n
Counted == Faultless /\ left.marks = bound.marks =>
    \A u \in Users : Enough(Cardinality(OnWay(receipts, u)), cache[u], buffers[u], reads, unread[u], u)

LEMMA EnoughPush ==
    ASSUME QueueInv, ReadsInv, Types, Types', PostedOnce, Leveled, Faultless, HandlePush, NEW u \in Users,
           Enough(Cardinality(OnWay(receipts, u)), cache[u], buffers[u], reads, unread[u], u)
    PROVE  Enough(Cardinality(OnWay(receipts', u)), cache'[u], buffers'[u], reads', unread'[u], u)
<1> DEFINE d == IF u = receipts[Head(queue).rcpt].from THEN 0 ELSE 1
           val == [v \in Users |-> IF v = receipts[Head(queue).rcpt].from THEN 0 ELSE 1]
           w == Cardinality(OnWay(receipts, u))
           N == [users |-> Started(Users), state |-> "reading", counts |-> <<>>]
<1>1. unreadUpdater(Users, val) /\ unread' = unread /\ queue # <<>> /\ Head(queue).op = "push"
    BY DEF HandlePush
<1>2. Cardinality(OnWay(receipts', u)) = w - d /\ val[u] = d /\ d \in {0, 1}
    BY OnWayPush
<1>3. w \in Nat
    BY OnWayType DEF QueueInv
<1>4. cache[u].in
  <2>1. cache[u].topics \in Int /\ Cardinality(loaded) \in Int
    BY LoadedCounted DEF Types, Entry
  <2>2. cache[u].topics >= 1
    BY <1>1, <2>1, BalancedTail DEF Leveled, QueueInv
  <2> QED
    BY <2>1, <2>2 DEF Leveled
<1>5. cache[u] \in Entry /\ buffers[u] \in Buffer /\ unread[u] \in Nat
    BY DEF Types
<1> HIDE DEF d, val, w
<1>6. ASSUME NEW io \in reads', io.state = "ok" PROVE io \in reads
  <2>1. io # N
    BY ONLY <1>6
  <2> QED
    BY Zenon, <1>1, <2>1 DEF unreadUpdater
<1>7. ASSUME NEW io \in reads, u \in io.users, io.state = "ok" PROVE io.counts[u] \in Nat
    BY Zenon, <1>7 DEF Types, Answered
<1>8. CASE ~Unknown(u)
  <2>1. cache'[u] = [cache[u] EXCEPT !.unread = cache[u].unread + d]
    BY <1>1, <1>2, <1>4, <1>8 DEF unreadUpdater
  <2>2. cache'[u].in = cache[u].in /\ cache'[u].unread = cache[u].unread + d
    BY <1>5, <2>1 DEF Entry
  <2>3. buffers'[u] = buffers[u] /\ ~buffers[u].on
    BY <1>1, <1>4, <1>5, <1>8 DEF unreadUpdater, Started, Unknown, ReadsInv, BufferedUnknown, Entry
  <2>4. \A io \in reads : u \notin io.users
    BY <2>3 DEF ReadsInv, ReadsApart
  <2>5. cache[u].unread >= 0
    BY <1>4, <1>5, <1>8 DEF Unknown, Entry
  <2>6. cache'[u].unread + (w - d) >= unread[u]
    <3>1. cache[u].unread + w >= unread[u] /\ cache[u].unread \in Int
      BY <1>4, <1>5, <2>5 DEF Enough, Entry, w
    <3> QED
      BY ONLY <1>2, <1>3, <1>5, <2>2, <3>1
  <2> QED
    BY <1>1, <1>2, <1>6, <2>3, <2>4, <2>6 DEF Enough
<1>9. CASE u \in Started(Users)
  <2>1. cache'[u] = cache[u] /\ buffers'[u] = [on |-> TRUE, sum |-> 0] /\ ~buffers[u].on
    BY Zenon, <1>1, <1>9 DEF unreadUpdater, Started
  <2>2. \A io \in reads : u \notin io.users
    BY <2>1 DEF ReadsInv, ReadsApart
  <2>3. ~(cache[u].unread >= 0)
    BY <1>5, <1>9 DEF Started, Unknown, Entry
  <2> QED
    BY <1>1, <1>6, <2>1, <2>2, <2>3 DEF Enough
<1>10. CASE Unknown(u) /\ u \notin Started(Users)
  <2>1. cache'[u] = cache[u] /\ buffers'[u] = [buffers[u] EXCEPT !.sum = buffers[u].sum + d]
    BY <1>1, <1>2, <1>10 DEF unreadUpdater
  <2>2. buffers'[u].sum = buffers[u].sum + d
    BY <1>5, <2>1 DEF Buffer
  <2>3. ~(cache[u].unread >= 0)
    BY <1>5, <1>10 DEF Unknown, Entry
  <2>4. buffers[u].sum \in Int /\ buffers[u].sum >= 0
    BY <1>5 DEF Enough, Buffer
  <2>5. ASSUME NEW io \in reads', u \in io.users, io.state = "ok"
        PROVE  io.counts[u] + buffers'[u].sum + (w - d) >= unread[u]
    <3>1. io.counts[u] + buffers[u].sum + w >= unread[u] /\ io.counts[u] \in Nat
      BY Zenon, <1>6, <1>7, <2>5 DEF Enough, w
    <3> QED
      BY ONLY <1>2, <1>3, <1>5, <2>2, <2>4, <3>1
  <2> QED
    BY <1>1, <1>2, <2>1, <2>2, <2>3, <2>4, <2>5 DEF Enough
<1> QED
    BY Zenon, <1>8, <1>9, <1>10

LEMMA EnoughDone ==
    ASSUME QueueInv, ReadsInv, Types, NEW io \in reads, HandleIODone(io), NEW u \in Users,
           Enough(Cardinality(OnWay(receipts, u)), cache[u], buffers[u], reads, unread[u], u)
    PROVE  Enough(Cardinality(OnWay(receipts', u)), cache'[u], buffers'[u], reads', unread'[u], u)
<1>1. OnWay(receipts', u) = OnWay(receipts, u) /\ unread' = unread /\ reads' = reads \ {io}
    BY OnWayDone DEF HandleIODone
<1>2. CASE u \notin io.users
  <2>1. cache'[u] = cache[u] /\ buffers'[u] = buffers[u]
    BY Zenon, <1>2 DEF HandleIODone
  <2> QED
    BY <1>1, <2>1 DEF Enough
<1>3. CASE u \in io.users
  <2>1. buffers'[u].sum = 0
    BY <1>3 DEF HandleIODone
  <2>2. \A i \in reads' : u \notin i.users
    BY Zenon, <1>1, <1>3 DEF ReadsInv, ReadsApart
  <2>3. CASE cache'[u] = cache[u]
    BY <1>1, <2>1, <2>2, <2>3 DEF Enough
  <2>4. CASE cache'[u] # cache[u]
    <3>1. io.state = "ok" /\ cache'[u] = [cache[u] EXCEPT !.unread = Flushed(u, io.counts[u])]
      BY <2>4 DEF HandleIODone
    <3>2. cache'[u].unread = io.counts[u] + buffers[u].sum
      BY <3>1 DEF Types, Entry, Flushed
    <3>3. io.counts[u] + buffers[u].sum + Cardinality(OnWay(receipts, u)) >= unread[u]
      BY Zenon, <1>3, <3>1 DEF Enough
    <3> QED
      BY <1>1, <2>1, <2>2, <3>2, <3>3 DEF Enough
  <2> QED
    BY <2>3, <2>4
<1> QED
    BY <1>2, <1>3

LEMMA EnoughRegister ==
    ASSUME Types, HandleRegister, NEW u \in Users,
           Enough(Cardinality(OnWay(receipts, u)), cache[u], buffers[u], reads, unread[u], u)
    PROVE  Enough(Cardinality(OnWay(receipts', u)), cache'[u], buffers'[u], reads', unread'[u], u)
<1>1. receipts' = receipts /\ buffers' = buffers /\ reads' = reads /\ unread' = unread
    BY Zenon DEF HandleRegister
<1>2. cache'[u] = Registered(cache[u], Head(queue).inc) /\ cache[u] \in Entry
    BY DEF HandleRegister, Types
<1>3. ASSUME NEW e \in Entry, NEW a, Registered(e, a).in, Registered(e, a).unread >= 0
      PROVE  e.in /\ Registered(e, a).unread = e.unread
    BY ONLY <1>3 DEF Registered, NoEntry, Entry
<1>4. cache'[u].in /\ cache'[u].unread >= 0 => cache[u].in /\ cache'[u].unread = cache[u].unread
    BY <1>2, <1>3
<1> QED
    BY Zenon, <1>1, <1>4 DEF Enough

LEMMA EnoughRead ==
    ASSUME QueueInv, ReadsInv, Types, NEW io \in reads, ReadCounts(io), NEW u \in Users,
           Enough(Cardinality(OnWay(receipts, u)), cache[u], buffers[u], reads, unread[u], u)
    PROVE  Enough(Cardinality(OnWay(receipts', u)), cache'[u], buffers'[u], reads', unread'[u], u)
<1>1. receipts' = receipts /\ cache' = cache /\ buffers' = buffers /\ unread' = unread
    BY Zenon DEF ReadCounts
<1>2. /\ Cardinality(OnWay(receipts, u)) \in Nat /\ unread[u] \in Nat
      /\ buffers[u].sum \in Int /\ buffers[u].sum >= 0
    BY OnWayType DEF QueueInv, Types, Buffer, Enough
<1>3. ASSUME NEW i \in reads', u \in i.users, i.state = "ok"
      PROVE  i.counts[u] + buffers[u].sum + Cardinality(OnWay(receipts, u)) >= unread[u]
  <2>1. CASE i \in reads
    BY Zenon, <1>3, <2>1 DEF Enough
  <2>2. CASE i = [users |-> io.users, state |-> "ok", counts |-> [v \in io.users |-> unread[v]]]
    <3>1. i.counts[u] = unread[u]
      BY Zenon, <1>3, <2>2
    <3> QED
      BY <1>2, <3>1
  <2>3. CASE i = [io EXCEPT !.state = "failed"]
    <3>1. i.state = "failed"
      BY <2>3 DEF ReadsInv, ReadsShape
    <3> QED
      BY <1>3, <3>1
  <2> QED
    BY Zenon, <1>3, <2>1, <2>2, <2>3 DEF ReadCounts
<1> QED
    BY <1>1, <1>3 DEF Enough

LEMMA EnoughSaved ==
    ASSUME QueueInv, Types, NEW t \in TopicSet, NEW v \in Users, SaveMessage(t, v), NEW u \in Users,
           Enough(Cardinality(OnWay(receipts, u)), cache[u], buffers[u], reads, unread[u], u)
    PROVE  Enough(Cardinality(OnWay(receipts', u)), cache'[u], buffers'[u], reads', unread'[u], u)
<1> DEFINE d == IF u = v THEN 0 ELSE 1
           w == Cardinality(OnWay(receipts, u))
<1>1. cache' = cache /\ buffers' = buffers /\ reads' = reads
    BY DEF SaveMessage
<1>2. unread'[u] = unread[u] + d /\ unread[u] \in Nat
    BY DEF SaveMessage, Types
<1>3. Cardinality(OnWay(receipts', u)) = w + d /\ w \in Nat /\ d \in Nat
    BY Zenon, OnWaySaved, OnWayType DEF QueueInv
<1> HIDE DEF d, w
<1>4. cache[u].in /\ cache[u].unread >= 0 => cache[u].unread + (w + d) >= unread[u] + d
  <2>1. cache[u].in /\ cache[u].unread >= 0 => cache[u].unread + w >= unread[u]
    BY DEF Enough, w
  <2>2. cache[u].unread \in Int
    BY DEF Types, Entry
  <2> QED
    BY ONLY <1>2, <1>3, <2>1, <2>2
<1>5. ASSUME NEW io \in reads, u \in io.users, io.state = "ok"
      PROVE  io.counts[u] + buffers[u].sum + (w + d) >= unread[u] + d
  <2>1. io.counts[u] \in Nat /\ buffers[u].sum \in Int
    BY <1>5 DEF Types, Answered, Buffer
  <2>2. io.counts[u] + buffers[u].sum + w >= unread[u]
    BY <1>5 DEF Enough, w
  <2> QED
    BY ONLY <1>2, <1>3, <2>1, <2>2
<1>6. buffers[u].sum >= 0
    BY Zenon DEF Enough
<1> QED
    BY Zenon, <1>1, <1>2, <1>3, <1>4, <1>5, <1>6 DEF Enough

LEMMA CountedStep ==
    ASSUME QueueInv, ReadsInv, Types, Types', PostedOnce, Limits, Leveled, Counted, [Next]_vars
    PROVE  Counted'
<1> SUFFICES ASSUME Faultless', left'.marks = bound'.marks, NEW u \in Users
             PROVE  Enough(Cardinality(OnWay(receipts', u)), cache'[u], buffers'[u], reads', unread'[u], u)
    BY DEF Counted
<1>1. Faultless /\ left.marks = bound.marks /\ left'.marks = left.marks
  <2>1. Faultless
    BY Zenon, FaultlessBefore
  <2>2. left.marks = bound.marks /\ left'.marks = left.marks
    BY FewerStep DEF Fewer, Limits, Types, Bound
  <2> QED
    BY <2>1, <2>2
<1>2. Enough(Cardinality(OnWay(receipts, u)), cache[u], buffers[u], reads, unread[u], u)
    BY Zenon, <1>1 DEF Counted
<1> DEFINE Goal == Enough(Cardinality(OnWay(receipts', u)), cache'[u], buffers'[u], reads', unread'[u], u)
<1>3. CASE HandlePush
    BY Zenon, <1>1, <1>2, <1>3, EnoughPush
<1>4. CASE HandleUpdate \/ HandleGone
  <2>1. queue # <<>> /\ queue' = Tail(queue) /\ Head(queue).op \in {"update", "gone"}
    BY Zenon, <1>4 DEF HandleUpdate, HandleGone
  <2>2. Within(queue[1], left, bound) /\ queue[1].op \in {"update", "gone"}
    BY Zenon, <2>1, QueueTaken DEF Limits
  <2> QED
    BY <1>1, <2>2 DEF Within, Faultless, Types, Bound
<1>5. CASE HandleRegister
    BY Zenon, <1>2, <1>5, EnoughRegister
<1>6. ASSUME NEW io \in reads, HandleIODone(io) PROVE Goal
    BY Zenon, <1>2, <1>6, EnoughDone
<1>7. ASSUME NEW io \in reads, ReadCounts(io) PROVE Goal
    BY Zenon, <1>2, <1>7, EnoughRead
<1>8. ASSUME receipts' = receipts, cache' = cache, buffers' = buffers, reads' = reads, unread' = unread
      PROVE  Goal
    BY <1>2, <1>8
<1>9. ASSUME NEW t \in TopicSet, LoadTopic(t) \/ UnloadTopic(t) \/ Post(t) PROVE Goal
    BY Zenon, <1>8, <1>9 DEF LoadTopic, UnloadTopic, Post
<1>10. ASSUME NEW t \in TopicSet, NEW v \in Users, SaveMessage(t, v) PROVE Goal
    BY <1>2, <1>10, EnoughSaved
<1>11. ASSUME NEW t \in TopicSet, NEW v \in Users, NEW k \in 1..bound.msgs, SaveReadMark(t, v, k)
       PROVE  Goal
  <2>1. left' = [left EXCEPT !.marks = left.marks - 1]
    BY <1>11 DEF SaveReadMark
  <2> QED
    BY <1>1, <2>1 DEF Types, Bound
<1>12. ASSUME NEW v \in Users, RemoveUser(v) PROVE Goal
    BY Zenon, <1>8, <1>12 DEF RemoveUser
<1>13. CASE UNCHANGED vars
    BY <1>8, <1>13 DEF vars
<1> QED
    BY <1>3, <1>4, <1>5, <1>6, <1>7, <1>9, <1>10, <1>11, <1>12, <1>13 DEF Next, UpdaterStep, TopicStep

-----------------------------------------------------------------------------
(* The inductive invariant, and what it says of the counts. *)
CountsInv == /\ ReadsInv /\ QueueInv /\ PostedOnce /\ Waiting
             /\ Types /\ Limits /\ Leveled /\ Delivered /\ Counted

LEMMA InitCounts == Init => CountsInv
<1> SUFFICES ASSUME Init PROVE CountsInv
    OBVIOUS
<1>1. ReadsInv /\ QueueInv /\ PostedOnce /\ Waiting
    BY InitReads, InitWaiting
<1>2. NoEntry \in Entry /\ NoEntry.topics = 0 /\ ~NoEntry.in /\ NoEntry.unread = -1
    BY DEF NoEntry, Entry
<1>3. Types
  <2>1. bound \in Bound /\ left \in Bound
    BY BoundsAssumption DEF Init
  <2>2. buffers \in [Users -> Buffer] /\ unread \in [Users -> Nat] /\ cache \in [Users -> Entry]
    BY <1>2 DEF Init, Buffer
  <2> QED
    BY Zenon, <2>1, <2>2 DEF Init, Types
<1>4. Limits
    BY <1>3 DEF Init, Limits, Types, Bound
<1>5. queue = <<>> /\ Len(queue) = 0 /\ loaded = {} /\ Cardinality(loaded) = 0 /\ DOMAIN receipts = {}
    BY FS_EmptySet DEF Init
<1>6. ASSUME NEW u \in Users PROVE cache[u].topics = 0 /\ ~cache[u].in /\ buffers[u].sum = 0 /\ unread[u] = 0
    BY <1>2 DEF Init
<1>7. Balanced(0, queue, 0)
  <2>1. Level(0, queue, 0) = 0
    BY LevelType
  <2> QED
    BY <1>5, <2>1 DEF Balanced
<1>8. Leveled
    BY <1>5, <1>6, <1>7 DEF Leveled
<1>9. Delivered
    BY <1>5 DEF Delivered
<1>10. Counted
  <2>1. reads = {}
    BY DEF Init
  <2> QED
    BY <1>6, <2>1 DEF Counted, Enough
<1> QED
    BY <1>1, <1>3, <1>4, <1>8, <1>9, <1>10 DEF CountsInv

LEMMA CountsStep == CountsInv /\ [Next]_vars => CountsInv'
<1> SUFFICES ASSUME CountsInv, [Next]_vars PROVE CountsInv'
    OBVIOUS
<1> USE DEF CountsInv
<1>1. ReadsInv' /\ QueueInv'
    BY ReadsStep, QueueStep
<1>2. PostedOnce' /\ Waiting'
    BY WaitStep
<1>3. Types'
    BY TypesStep
<1> QED
    BY Zenon, <1>1, <1>2, <1>3, LimitsStep, LeveledStep, DeliveredStep, CountedStep

LEMMA CountsSay == CountsInv => TopicsCounted /\ NeverUndercounts
<1> SUFFICES ASSUME CountsInv PROVE TopicsCounted /\ NeverUndercounts
    OBVIOUS
<1> USE DEF CountsInv
<1>1. ASSUME Faultless, NEW u \in Users
      PROVE  /\ cache[u].topics + Queued(TRUE) - Queued(FALSE) = Cardinality(loaded)
             /\ cache[u].in <=> cache[u].topics > 0
  <2>1. DOMAIN queue = 1..Len(queue)
    BY LenProperties DEF QueueInv
  <2>2. /\ Queued(TRUE) = Count(queue, Len(queue), Comes)
        /\ Queued(FALSE) = Count(queue, Len(queue), Goes)
    BY <2>1 DEF Queued, Count, Places, Comes, Goes
  <2> QED
    BY Zenon, <1>1, <2>2 DEF Leveled, Balanced, Level
<1>2. ASSUME Faultless, left.marks = bound.marks, Quiet, NEW u \in Users, Known(u)
      PROVE  cache[u].unread >= unread[u]
  <2>1. ASSUME NEW r PROVE ~Travels(r, queue, posting)
    <3>1. DOMAIN queue = {} /\ \A t \in TopicSet : posting[t] # Push(r)
      BY <1>2 DEF Quiet, Push, Nothing
    <3> QED
      BY <3>1 DEF Travels
  <2>2. OnWay(receipts, u) = {}
    BY <1>2, <2>1 DEF OnWay, Delivered, Faultless
  <2>3. Cardinality(OnWay(receipts, u)) = 0
    BY <2>2, FS_EmptySet
  <2> QED
    BY <1>2, <2>3 DEF Counted, Enough, Known, Types, Entry
<1> QED
    BY Zenon, <1>1, <1>2 DEF TopicsCounted, NeverUndercounts

\* As long as no request is dropped and no user is deleted, usersCache has, for
\* every user, the number of loaded topics that the requests in the queue leave
\* it with, and has the user exactly while that number is positive: an entry goes
\* with the last usersRegisterTopic(false), and not before.
THEOREM TopicsCountedCorrect == Spec => []TopicsCounted
    BY InitCounts, CountsStep, CountsSay, PTL DEF Spec

\* If moreover nothing is marked as read, a counter that userUpdater knows is, once
\* nothing is on its way, at least the number of unread messages in the database:
\* a message that is saved while the counter is read from the database is counted,
\* by the read or by an update that was buffered.
THEOREM NeverUndercountsCorrect == Spec => []NeverUndercounts
    BY InitCounts, CountsStep, CountsSay, PTL DEF Spec
=============================================================================
