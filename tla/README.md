# Verification of im_server

TLA+ models of the chat server under `src/server`, the TLC configurations that check them on
small instances, and TLAPS proofs. The server is a multi-tenant fork of Tinode: clients hold
sessions (websocket, long polling, gRPC), a hub goroutine keeps one topic object per topic name,
every topic object is a goroutine of its own, and a cluster of servers shares the topics by
consistent hashing.

All paths below are relative to `src/server` unless they start with `docs/`, which is `src/docs`.

## 1. Inventory

### Parts and how they interact

| Part | State | Operations | Interacts with |
|---|---|---|---|
| Cluster failover (`cluster_leader.go`, parts of `cluster.go`) | term, leader, ring, active nodes, fail counts | heartbeat, missed heartbeat, election, vote, health check, rehash | peers by RPC that can fail; the hub (rehash) |
| Hub (`hub.go`) | topics by name, queues join, unreg, meta, rehash, shutdown | join, unregister (idle, deleted, emptied, user deleted), rehash, shutdown, offline requests | sessions, topics, store |
| Topic loading (`init_topic.go`) | the object while it is paused | load, fail and drain, abort, start | hub, store, users cache |
| Topic goroutine (`topic.go`) | attached sessions, per-user data, message and deletion counters, kill timer | register, leave, publish, note, get, set, del, timeout, termination | sessions, hub, store, users cache, push |
| Access (`topic.go`, `hub.go`) | want/given modes, owner | {sub}, {set sub}, {del sub}, {leave unsub}, transfer of ownership | store |
| Messages (`topic.go`, `store/store.go`) | sequence, delete ID, marks, deletion log | {pub}, {note}, {del msg}, {get data}, {get del} | store |
| Users cache (`user.go`, `push.go`) | unread counters, buffers, pending receipts | register, update, push, removal, end of a database read | topics, store, push services |
| Sessions and their store (`session.go`, `sessionstore.go`) | subscriptions, in-flight requests, queues | dispatch, login, clean-up, expiry, eviction | hub, topics |
| Proxy and master topics (`topic_proxy.go`, `cluster.go`) | proxy sessions, multiplexing sessions | route, answer, clean-up after node failure | other nodes |
| Presence (`pres.go`) | contacts and their online flags | on, off, enable, disable | other users' `me` topics, through the hub |
| Video calls (`calls.go`) | the current call, its timer | invite, ringing, accept, hang-up, timeout | topic, messages |
| Accounts, credentials, authenticators, validators (`user.go`, `auth/`, `validate/`) | rows of the database, retry counters | create, log in, validate, delete | store |
| Files (`hdl_files.go`, `media/`) | file records | upload, link, garbage collection | store |
| Store and adapters (`store/`, `db/`) | the tables | one method per query | all of the above |

Only the MySQL tenant adapter (`db/mysql/tenant_adapter.go`) implements `TenantBusinessAdapter`, so
it is the one the store works with; the other adapters are modelled beside it and compared with it.
`PROJECT.json` lists every part with its status.

### Where it is hard

The behaviours that unit tests hardly reach, and that the models are about:

- the hub, the loader, the topic and the session each hold a piece of one request, and a topic may
  be unregistered, deleted or shut down while any of them has it;
- two objects of one topic name may be alive at once: an unregistered object runs on until it takes
  its exit message;
- bounded channels that refuse, drop or block;
- sequences of database calls without a transaction, any of which may fail, possibly after it took
  effect;
- requests of sessions that are not attached, served from the database beside the loaded topic;
- database reads of counters in goroutines of their own while updates go on;
- elections with lost messages, crashes and a term that is not kept on disk;
- half-open ranges of message numbers in several notations;
- the end of a video call, which a hang-up, a disconnection and a timer may all bring about;
- rows of all tenants in the same tables, told apart by one condition in every statement;
- one fact kept in two places (tags, file links, deletion log) by statements of five adapters;
- a collector of files that runs beside uploads, and handlers that write back what they read.

Every such place is listed under "hazards" in `PROJECT.json` with its line.

## 2. Modules

| Module | Models | Checked in |
|---|---|---|
| `ClusterLeader` | leader election, health checks and rehashing of all nodes | `MCClusterLeader`, proofs in `ClusterLeaderProofs` |
| `TopicLifecycle` | hub, loader, topic goroutines, sessions, `stopTopicsForUser`, for one topic name | `MCTopicLifecycle`, proofs in `TopicLifecycleProofs` |
| `UserCache` | `userUpdater` and the topics that post to it | `MCUserCache`, proofs in `UserCacheProofs` and `UserCacheCounts` |
| `MsgRanges` | ranges of message numbers: sorting, merging, counting | through `TopicMessages` |
| `TopicMessages` | messages, marks, deletion and the deletion log of one topic, with its tables | `MCTopicMessages`, `MCCalls` |
| `Calls` | video calls, composed with `TopicMessages` | `MCCalls`, proofs in `CallsProofs` |
| `TopicAccess` | subscriptions, access modes and ownership of one group topic or channel, with its tables | `MCTopicAccess`, proofs in `TopicAccessFacts`, `TopicAccessSteps`, `TopicAccessProofs` |
| `Tables` | tables, rows, statements and what an adapter call returns | through the adapters |
| `MySQLAdapter`, `PostgresAdapter`, `MongoAdapter`, `RethinkAdapter`, `TenantMySQL` | one operator per business method of each adapter | through `Adapters` and `SharedStore` |
| `Adapter`, `Adapters` | the interface of `db/adapter.go`; the adapters side by side | `MCAdapters` |
| `Store` | `store/store.go`: each method as a sequence of adapter calls | through `SharedStore` |
| `Accounts`, `Uploads` | handlers of accounts, credentials and logins; of files and their contents | through `SharedStore` |
| `Handlers` | the requests that are made, and what both store specifications share | through `SharedStore` |
| `SharedStore` | the handlers of several tenants over the same tables | `MCSharedStore` |
| `PrivateStores` | the promise: a database of its own for every tenant | as a property of `SharedStore` |

The MC modules hold the properties and the constants of the instances; properties that are proved are
in the modules themselves. A definition whose comment
says "Mutated" or "Mutant" is a plausible error in the definition that follows it; it is used to see that a
property notices the error, and by nothing else.

### ClusterLeader

One record of variables per node, named as in the code: `term`, `leader`, `missed`,
`rehashSkipped`, `ring`, `activeNodes`, `failCount`; `electing` says that the goroutine is blocked
in `electLeader`. The `healthCheck` channel is a bounded sequence; vote calls and answers are sets,
so that they arrive in any order. `ballots` and `elected` are histories.

| Action | Code |
|---|---|
| `SendHealthChecks` | the leader's tick, `sendHealthChecks`, rehash when a peer fails or returns |
| `MissHealthCheck`, `ElectLeader` | a follower's tick; the election it starts after `voteTimeout` misses |
| `TakeVote`, `ElectionTimeout` | the loop of `electLeader` |
| `HandleVote`, `HandleHealth` | the other two cases of `run` |
| `LoseVote`, `Crash`, `Restart` | the environment: a lost answer, a process that dies, one that starts again |

A ring is the set of nodes it was built from: equal sets have equal signatures. The count of votes
is the set of voters. Time is not modelled: a ticker may fire at any moment, which includes every
timing of the real one.

### TopicLifecycle

The objects of one topic name are numbered; `obj[i]` is the object with the phase its goroutine is
in, its flags (paused, deleted), its queues, attached sessions and kill timer. `ses` has a session's
connection state, `inflightReqs`, the object it is attached to and its `detach` queue. The hub's
`topicUnreg` and the loader's `topicInit` are several steps each, because other goroutines see the
states in between. The topic is a P2P topic that one of its users has left, which is the one
whose last user leaving deletes it. `Events` chooses what the environment may do in an instance.
The queues `Hub.join` and `Topic.reg`, which refuse when full, are bounded by `QueueCap`; the others
are unbounded.

### UserCache

`queue` is the channel of `userUpdater`, `cache`, `buffers` and `pending` its maps, `reads` the
goroutines that read counters. A topic saves first and posts second, in two steps (`SaveMessage`,
`SaveReadMark`, then `Post`), because the database read may come in between. A full queue drops, which `dropped` remembers.

### MsgRanges and TopicMessages

`t` is the topic object (`lastID`, `delID`, per-user marks); `row`, `msgs`, `dellog` and `subs` are
the rows of the tables `topics`, `messages`, `dellog` and `subscriptions`. The topic's goroutine is
the only writer, so a handler is one action; the action contains its sequence of database calls and
the point at which it fails, before or after the failing call took effect. `acked` and `gone`
remember what clients were told. Actions: `Publish`, `Note`, `DeleteMessages`, `Load`, `Unload`
(also a dying process) and `Age` (messages pass `msg_delete_age`). `GetAll`, `GetDeleted` and `Desc`
are what {get data}, {get del} and {get desc} return. `Normalize`, `SliceToRanges` and
`calculateUnreadInRanges` of `MsgRanges` follow the loops of the code, slots left in place included.

### Calls

`Calls` extends `TopicMessages` and composes with it: a call is an invitation, which is a message, and
the messages that replace it, so every step of a call goes through `Save` and can fail like any other
message. `currentCall`, `timer` (`callEstablishmentTimer`), `attached` (`t.sessions`), `clientMsg` and
`unreg` are the topic's; `said` remembers which states were written for each invitation, `lost` the
calls that went with an unloaded topic. Actions: `Attach`, `Send` and `Leave` of sessions, `Receive`
(invitation, acceptance, hang-up, as `handleCallEvent` tells them apart), `Unregister`, `CallTimeout`
and `Forget` of the topic. A departure waits in another queue than the requests and may overtake them.
A session of another node is known to the topic through the multiplexing session of that node, `Node`,
whose departure takes all its sessions along. `iceServers`, chosen in the initial state, says whether
calls are configured: without, the topic has the actions of `TopicMessages`, deletion included; with
calls, only messages of calls are written, which keeps the two parts of the instance apart.

### TopicAccess

`t` is the topic object (`owner`, `perUser`), `subs` and `chnSubs` are the subscription rows under
the group's and the channel's name, `row` the topic's row. A mode is a set of letters. `pending` is a
{set sub} served from the database by a goroutine beside the topic, in two steps (`OfflineGet`,
`OfflinePut`). Actions: `NewSubscriber`, `NewReader`, `Rejoin` and `SetSelf` (`thisUserSub`),
`Invite`, `Grant` and `Reinvite` (`anotherUserSub`), `DelSub`, `LeaveUnsub`, `Leave`, `Load`, `Unload`. Both a
group and a channel are initial states.

`offered`, `banned` and `selfBanned` are histories. `upset` records three situations, each of them a
disagreement described in section 5, after which some properties are not expected to hold: "torn", memory and database were
parted by a cached reader or by a request served beside the topic; "shared", the topic had two
owners; "slipped", a user who bans the topic was attached. `Calm` is: no database call failed and
nothing is torn.

### Tables and the adapters

A database is a record of tables, a table a set of rows, a statement an operator from databases to
databases. A method of an adapter yields the databases it writes one after the other (one for a
transaction, several for statements outside of one), the error and the result. `MySQLAdapter`,
`PostgresAdapter`, `MongoAdapter` and `RethinkAdapter` have a method per method of the code, under its
name; a method whose statements have the same effect as another adapter's is defined by that one and
is mapped to its own lines. `TenantMySQL` has the methods with a tenant. `Adapter` is the interface;
MongoDB appears twice, with and without transactions, as the code has both.

`Adapters` starts every adapter with the same history and makes the same calls on each. `odd` collects
the method and adapter where the result, or what the interface shows afterwards, differs from the
tenant methods; `torn` those where a call that stopped between two statements cannot be completed by
making it again: what the interface shows ("shown") or the use counters of the files ("uses") are then not
those of a call that was not stopped.

### Store, Accounts, Uploads, SharedStore

A method of `Store` is a sequence of adapter calls; each says what happens when it fails (the method
ends, after calls that undo, or goes on). A handler of `Accounts` or `Uploads` is a job: the calls it
has still to make, and the places of the code that look at an answer and decide what comes next
(`Answered`, `After`). `SharedStore` runs jobs of two sessions and the collector, one call per step, for
two tenants whose rows are in the same tables and whose users, logins and addresses have the same
names; a call may fail having done nothing, a part or everything. A call is atomic as its transaction is,
with one exception: `TenantFileDeleteUnused` selects without locking and deletes by identifier, and is two
calls (`FileSelectUnused`, `FileDeleteUnused`). `kept` is a history: the links that were there at a moment
when their file was stored and not selected for deletion. `scene` chooses the requests: every
method of the store, accounts, files on disk, files in S3.

`PrivateStores` runs the same handlers with a database per tenant. `Isolated` is its specification under
the mapping that takes from the shared tables the rows of each tenant (`Of`): every call made for one
tenant reads and changes what it would if there were no other.

## 3. Runs

Seconds to a few minutes each. `tlc -config <cfg> <module>`.

| Run | Instance | States | Shows |
|---|---|---|---|
| `leader_safety` | 3 nodes, terms 1 and 2, one fault, symmetry | 1,122,135 | `OneLeaderPerTerm`, `NeverWrongLeader` ("It's a bug, should never happen!"), `DeposedByHigherTerm` |
| `leader_converge` | 3 nodes, terms 1 and 2, two faults, elections in turn, fair | 399,076 | `RingsConverge`: with a stable leader every live node comes to the leader's ring or to the list the leader announces |
| `leader_restart` (violation) | 3 nodes, one term, limits of 1, two faults, restarts | | `NeverWrongLeader` fails once a node can forget its term |
| `topic_safety` | 2 sessions, 2 objects, 3 requests, queues of 1; either timeout, delete, failing delete, unsub, rehash, disconnect, or timeout, delete, deleted user, failing load, shutdown | 1,270,952 | `OneRequest`, `AttachedBothWays`, `LiveIsRegistered` |
| `topic_live` | 2 sessions, 3 objects, 3 requests; disconnect, failing load, timeout, fair | 26,191 | `AnsweredOrStranded`, `CleanUpEnds`, `IdleUnloaded` |
| `cache` | 2 users, 2 topics, one failing read, fair; a queue of 2 that overflows with 2 messages and a read mark or a deleted user, or a queue that never does with 3 messages and 3 loads | 301,438 | `ReadOnce`, `ReceiptsWait`, `TopicsCounted`, `NeverUndercounts`, `ReceiptsSent` |
| `messages_safety` | one failing call; 2 users, 2 messages, 2 deletions of one range, or calls between 3 sessions, one of them of another node, in up to 4 messages | 1,136,708 | `AckedKept`, `ReloadInvisible`, `DeletedGone`, `NotAskedKept`, `LogReported`; `CallTold`, `CallSettled`, `TimerOfPending` |
| `messages_asked` (violation) | 1 user, 4 messages, one deletion of two ranges | | `NotAskedKept` fails: a message between the ranges is deleted |
| `access_safety` | 2 users, group and channel, one failing call (group only), one request beside the topic | 452,373 | `OwnersAgree`, `GivenByOwner`, `BansKept`, `AttachedAllowed`, `MirrorsStore` |
| `access_owner` (violation) | 2 users, no faults, no readers, nothing beside the topic | | `OneOwner` fails in five states |
| `adapters` | 3 users, a group that is a channel, a P2P topic, files; every two calls in a row, any of them stopped half way | 2,360 | `SameAnswers`, `RetryCompletes`, `CopiesAgree`, `LogMatchesMessages`, `Erased` |
| `store` | 2 tenants; one request of any method, or two of accounts, or three of files on disk, or two of files in S3, with a collector; one failing call, one hour | 270,552 | `Isolated` (refinement), `CreatedWhole`, `RequiredKept`, `TagsMatch`, `UploadKept`, `FailedUploadGone`, `LinkedKept` |

What the less obvious ones say:

- `RingsConverge` does not say that the rings become equal. That was so with one election; a second leader
  may announce a list that is not its own ring, and go on doing so (section 5). What holds is that no
  ring stays behind that is neither.
- `LiveIsRegistered` is stated for behaviours in which nobody removes a name from the hub without
  asking whose it is (`ByName`). Three places of the code do, and with each TLC refutes it (section 5).
- `AttachedBothWays` is about every object of the name, not the registered one only: a session told
  to detach from an object that ended is not unlinked from its successor. `OneRequest` finds the
  request of a session in the hub's queue, in a queue of any object or with any loader.
- `TopicsCounted` and `NeverUndercounts` hold until a request is dropped or a user deleted
  (`Faultless`); `NeverUndercounts` also until messages are marked as read, since a mark that is
  posted after the counter was read is subtracted twice.
- `CallTold`: what is written of a call is nothing, "accepted", an end, or "accepted" and an end that
  goes with it, although "accepted" may be stored and reported as failed. `CallSettled`: without
  failures no call is left without an end, except the current one and those of an unloaded topic.
- `SameAnswers`, `RetryCompletes` and `TagsMatch` carry lists of exceptions (`Differences`,
  `LeavesOrphans`, `StaleTags`). Each entry is needed, being what the code does (section 5). The
  properties say that there are no others.
- `Erased` is an action property, of the step that removes a user.
- `LinkedKept`: a link that was there when its file was stored and not selected by the collector has record
  and contents as long as it stays. Links made after the selection are not protected (section 5).
- `RequiredKept` is about a user with two confirmed addresses and a pending one.

### Bounds

- Three nodes are the smallest cluster in which a majority is not everyone; two terms let a leader
  be deposed and late votes of one election arrive in the next. `VoteAfter` is 2 in `leader_safety`, so
  that heartbeats are missed without an election, and at most one health check waits at a node
  (`OneCheckWaits`). In `leader_converge` both limits are 1, the soonest they are reached; an
  election starts when no other is under way and no call of one is left, the first one at a fixed node
  (`InTurn`). Any node may win the second, with what the first and the faults left in its list and its
  ring.
  The safety results do not rest on the bounds: they are proved (section 4).
- Two topic objects are enough for an old object to outlive its registration beside a new one; three
  requests let two sessions compete while one of them makes a second request. `topic_live` has three
  objects so that a name is unloaded and loaded twice.
- Two users and two topics give a receipt that waits for two counters and a user that two topics
  keep in the cache; three loads bring a topic back after it went.
- One failing database call per behaviour covers each call of each handler, in both ways of failing.
  Two messages and two deletions give every overlap of two single ranges, the empty topic and the
  range past the last message. `NotAskedKept` is checked with one range there since two ranges are
  what refutes it.
- Three sessions are one on the side of the caller and two of the other user, one of them of another
  node: either side may call, accept, hang up or go. Four messages hold an invitation, its two
  replacements and the next invitation; the request queue of one still lets a departure overtake it.
- Two calls in a row of every method with every argument that matters, on a database with some
  history, reach each branch of each method and show the effect of a call on the next. Longer
  sequences only combine differences that are already found.
- Two tenants, users of the same name; two handlers at once, because every race of the handlers
  is between two. A failure is injected when nothing else runs: what a half-done call leaves is seen by
  the requests that come after it.
- In `TopicAccess` users ask for no mode, the empty one (a ban) or J, A and O, and give each other
  these or J alone, which separates banning, joining and owning. With two users one is the owner and the other takes every other role
  in turn. Failures are injected for a group only, to keep the instance small.

Deadlock is not checked in any run: the bounds on requests, messages, terms or loads end every behaviour of
an instance.

### Fairness

Only the goroutines of the server are assumed to make progress, never clients, failures or the
operator.

- `ClusterLeader`: a leader's ticker ticks, a node takes the health checks in its channel, an
  election ends by a vote or by its timeout (`run` and `electLeader` always return to a `select`, and
  Go chooses among ready cases at random). Missing a heartbeat is not assumed fair: it is a
  matter of timing. Nor are the vote handlers: `RingsConverge` starts from a stable leader. `InTurn`
  holds back only the start of elections, of which no fairness is assumed.
- `TopicLifecycle`: weak fairness of the hub, of `stopTopicsForUser`, of each loader, topic and
  session goroutine as a whole, not of single cases of their `select`. The kill timer of an idle topic
  is a case of the topic's `select`; a topic with nothing else to do takes it.
- `UserCache`: the updater runs, a database read ends (well or not), a topic that saved posts.

## 4. Proofs

`tlapm` checks eight modules of theorems, about five components. They hold for every value of the constants; the assumptions
are the `ASSUME`s of the modules, which TLC evaluates on the instances.

### ClusterLeaderProofs

For any cluster of at least three nodes, any limits, any number of terms and faults, and for `Spec`,
in which crashed processes do not come back: `OneLeader` (`OneLeaderPerTerm`), `NoWrongLeader`
(`NeverWrongLeader`), `LeaderDeposed` (`DeposedByHigherTerm`), and `TypeCorrect`, on which they rest.
Assumptions: `NodesAssumption` (finite, at least three), `NoNodeAssumption` (the empty name is no node),
`LimitsAssumption` (the limits are natural numbers, the two of the code positive).

None of these is inductive: that a term has one leader says nothing of a candidate one vote short of
a majority. `ElectionInv` adds what an election leaves behind: a node has voted in no term later
than its own (`BallotsBounded`) and once in each (`OneBallotPerTerm`); a favourable answer under way
and every counted vote is a ballot cast (`AnswersBacked`, `VotersBacked`); every winner has the
ballots of a majority (`ElectedByMajority`); every leader a node knows, and every sender of a health
check, has won its term (`LeaderElected`, `HealthFromElected`). `InvStep` has one lemma per action.
`MajoritiesShareNode` then gives `OneLeaderPerTerm`, and the rest follows from it. A restart breaks
`BallotsBounded`, which is what `leader_restart` shows.

### CallsProofs

For any users, sessions, queue lengths, numbers of messages, deletions, reloads and failing calls, and
for `CallSpec`, which contains every action of `TopicMessages`: `AckedCorrect` (`AckedKept`),
`ToldCorrect` (`CallTold`), `SettledCorrect` (`CallSettled`), `TimerCorrect` (`TimerOfPending`),
`ReloadCorrect` (`ReloadInvisible`) and, for requests that name one range (`MaxRanges = 1`),
`DeletedCorrect` (`DeletedGone`) and `NotAskedCorrect` (`NotAskedKept`).
Assumptions: those of `TopicMessages` and `Calls` about finite sets of users and sessions and natural
bounds.

That no accepted message is overwritten rests on the unique index: a number that is taken is refused.
The same index keeps the story of a call straight, which is the point of the invariant. "accepted" may
be stored and reported as failed. The topic then takes the call for unanswered, and a hang-up would
write "missed" after "accepted"; but its next number is the one that message has, so nothing can be
written until the topic is loaded again, when the call is forgotten. This is the third case of
`CurrentTold`. `Numbered` says that as long as nothing fails the next number is free, which gives
`CallSettled`. `CallShape` has one or two parties and an originator among them.

Marks and deletions have an invariant of their own, `MessagesInv`, kept by every step (`StepKind` sorts the
steps of both modules into those that write a message, move marks, delete, load, unload, or leave all
of it alone). `Mirrored` is what makes a reload invisible: a read mark moves the received mark of the
topic and not the column, so the two differ, but not in the larger of received and read, which is what
a reader is told; it says nothing of the read and received marks of those who do not read, whose own
messages move them in the topic only. `Passed` says that the number of a message whose deletion was confirmed is not given
again, whatever fails; without it a new message could bear the number of a deleted one. `Asked` says
that, as long as nothing fails, what is marked as deleted or covered by the log for a user is what that
user was told. That a list of one range is stored as it came (`OneRange`) is where the restriction is
used.

### UserCacheProofs and UserCacheCounts

For any finite sets of users and topics and any bounds, with dropped requests, failing reads and
removed users: `ReadOnceCorrect` (`ReadOnce`), `ReceiptsWaitCorrect` (`ReceiptsWait`), `TopicsCountedCorrect`
(`TopicsCounted`), `NeverUndercountsCorrect` (`NeverUndercounts`). `ReadsApart` replaces the counting of
`ReadOnce` by what makes it inductive: a user is buffered exactly while some read has them among its
users, and two reads share none. `Waiting` equates `pendingIOs` of a receipt with the number of users
whose pending list holds it. That a push adds a receipt to lists that do not hold it yet needs
`PostedOnce`: a receipt is in the queue, or on its way there, once, and has not been handled.

The counts are in `UserCacheCounts`. `TopicsCounted` as it stands is not kept by the updater: it
handles the first request of the queue, and would leave a negative count if a topic went before it
came. `Leveled` says it of every beginning of the queue: the count of the entry and the requests up to
any place never fall below zero and end at the number of loaded topics (`Balanced`). `Count` and its
lemmas say how often a request is among the first of a sequence, without induction over the sequence.
`NeverUndercounts` speaks of moments when nothing is on its way, so an inductive invariant has to say
what is: `Counted` adds to a known counter the messages whose receipts were not handled yet (`OnWay`),
and to one that has been read but not reported the updates buffered meanwhile as well. `Delivered`
(an unhandled receipt is in the queue or about to be posted) shows that when all is quiet there are
none, and `Limits` that no request marks messages as read or deletes a user while none was made.

### TopicLifecycleProofs

For any sessions, number of objects, of requests and queue lengths, and for every choice of `Events`:
`OneServes` (`LiveIsRegistered`), `AttachedCorrect` (`AttachedBothWays`), `OneRequestCorrect` (`OneRequest`).
Assumptions: `NoneAssumption` (None is neither a session nor a number), `BoundsAssumption` (natural
bounds, queues that hold something).

For the first: an object that serves or is yet to serve and is not marked as deleted is the registered
one from the moment it is made (`ServingRegistered`). The hub takes several steps to unregister an object;
the one it is about to take is still the registered one when it does (`TakenRegistered`). The rest of the
invariant says that nothing that removes a name without asking is there (`Objects`, `Alone`).

The other two are proved together from `Kept`, which follows each session through all objects of the
name. `Linked` is `AttachedBothWays` with two additions without which a step can break it: a session with a
detach message from an object is no longer served by it, so that a {leave} it makes before it takes the
message changes nothing twice; and the agreement also holds from the topic's side for sessions that are
terminating. `Single` is `OneRequest` said of each place: a queue has a request of the session at most
once (`Once`), no two places have one, and `inflightReqs` is taken exactly if some place has one. Both
need to know what an object that is not made or does not run yet holds (`Sound`), and that the hub and
the sessions name objects that were made (`Typed`). The frame lemmas (`TypedFrame`, `LinkedFrame`,
`SingleFrame`, `QuietSteps`) reduce a step to the one object and the one session it changes; `SingleMoves` is
the step that takes a request from one place to another, `EvictStep` and `GiveUpStep` the two that end
several at once.

### TopicAccessFacts, TopicAccessSteps, TopicAccessProofs

For any users, readers, absent users, requested and granted modes, failing calls and bounds, for a group
and a channel: `OwnersAgreeCorrect`, `GivenByOwnerCorrect`, `BansKeptCorrect`, `AttachedAllowedCorrect`,
`MirrorsStoreCorrect`, each of the property of its name, from one invariant (`Invariant`). Assumptions:
`UsersAssumption` (the creator is a user, the name of nobody is not), `ModesAssumption` (default
permissions do not include O; a channel reader may join and read and neither owns nor administers),
`BoundsAssumption` (natural bounds).

None of the properties is inductive alone: who may be attached depends on what is cached, that on what
is stored, and both on who owns the topic. `Inv` says of each user (`UserOK`) what holds whatever fails
(`GivenOK`, `AttachedOK`) and what holds as long as it is calm (`MirrorOK`, `BanOK`), and `OwnerOK` that an owner
is stored and cached. Beyond the properties it needs: a request beside the topic that is half done has a
row to write to; a cached reader wants J, so nobody is kept as a reader who may not read; O is wanted in
the cache exactly if it is in the row, although other letters may differ for a user who was not told
(`unseen`); and a ban has a row that bears it. `TopicAccessFacts` has the lemmas about the operators of the
handlers and the steps that load, unload, leave and remove; `TopicAccessSteps` the steps that add or
change somebody else's subscription, and those beside the topic; `TopicAccessProofs` the change of one's own, by which
the topic changes hands: the decision (`DecidedFacts`), what is written to the rows and the old owner
(`RewrittenFacts`, `HandedOver`), what is shown and answered, then the theorems.

### Only model-checked

- Every liveness property (`RingsConverge`, those of `topic_live`, `ReceiptsSent`): the prover does
  not handle fairness or ENABLED.
- What the loops over sequences of ranges in `MsgRanges` compute, and so `LogReported`: there is no
  induction over data. `DeletedGone` and `NotAskedKept` are proved for requests of one range; two ranges
  refute `NotAskedKept` (`messages_asked`) and `DeletedGone` (section 5).
- The refinement `Isolated`: its step is over some hundred methods, each a chain of statements on
  records of tables; and the other properties of `store` and `adapters`, which are about given
  data.

## 5. Where the code disagrees with its documents

Three disagreements are kept as runs and listed as findings: a restarted node votes twice in a term
(`leader_restart`), deletion of two ranges takes the message between them (`messages_asked`), and a
group topic with two owners (`access_owner`).

The others below were met on the way. For those in the table TLC finds a counterexample of the
formula given, when it is checked in place of the properties of the configuration named, changed as
the last column says. They are not kept as runs; the properties that are kept say what holds nevertheless.

| What happens | Formula | Configuration |
|---|---|---|
| A new leader announces its own list of active nodes, which only leaders update (`cluster_leader.go:161`), with the signature of a ring it made as a follower: followers rehash to the list and never match the signature | `\A l \in Nodes : <>[]Leads(l) => <>[](\A n \in Nodes : up[n] => ring[n] = ring[l])` | `ClusterLeaderConverge` |
| A follower left alone never considers itself partitioned (`cluster.go:859`; the comment at 850: "if the current node is a part of the smaller partition") | if one node is up for ever, it comes to have `Cardinality(Nodes) \div 2 >= Cardinality(activeNodes[n])` | `ClusterLeaderConverge` |
| `rehashSkipped` is not reset when signatures agree again (`cluster_leader.go:313`, comment at 265), so a node rehashes at once with a list that leaves it out, and `gcProxySessions` then looks itself up in vain and panics | `\A n \in Nodes : n \in ring[n]` | `ClusterLeaderSafety`, `MaxTerm = 1`, `MaxFaults = 3` |
| Requests in the queues of a topic that ends are never answered (`session.go:692`: "Hub will send Ctrl success/failure packets back to session"; 714: "topic will send a reply"). `AnsweredOrStranded` says it is the only way | `ses[s].awaiting ~> ~ses[s].awaiting \/ ses[s].conn # "open"` | `TopicLifecycleLive` |
| A topic stops for inactivity (`topic.go:516`, 529) with a session attached, which came after the timer fired | `obj[i].phase = "running" /\ obj[i].exit # <<>> => obj[i].sessions = {}` | `TopicLifecycleLive` |
| A failed load removes the name although a newer object is registered under it (`init_topic.go:66`): that object is in service and not registered. So do a load during shutdown (`init_topic.go:110`) and `stopTopicsForUser`, for which the name is gone while the object it saw was already replaced (`hub.go:600`) | `LiveIsRegistered` without `ByName` | `TopicLifecycleSafety`, "timeout", "delete" and one of "loaderror", "shutdown", "deluser", `MaxTopics = 3` |
| `stopTopicsForUser` does not count down `numTopics` (`hub.go:600`; 65: "Current number of loaded topics") | hub and stopper idle imply `numTopics = IF topic = None THEN 0 ELSE 1` | `TopicLifecycleSafety`, "deluser" and "timeout" only |
| The internal request for an emptied P2P topic has no packet; when the topic is already gone the hub dereferences it (`hub.go:461`; 387 says the request "may be sent internally") | `hub.pc # "panic"` | `TopicLifecycleSafety` |
| The routine that stops a deleted user's topics waits for ever for a topic that another routine stopped (`hub.go:603`) | `stopper.pc = "wait" ~> stopper.pc # "wait"` | `TopicLifecycleSafety`, fair, "deluser", "timeout", "delete" |
| Shutdown waits for ever for a topic that is being loaded (`init_topic.go:110`) | `shutdown = "waiting" ~> shutdown = "done"` | `TopicLifecycleSafety`, fair, "shutdown" only |
| `topicInit` unpauses a topic the hub suspended for deletion (`init_topic.go:129`; `hub.go:388`: "Tell topic to stop accepting requests") | `obj[i].phase = "running" /\ ~isInactive(i) => stored` | `TopicLifecycleSafety`, "delete" only |
| A message saved before the counter is read and posted after it is counted twice (`user.go:1008`; 951: "Caches unread counters") | `Quiet => (Known(u) => cache[u].unread = unread[u])` | `UserCache` |
| A failed attachment link is reported as a failed save (`store/store.go:1017`); the next messages get the number of the stored one and are refused until the topic is reloaded | `t.loaded => t.lastID + 1 \notin DOMAIN msgs` | `TopicMessagesSafety` |
| A delete ID is used twice after a failure between deletion and its recording (`store/store.go:1053`; `docs/API.md:1117`: "Each delete operation is assigned a unique `delete ID`") | `t.loaded => \A e \in dellog : e.delid < NextDelID` | `TopicMessagesSafety` |
| After a reload the received mark is behind the read mark (`topic.go:1238`; the comment at 2203 has "t.readID <= t.recvID"); `RecvReported` repairs what clients see | `t.loaded => t.perUser[u].readID <= t.perUser[u].recvID` | `TopicMessagesSafety` |
| Of the ranges [1,3) and 4 the second is not deleted and the deletion is confirmed: `Normalize` takes 4 for the neighbour of 3 and consumes it without widening the first (`store/types/types.go:1280`). Of three ranges, one that follows two merged ones is dropped too (1289) | `DeletedGone` | `TopicMessagesAsked` |
| {get del} reports a message as deleted that lies between two deletions, through the same merging as `messages_asked` | `LogReported` without `Apart` | `TopicMessagesAsked`, `MaxDel = 2`, `MaxRanges = 1` |
| A topic loses its owner (`docs/API.md:432`: "one user must remain the owner at all times"): the owner gives O to a cached channel reader, who has no subscription row to accept it with (`topic.go:2053`; the TODO at 1917 says "Rejecting for now") | `Owners # {}` | `TopicAccessOwner`, `Readers = {b}` |
| the same, when a {set sub} beside the topic was read before and written after an acceptance (`hub.go:294`) | `Owners # {}` | `TopicAccessOwner`, `Absent = {b}`, `MaxOutside = 1` |
| the same, when a database call fails during the transfer (`topic.go:1812`: "two owners are better than none") | `Owners # {}` | `TopicAccessOwner`, `MaxFaults = 1` |
| A user who bans the topic and repeats the same mode in {sub} is attached (`topic.go:1437`) | `AttachedAllowed` without "slipped" | `TopicAccessOwner` |
| A message is linked to a file after the collector selected it and before it deletes it: the file goes (`db/mysql/tenant_adapter.go:1731`; the tenant schema has no foreign key) | `[][\A l \in db.links : Stored(l.ten, l.file) /\ l \in db'.links => Stored(l.ten, l.file)']_vars` | `SharedStore` |
| A message is linked to a file that was collected before, and accepted (`db/mysql/tenant_adapter.go:1770`) | `\A l \in db.links : \E f \in Rows(db, "files", l.ten) : f.id = l.file` | `SharedStore` |

With `TopicAccessOwner` as it is, `Owners # {}` holds: without failures, readers and requests beside
the topic an owner remains.

The lists of exceptions in the properties of the storage are counterexamples as well: TLC refutes each
property when an entry is taken out.

- `Differences`: what the adapters do differently from the tenant methods. Among others: the soft
  deletion of a credential is undone or not reported in MySQL and PostgreSQL; PostgreSQL counts
  rows found where MySQL counts rows changed, and logs the ranges asked for instead of the messages
  found; MongoDB and RethinkDB have no unique key besides the identifier, so duplicates are taken.
- `LeavesOrphans`: the tenant schema (`docs/sql/mysql-multitenant-tenant-id-review.sql`) has no foreign
  keys, and rows without a parent stay.
- `RetryCompletes`: in MongoDB and RethinkDB `MessageDeleteList`, `TopicDelete`, `UserDelete` and others
  cannot be completed after they stopped half way. Others are, but move the use counters of files
  twice, among them `FileLinkAttachments`: the file that was just attached is left with a count of zero.
- `StaleTags`: a new login or password writes back tags read earlier (`user.go:361`) and undoes what a
  confirmation or deletion of a credential did in between. A response is checked against the pending
  address and confirms whichever is pending by then; a login and a deletion settle the same address.
- `CreatedWhole`: a creation whose answer is lost leaves the user's row, since only an error of a later
  call makes the handler delete it (`user.go:134`).
- `FailedUploadGone`: an error in the last write of the record (`hdl_files.go:335`) leaves record and
  contents: the clean-up that should follow dereferences the nil record it was just given.

In calls: a party that accepts without being attached and then disconnects is in no `t.sessions`, so
its departure does not end the call; and a departure that overtakes an invitation or an acceptance leaves
a call with a party that is gone. `CallSettled` and `TimerOfPending` hold nevertheless: such a call waits
for a hang-up, for the timer if nobody accepted, or for the end of the topic.

By reading only: once the owner is lost, accepting O updates the subscription of user zero
(`topic.go:1818`), which the adapter takes for every subscription of the topic; `msg_delete_age` skips
old messages while the unread counters go down by the whole ranges, and repeating a deletion for
everyone lowers them again; `SliceToRanges` never joins neighbouring numbers; cached channel readers
count towards `max_subscriber_count` (`docs/API.md:430`: "any number of read-only users"), and a
reader that leaves under the group's name stays cached (`topic.go:773`); an upload over gRPC that
succeeds never calls `FinishUpload`, so its record stays unfinished and is collected; S3 stores under `tenants/<id>/...` and serves by the bare file name;
the basic authenticator's `UpdateRecord` adds the login as a tag whether or not that is configured;
`replyUpdateUser` drops the error of `addCreds`; the soft `UserDelete` of RethinkDB ends with an error
after it disabled the user's subscriptions and topics, since the query for P2P topics fails; the review script names schema version 119 where
`adpVersion` is 117.

## 6. What is not modelled

- Routing of requests to other nodes: proxy and master topics, the pool that runs their clean-up,
  forwarding of users-cache requests. It is remote calls between copies of what is modelled; a node
  that goes takes its sessions along, which is in `Calls`.
- Presence and background sessions: who is shown as online is read by no part that is modelled.
- Version negotiation, dispatch and expiry of sessions, which check, pass on or depend on the clock.
- Users who come to a loaded topic or leave it, in `UserCache`: a topic registers all its users at once.
- A P2P topic with two subscribers, in `TopicLifecycle`: `initTopicP2P` gives the user who left a new
  subscription, after which a deletion takes one of them out and the topic stays.
- `me`, `fnd`, `slf` and `sys` topics; permissions of P2P topics; root users.
- Blocking of the hub and a topic on each other's bounded queues (`hub.go:454`): only the queues that
  refuse are bounded in `TopicLifecycle`.
- Schema creation and upgrade, connections and the text of queries of the adapters; the order and
  limits of results.
- Hashing of passwords, signing of tokens, templates and sending; HTTP headers and MIME types; S3 and
  the disk beyond "contents are there or not".
- Generated code, command-line tools, transports, payload formatting, push services and plugins: input
  and output without state that a property could be about. Consistent hashing, whose values are those
  of CRC32.
- `TopicMessages` with `Calls` and `TopicAccess` are not composed with `TopicLifecycle`: they have `Load` and
  `Unload` at any moment, which includes whatever `TopicLifecycle` does, for one live object at a time.

## 7. Keeping it

When a function named in the map of `PROJECT.json` changes, its definition changes with it, then the
runs of its module and the proofs that cite it. New statements of the tenant adapter belong in
`TenantMySQL`, where `Isolated` notices a missing condition. What would extend the project most: the
two `me` topics of presence with background sessions, a proxy topic with its master and the node between
them composed with the ring of `ClusterLeader`, and the hub's bounded queues.
