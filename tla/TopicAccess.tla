---------------------------- MODULE TopicAccess ----------------------------
(***************************************************************************)
(* Access to one group topic: subscribing, changing one's own or another   *)
(* user's permissions, transfer of ownership, unsubscribing and ejecting   *)
(* (topic.go), requests about a topic the session is not attached to       *)
(* (hub.go), and the subscriptions table of the MySQL adapter.             *)
(*                                                                         *)
(* The topic's goroutine handles one request at a time.  Two things are    *)
(* not atomic: a handler's sequence of database calls, which stops at the  *)
(* first one that fails (and that one may have taken effect), and the      *)
(* request of a session that is not attached, which a goroutine of its own *)
(* serves from the database, beside the topic.                             *)
(*                                                                         *)
(* A permission is a letter and a mode a set of letters.  A request that   *)
(* is refused changes nothing and is not a step.  Left out: messages, the  *)
(* number of subscribers that is only reported (subCnt), background        *)
(* sessions, the root user, suspended topics.                              *)
(***************************************************************************)
EXTENDS Integers, FiniteSets

CONSTANTS Users, Creator,
          NoOne,        \* the zero user ID
          Unset,        \* ModeUnset: no mode in the request
          Default,      \* accessAuth of the topic
          UserDefault,  \* Access.Auth of an invited user
          Wants,        \* modes users ask for themselves
          Grants,       \* modes users give to each other
          ModeCChnReader,
          Readers,      \* users who may address the topic as a channel
          Absent,       \* users who make requests from sessions not attached
          MaxSubscriberCount,
          MaxOnline,    \* bound: sessions a user is counted online with
          MaxFaults,    \* bound: database calls that fail, for a group ...
          MaxChanFaults, \* ... and for a channel
          MaxOutside    \* bound: requests of absent users

ASSUME UsersAssumption ==
    /\ Creator \in Users /\ NoOne \notin Users
    /\ Readers \subseteq Users /\ Absent \subseteq Users
\* AccessMode of store/types: ModeUnset is none of the modes.
Mode == SUBSET {"J", "R", "W", "P", "A", "S", "D", "O"}
ASSUME ModesAssumption ==
    /\ \A m \in Mode : m # Unset
    /\ Unset \in Wants \cap Grants /\ Wants \cup Grants \subseteq {Unset} \cup Mode
    /\ {Default, UserDefault, ModeCChnReader} \subseteq Mode
    /\ "O" \notin Default \cup UserDefault
    /\ {"J", "R"} \subseteq ModeCChnReader /\ ModeCChnReader \cap {"A", "O"} = {}
ASSUME BoundsAssumption ==
    /\ MaxSubscriberCount \in Nat /\ MaxOnline \in Nat /\ MaxFaults \in Nat
    /\ MaxChanFaults \in Nat /\ MaxOutside \in Nat

VARIABLES
    t,          \* the topic object: loaded, owner, perUser
    sessions,   \* user -> attached sessions, by the name they used
    subs,       \* table subscriptions, rows of grpXXX
    chnSubs,    \* table subscriptions, rows of chnXXX
    row,        \* its row of table topics: owner, usebt (whether it is a channel)
    pending,    \* user -> request being served from the database
    \* what happened so far
    offered,    \* users the owner offered the topic to and who may still have it
    banned,     \* users banned by a manager
    selfBanned, \* users who banned themselves, with the topic's knowledge
    unseen,     \* users whose row was changed behind the loaded topic
    upset,      \* what happened of "torn", "shared" and "slipped", see below
    faults,     \* failed database calls so far
    outside     \* requests of absent users so far

vars == <<t, sessions, subs, chnSubs, row, pending,
          offered, banned, selfBanned, unseen, upset, faults, outside>>

NoSess == [grp |-> 0, chn |-> 0]
NoRow == [state |-> "none", want |-> {}, given |-> {}]
Row(want, given) == [state |-> "live", want |-> want, given |-> given]
Entry(want, given, reader) ==
    [want |-> want, given |-> given, isChan |-> reader, online |-> 0]
Unloaded == [loaded |-> FALSE, owner |-> NoOne, perUser |-> <<>>]
Put(f, u, p) == [x \in DOMAIN f \cup {u} |-> IF x = u THEN p ELSE f[x]]
Without(f, u) == [x \in DOMAIN f \ {u} |-> f[x]]
Effective(p) == p.want \cap p.given
Owners == {u \in Users : subs[u].state = "live" /\ "O" \in Effective(subs[u])}
Shared == \E u, x \in Owners : u # x
IsAdmin(mode) == mode \cap {"O", "A"} # {}
IsSharer(mode) == mode \cap {"O", "A", "S"} # {}
\* verifyChannelAccess
MayUseAs(u, asChan) == asChan => row.usebt /\ u \in Readers
Attached(u) == sessions[u] # NoSess
Cached(u) == u \in DOMAIN t.perUser

CreatorMode == Default \cup {"J", "A", "O"}

\* initTopicNewGrp: the creator's subscription; the topic is not loaded.
Init ==
    /\ t = Unloaded /\ sessions = [u \in Users |-> NoSess]
    /\ subs = [u \in Users |-> IF u = Creator THEN Row(CreatorMode, CreatorMode) ELSE NoRow]
    /\ chnSubs = [u \in Users |-> NoRow]
    /\ row \in [owner : {Creator}, usebt : BOOLEAN] /\ pending = [u \in Users |-> NoOne]
    /\ offered = {Creator} /\ banned = {} /\ selfBanned = {} /\ unseen = {}
    /\ upset = {} /\ faults = 0 /\ outside = 0

--------------------------------------------------------------------------
\* The history of a step: bans, and what upset the topic.  It is "torn" when a request
\* from outside overwrote a transfer of ownership or a reader of the channel was given
\* the permissions of a subscriber (anotherUserSub means to reject that: topic.go:1917),
\* "shared" when two users owned it, and somebody "slipped" in who bans it.  Bans and
\* sharing are only followed as long as it is calm: not torn, and no call failed.
Calm == faults = 0 /\ "torn" \notin upset
Upset(torn, slipped) ==
    upset' = LET kept == upset \cup (IF slipped THEN {"slipped"} ELSE {}) IN
             CASE faults' > 0 -> kept \cap {"slipped"}
               [] faults' = 0 /\ (torn \/ "torn" \in upset) -> (kept \ {"shared"}) \cup {"torn"}
               [] OTHER -> kept \cup (IF Shared' THEN {"shared"} ELSE {})
Bans(banList, u, mode, ok) ==
    IF "J" \in mode THEN banList \ {u} ELSE IF ok THEN banList \cup {u} ELSE banList
Followed(byManager, bySelf) ==
    /\ banned' = IF Calm' THEN byManager ELSE {}
    /\ selfBanned' = IF Calm' THEN bySelf ELSE {}

\* A handler makes calls database calls and done of them take effect.
Calls(calls, done, ok) ==
    /\ ok => done = calls
    /\ ~ok => calls > 0 /\ faults < (IF row.usebt THEN MaxChanFaults ELSE MaxFaults)
    /\ faults' = IF ok THEN faults ELSE faults + 1
    /\ UNCHANGED outside

\* TenantTopicShare, createSubscription.
Create(u, want, given) ==
    /\ subs' = [subs EXCEPT ![u] = Row(want, given)]
    /\ row' = IF "O" \in want \cap given THEN [row EXCEPT !.owner = u] ELSE row

\* TenantSubsUpdate: also of a deleted row, of every row if the user is zero, and
\* of no row if there is none.
Updated(rows, u, want, given) ==
    [x \in Users |->
        IF u \in {x, NoOne} /\ rows[x].state # "none"
        THEN [rows[x] EXCEPT !.want = IF want = Unset THEN @ ELSE want,
                             !.given = IF given = Unset THEN @ ELSE given]
        ELSE rows[x]]
Column(new, old) == IF new = old THEN Unset ELSE new

\* TenantSubsDelete: ErrNotFound unless the row is live.
Deleted(rows, u) ==
    IF rows[u].state = "live" THEN [rows EXCEPT ![u].state = "deleted"] ELSE rows

\* evictUser
EvictedNotRemoved(perUser, u, unsub) ==
    IF u \in DOMAIN perUser THEN [perUser EXCEPT ![u].online = 0] ELSE perUser
Evicted(perUser, u, unsub) ==
    CASE u \notin DOMAIN perUser -> perUser
      [] u \in DOMAIN perUser /\ (unsub \/ perUser[u].isChan) ->
            Without(perUser, u)
      [] OTHER -> [perUser EXCEPT ![u].online = 0]
Evict(perUser, u, unsub) ==
    /\ t' = [t EXCEPT !.perUser = Evicted(perUser, u, unsub)]
    /\ sessions' = [sessions EXCEPT ![u] = NoSess]

--------------------------------------------------------------------------
\* loadSubscribers: any effective owner becomes the topic's.
Load ==
    /\ ~t.loaded
    /\ LET live == {u \in Users : subs[u].state = "live"} IN
       \E o \in IF Owners = {} THEN {NoOne} ELSE Owners :
          t' = [loaded |-> TRUE, owner |-> o,
                perUser |-> [u \in live |-> Entry(subs[u].want, subs[u].given, FALSE)]]
    /\ UNCHANGED <<sessions, subs, chnSubs, row, pending,
                   offered, banned, selfBanned, unseen, upset, faults, outside>>

\* The topic stops, or moves to another node, or the process dies.
Unload ==
    /\ t.loaded
    /\ t' = Unloaded /\ sessions' = [u \in Users |-> NoSess] /\ unseen' = {}
    /\ upset' = upset \ {"slipped"}
    /\ UNCHANGED <<subs, chnSubs, row, pending,
                   offered, banned, selfBanned, faults, outside>>

\* subscriptionReply: an unchanged mode counts as leave to join, even if the user
\* bans the topic; thisUserSub has returned an error if the managers ban the user.
JoinedIfWanted(p, changed) == changed => "J" \in p.want
Joined(p, changed) ==
    IF changed THEN "J" \in Effective(p) ELSE "J" \in p.want => "J" \in p.given

\* The end of thisUserSub, and the rest of subscriptionReply if it is a {sub}.
Settle(tt, u, p, changed, joining, asChan) ==
    LET banSelf == "J" \notin p.want
        put == Put(tt.perUser, u, p)
        perUser == IF banSelf THEN Evicted(put, u, FALSE) ELSE put
        left == IF banSelf THEN NoSess ELSE sessions[u]
        joined == joining /\ Joined(p, changed)
        data == IF u \in DOMAIN perUser THEN perUser[u] ELSE Entry({}, {}, FALSE)
    IN  /\ t' = [tt EXCEPT !.perUser =
                    IF joined THEN Put(perUser, u, [data EXCEPT !.online = @ + 1])
                              ELSE perUser]
        /\ sessions' = [sessions EXCEPT ![u] =
                          CASE joined /\ asChan -> [left EXCEPT !.chn = @ + 1]
                            [] joined /\ ~asChan -> [left EXCEPT !.grp = @ + 1]
                            [] OTHER -> left]

Room == Cardinality(DOMAIN t.perUser) < MaxSubscriberCount

\* The permissions of a user who subscribes again or is invited again.
GivenAnew(sub) == Default
GivenBefore(sub) == IF sub.state = "none" THEN Default ELSE sub.given
WantBefore(sub, given) == IF sub.state = "none" THEN UserDefault \cap given ELSE sub.want

\* {sub} by a user who is not cached.
NewSubscriber(u, mode) ==
    LET sub == subs[u]
        given == GivenBefore(sub)
        want == IF mode = Unset THEN Default ELSE mode
        calls == IF sub.state = "live" THEN 0 ELSE 1
    IN  /\ t.loaded /\ ~Cached(u) /\ Room
        /\ "J" \in given
        /\ \E done \in 0..calls, ok \in BOOLEAN :
             /\ Calls(calls, done, ok)
             /\ IF done = 1 THEN Create(u, want, given) ELSE UNCHANGED <<subs, row>>
             /\ IF ok THEN Settle(t, u, Entry(want, given, FALSE), TRUE, TRUE, FALSE)
                      ELSE UNCHANGED <<t, sessions>>
             /\ Upset(FALSE, FALSE)
             /\ Followed(banned, Bans(selfBanned, u, want, ok))
        /\ UNCHANGED <<chnSubs, pending, offered, unseen>>

\* {sub} to chnXXX by a reader who is not cached.
NewReader(u, mode) ==
    LET live == chnSubs[u].state = "live"
        oldWant == IF live THEN chnSubs[u].want ELSE ModeCChnReader
        want == IF mode = Unset THEN oldWant
                ELSE (mode \cap ModeCChnReader) \cup {"R", "J"}
        calls == IF live /\ want = oldWant THEN 0 ELSE 1
    IN  /\ t.loaded /\ ~Cached(u) /\ MayUseAs(u, TRUE)
        /\ \E done \in 0..calls, ok \in BOOLEAN :
             /\ Calls(calls, done, ok)
             /\ chnSubs' = CASE done = 0 -> chnSubs
                             [] done = 1 /\ live -> Updated(chnSubs, u, want, Unset)
                             [] OTHER -> [chnSubs EXCEPT ![u] = Row(want, ModeCChnReader)]
             /\ IF ok THEN Settle(t, u, Entry(want, ModeCChnReader, TRUE), TRUE, TRUE, TRUE)
                      ELSE UNCHANGED <<t, sessions>>
             /\ UNCHANGED <<subs, row>>
             /\ Upset(FALSE, FALSE)
             /\ Followed(banned, selfBanned)
        /\ UNCHANGED <<pending, offered, unseen>>

\* The permissions of the owner who hands the topic over.
StrippedWant(p) == [p EXCEPT !.want = @ \ {"O"}]
Stripped(p) == [p EXCEPT !.want = @ \ {"O"}, !.given = @ \ {"O"}]
OldOwner == IF Cached(t.owner) THEN t.perUser[t.owner] ELSE Entry({}, {}, FALSE)

\* What a cached user who asks for a mode, or for none, has afterwards.
OwnerChange(p, mode) == mode # Unset /\ "O" \in p.given \cap (mode \ p.want)
GivenAfter(p, mode) ==
    CASE mode = Unset -> p.given
      [] mode # Unset /\ "O" \in p.given \cap mode -> p.given \cup mode
      [] mode # Unset /\ "O" \notin p.given /\ "A" \in p.given \cap mode ->
            p.given \cup (mode \ {"D"})
      [] OTHER -> p.given
WantAfter(p, mode) ==
    CASE mode # Unset -> mode
      [] mode = Unset /\ "J" \notin p.want -> p.given \cup Default
      [] OTHER -> p.want
Changed(p, mode) == WantAfter(p, mode) # p.want \/ GivenAfter(p, mode) # p.given

\* {sub} (joining) or {set sub} by a cached user: permissions may be changed, and
\* a user offered the topic who asks for O becomes its owner.
ExistingSub(u, asChan, mode, joining) ==
    LET p == t.perUser[u]
        ownerChange == OwnerChange(p, mode)
        given == GivenAfter(p, mode)
        want == WantAfter(p, mode)
        changed == Changed(p, mode)
        stripped == Stripped(OldOwner)
        self == Updated(subs, u, Column(want, p.want), Column(given, p.given))
        calls == IF ownerChange THEN 3 ELSE IF changed THEN 1 ELSE 0
    IN  /\ asChan => p.isChan
        /\ mode # Unset => /\ t.owner = u => {"O", "J"} \subseteq mode
                           /\ "O" \in mode => "O" \in p.given
        /\ \E done \in 0..calls, ok \in BOOLEAN :
             /\ Calls(calls, done, ok)
             /\ subs' = CASE done = 0 -> subs
                          [] done = 1 -> self
                          [] OTHER -> Updated(self, t.owner, stripped.want, stripped.given)
             /\ row' = IF done = 3 THEN [row EXCEPT !.owner = u] ELSE row
             /\ IF ok
                THEN LET after == IF ownerChange
                                  THEN [t EXCEPT !.owner = u,
                                                 !.perUser = Put(@, t.owner, stripped)]
                                  ELSE t
                     IN  Settle(after, u, [p EXCEPT !.want = want, !.given = given],
                                changed, joining, asChan)
                ELSE UNCHANGED <<t, sessions>>
             /\ offered' = IF ok /\ ownerChange THEN (offered \ {t.owner}) \cup {u} ELSE offered
             /\ Upset(FALSE, joining /\ ok /\ ~changed /\ "J" \notin want)
             /\ Followed(IF IsAdmin(p.given) /\ "J" \in given THEN banned \ {u} ELSE banned,
                         Bans(selfBanned, u, want, ok /\ ~p.isChan /\ u \notin unseen))
        /\ UNCHANGED <<chnSubs, pending, unseen>>

\* registerSession, handleSubscription.
Rejoin(u, asChan, mode) ==
    /\ t.loaded /\ Cached(u) /\ t.perUser[u].online < MaxOnline
    /\ MayUseAs(u, asChan)
    /\ ExistingSub(u, asChan, mode, TRUE)

\* replySetSub about oneself.
SetSelf(u, mode) ==
    /\ Attached(u)
    /\ ExistingSub(u, FALSE, mode, FALSE)

\* replySetSub about another user who is not cached: an invitation.  What the user
\* wanted before is kept.
Invite(h, u, mode) ==
    LET sub == subs[u]
        given == IF mode = Unset THEN Default \cup {"J"} ELSE mode
        want == WantBefore(sub, given)
        put == Put(t.perUser, u, Entry(want, given, FALSE))
    IN  /\ Attached(h) /\ ~Cached(u) /\ Room
        /\ IsSharer(Effective(t.perUser[h]))
        /\ mode # Unset => IsAdmin(Effective(t.perUser[h])) /\ ("O" \in mode => t.owner = h)
        /\ "J" \in want
        /\ \E done \in 0..1, ok \in BOOLEAN :
             /\ Calls(1, done, ok)
             /\ IF done = 1 THEN Create(u, want, given) ELSE UNCHANGED <<subs, row>>
             /\ CASE ~ok -> UNCHANGED <<t, sessions>>
                  [] ok /\ "J" \notin given -> Evict(put, u, FALSE)
                  [] OTHER -> t' = [t EXCEPT !.perUser = put] /\ UNCHANGED sessions
             /\ offered' = IF "O" \in given THEN offered \cup {u} ELSE offered
             /\ Upset(FALSE, FALSE)
             /\ Followed(Bans(banned, u, given, ok), selfBanned)
        /\ UNCHANGED <<chnSubs, pending, unseen>>

\* replySetSub about another user who is cached, a reader of the channel included.
Grant(h, u, mode) ==
    LET p == t.perUser[u]
        put == [t.perUser EXCEPT ![u].given = mode]
    IN  /\ Attached(h) /\ Cached(u) /\ h # u
        /\ IsAdmin(Effective(t.perUser[h]))
        /\ mode # Unset /\ mode # p.given
        /\ "O" \in mode => t.owner = h
        /\ t.owner = u => {"O", "J"} \subseteq mode
        /\ \E done \in 0..1, ok \in BOOLEAN :
             /\ Calls(1, done, ok)
             /\ subs' = IF done = 1 THEN Updated(subs, u, Unset, mode) ELSE subs
             /\ CASE ~ok -> UNCHANGED <<t, sessions>>
                  [] ok /\ "J" \notin mode -> Evict(put, u, FALSE)
                  [] OTHER -> t' = [t EXCEPT !.perUser = put] /\ UNCHANGED sessions
             /\ offered' = IF "O" \in mode THEN offered \cup {u} ELSE offered
             /\ Upset(p.isChan, FALSE)
             /\ Followed(Bans(banned, u, mode, ok /\ ~p.isChan), selfBanned)
        /\ UNCHANGED <<chnSubs, row, pending, unseen>>

\* The same with no mode or the one the user has: the invitation is sent again, and
\* a user who may not join is evicted.
Reinvite(h, u) ==
    /\ Attached(h) /\ Cached(u) /\ h # u
    /\ IsSharer(Effective(t.perUser[h]))
    /\ "J" \notin t.perUser[u].given
    /\ Evict(t.perUser, u, FALSE)
    /\ UNCHANGED <<subs, chnSubs, row, pending,
                   offered, banned, selfBanned, unseen, upset, faults, outside>>

\* replyDelSub: a subscription that is not in the table is evicted all the same.
DelSub(h, u) ==
    LET calls == IF subs[u].state = "live" THEN 1 ELSE 0 IN
    /\ Attached(h) /\ Cached(u) /\ h # u
    /\ IsAdmin(Effective(t.perUser[h]))
    /\ "O" \notin Effective(t.perUser[u]) /\ "J" \in t.perUser[u].want
    /\ \E done \in 0..calls, ok \in BOOLEAN :
         /\ Calls(calls, done, ok)
         /\ subs' = IF done = 1 THEN Deleted(subs, u) ELSE subs
         /\ IF ok THEN Evict(t.perUser, u, TRUE) ELSE UNCHANGED <<t, sessions>>
         /\ Upset(FALSE, FALSE)
         /\ Followed(banned, selfBanned)
    /\ UNCHANGED <<chnSubs, row, pending, offered, unseen>>

AnyoneMayLeave(u) == TRUE
MayLeave(u) == t.owner # u

\* replyLeaveUnsub: nothing changes if there is no subscription in the table.
LeaveUnsub(u) ==
    LET reader == t.perUser[u].isChan IN
    /\ Attached(u) /\ MayLeave(u)
    /\ (IF reader THEN chnSubs ELSE subs)[u].state = "live"
    /\ \E done \in 0..1, ok \in BOOLEAN :
         /\ Calls(1, done, ok)
         /\ subs' = IF done = 1 /\ ~reader THEN Deleted(subs, u) ELSE subs
         /\ chnSubs' = IF done = 1 /\ reader THEN Deleted(chnSubs, u) ELSE chnSubs
         /\ IF ok THEN Evict(t.perUser, u, TRUE) ELSE UNCHANGED <<t, sessions>>
         /\ Upset(FALSE, FALSE)
         /\ Followed(banned, selfBanned)
    /\ UNCHANGED <<row, pending, offered, unseen>>

\* handleLeaveRequest: a session attached under the name of the channel that leaves
\* under the other one, or whose connection is lost, stays counted.
Leave(u, chanSub, asChan) ==
    LET online == t.perUser[u].online - 1 IN
    /\ sessions[u][IF chanSub THEN "chn" ELSE "grp"] > 0
    /\ MayUseAs(u, asChan)
    /\ sessions' = [sessions EXCEPT ![u][IF chanSub THEN "chn" ELSE "grp"] = @ - 1]
    /\ t' = CASE chanSub # asChan -> t
              [] asChan /\ chanSub /\ online = 0 ->
                    [t EXCEPT !.perUser = Without(@, u)]
              [] OTHER -> [t EXCEPT !.perUser[u].online = online]
    /\ UNCHANGED <<subs, chnSubs, row, pending,
                   offered, banned, selfBanned, unseen, upset, faults, outside>>

\* replyOfflineTopicSetSub reads the subscription and checks the request ...
OfflineGet(u, asChan, mode) ==
    LET sub == (IF asChan THEN chnSubs ELSE subs)[u] IN
    /\ u \in Absent /\ pending[u] = NoOne /\ outside < MaxOutside
    /\ MayUseAs(u, asChan)
    /\ sub.state = "live" /\ mode \notin {Unset, sub.want}
    /\ "O" \in mode <=> "O" \in sub.want
    /\ pending' = [pending EXCEPT ![u] = [asChan |-> asChan, mode |-> mode]]
    /\ outside' = outside + 1
    /\ UNCHANGED <<t, sessions, subs, chnSubs, row,
                   offered, banned, selfBanned, unseen, upset, faults>>

\* ... and then writes it.  A topic that is loaded is not told.
OfflinePut(u) ==
    LET req == pending[u] IN
    /\ req # NoOne
    /\ pending' = [pending EXCEPT ![u] = NoOne]
    /\ \E done \in 0..1, ok \in BOOLEAN :
         /\ Calls(1, done, ok)
         /\ subs' = IF done = 1 /\ ~req.asChan THEN Updated(subs, u, req.mode, Unset) ELSE subs
         /\ chnSubs' = IF done = 1 /\ req.asChan THEN Updated(chnSubs, u, req.mode, Unset)
                       ELSE chnSubs
    /\ unseen' = IF t.loaded /\ ~req.asChan THEN unseen \cup {u} ELSE unseen
    /\ Upset(("O" \in subs[u].want) # ("O" \in subs'[u].want), FALSE)
    /\ Followed(banned, IF req.asChan THEN selfBanned
                        ELSE Bans(selfBanned, u, req.mode, ~t.loaded))
    /\ UNCHANGED <<t, sessions, row, offered>>

Next ==
    \/ Load \/ Unload
    \/ \E u \in Users, m \in Wants :
          \/ NewSubscriber(u, m) \/ NewReader(u, m) \/ SetSelf(u, m)
          \/ \E c \in BOOLEAN : Rejoin(u, c, m) \/ OfflineGet(u, c, m)
    \/ \E h, u \in Users : \/ DelSub(h, u) \/ Reinvite(h, u)
                           \/ \E m \in Grants : Invite(h, u, m) \/ Grant(h, u, m)
    \/ \E u \in Users : \/ LeaveUnsub(u) \/ OfflinePut(u)
                        \/ \E s, c \in BOOLEAN : Leave(u, s, c)

Spec == Init /\ [][Next]_vars

-----------------------------------------------------------------------------
\* The topic row, the subscriptions and the loaded topic agree on one owner, as long
\* as it is calm and the topic never had two.  In particular it always has one, through
\* any number of transfers, reloads, bans and departures (API.md:432: "one user must
\* remain the owner at all times").
OwnersAgree ==
    Calm /\ "shared" \notin upset =>
        /\ Owners = {row.owner}
        /\ t.loaded => t.owner = row.owner

\* Whatever fails, nobody has O in the given permissions whom an owner did not give
\* it to; and a transfer that was confirmed took it from the old owner.
GivenByOwner ==
    /\ \A u \in Users : "O" \in subs[u].given => u \in offered
    /\ \A u \in DOMAIN t.perUser \cap Users : "O" \in t.perUser[u].given => u \in offered

\* A user banned by a manager stays banned until somebody gives J back: not by
\* unsubscribing and subscribing again (topic.go:1619), not by any request of the
\* user's own, and not by reloading the topic.  An administrator may undo a ban.  A
\* user who banned the topic is not brought back by others: not by ejecting and
\* inviting again (topic.go:3405), and not by reloading.
BansKept ==
    Calm => /\ \A u \in banned : "J" \notin subs[u].given
            /\ \A u \in selfBanned : "J" \notin subs[u].want

\* A user with a session in the topic is cached, counted online at least once for
\* every session, and allowed to join, unless somebody who bans the topic has asked
\* to join without changing that: subscriptionReply takes an unchanged mode for
\* leave to join.
AttachedAllowed ==
    \A u \in Users : Attached(u) =>
        /\ Cached(u)
        /\ t.perUser[u].online >= sessions[u].grp + sessions[u].chn
        /\ "slipped" \notin upset => "J" \in Effective(t.perUser[u])

\* As long as it is calm, unloading a topic and loading it again is invisible: what
\* is cached of the subscribers is what is stored, except for the wishes of those
\* who changed them behind the topic's back.
Subscriber(u) == Cached(u) /\ ~t.perUser[u].isChan
MirrorsStore ==
    t.loaded /\ Calm =>
        \A u \in Users :
            /\ Subscriber(u) <=> subs[u].state = "live"
            /\ Subscriber(u) => /\ t.perUser[u].given = subs[u].given
                                /\ u \notin unseen => t.perUser[u].want = subs[u].want
=============================================================================
