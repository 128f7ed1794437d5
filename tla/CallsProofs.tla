---------------------------- MODULE CallsProofs -----------------------------
(***************************************************************************)
(* Proofs about the messages of a topic and the calls in it, for any       *)
(* users, sessions, queues and bounds and any number of failed database    *)
(* calls.                                                                  *)
(*                                                                         *)
(* No accepted message is overwritten because the index refuses a number   *)
(* that is taken (MessagesShape), and a deletion leaves a mark.  The same  *)
(* index is what keeps the story of a call straight: "accepted" may be     *)
(* written and its answer lost, and then the topic, which takes the call   *)
(* for unanswered, can write nothing more about it, because the next       *)
(* number is taken (CurrentTold).  As long as nothing fails the next       *)
(* number is free (Numbered), so every call gets its end.                  *)
(*                                                                         *)
(* The last part is about marks and deletions.  Every step writes a        *)
(* message, moves marks, deletes, loads, unloads or does none of these     *)
(* (StepKind).  A read mark takes the received mark with it in the topic   *)
(* and leaves the column behind, but the number reported to a reader is    *)
(* the same (Mirrored).  What a request deletes is what its author is      *)
(* told, if it names one range: a longer list is sorted and merged first   *)
(* (Asked).                                                                *)
(***************************************************************************)
EXTENDS Calls, FiniteSetTheorems, SequenceTheorems, TLAPS

\* t is the record of the topic, with numbers in it.
TopicShape ==
    /\ t = [loaded |-> t.loaded, lastID |-> t.lastID, delID |-> t.delID, perUser |-> t.perUser]
    /\ t.lastID \in Nat /\ t.delID \in Nat
    /\ row = [seqid |-> row.seqid, delid |-> row.delid]
    /\ row.seqid \in Nat /\ row.delid \in Nat
    /\ faults \in Nat

MessagesShape ==
    /\ msgs = [n \in DOMAIN msgs |-> msgs[n]]
    /\ DOMAIN msgs \subseteq Nat \ {0}
    /\ said = [n \in DOMAIN said |-> said[n]]
    /\ DOMAIN said \subseteq DOMAIN msgs

Request == [sess : Sessions, what : {"invite", "accept", "hang-up"}, seq : Nat]
RequestsShape ==
    /\ clientMsg \in Seq(Request)
    /\ clientMsg # <<>> => t.loaded

\* The numbers of the messages are those up to the last, as long as nothing fails.
Numbered ==
    faults = 0 => /\ \A n \in DOMAIN msgs : n <= row.seqid
                  /\ t.loaded => t.lastID = row.seqid

\* Calls are known to a loaded topic; an originator, and one other party at most.
CallShape ==
    InCall =>
        /\ t.loaded
        /\ currentCall = [seq |-> currentCall.seq, parties |-> currentCall.parties,
                          originator |-> currentCall.originator]
        /\ currentCall.seq \in DOMAIN said
        /\ currentCall.originator \in Sessions
        /\ \/ currentCall.parties = {currentCall.originator}
           \/ \E s \in Sessions : /\ s # currentCall.originator
                                  /\ currentCall.parties = {currentCall.originator, s}

\* What is written of the current call.
CurrentTold ==
    InCall =>
        \/ Established /\ said[currentCall.seq] = <<"accepted">>
        \/ ~Established /\ said[currentCall.seq] = <<>>
        \/ /\ ~Established /\ said[currentCall.seq] = <<"accepted">>
           /\ t.lastID + 1 \in DOMAIN msgs

(* The inductive invariant. *)
CallInv ==
    /\ TopicShape /\ MessagesShape /\ timer \in BOOLEAN
    /\ Numbered /\ CallShape /\ CurrentTold
    /\ AckedKept /\ CallTold /\ CallSettled /\ TimerOfPending
Inv ==
    /\ CallInv /\ RequestsShape
    /\ ~iceServers => ~InCall /\ clientMsg = <<>>

-----------------------------------------------------------------------------
(* A call has one party or two. *)
LEMMA PartiesCounted ==
    ASSUME NEW x, NEW y, x # y
    PROVE  Cardinality({x}) = 1 /\ Cardinality({x, y}) = 2
<1>1. IsFiniteSet({x}) /\ Cardinality({x}) = 1
    BY FS_Singleton
<1>2. Cardinality({x} \cup {y}) = Cardinality({x}) + 1
    BY <1>1, FS_AddElement
<1>3. {x} \cup {y} = {x, y}
    OBVIOUS
<1> QED
    BY <1>1, <1>2, <1>3

(* A call is established when somebody besides the originator takes part. *)
LEMMA EstablishedParties ==
    ASSUME CallShape, InCall
    PROVE  Established <=> currentCall.parties # {currentCall.originator}
<1>1. CASE currentCall.parties = {currentCall.originator}
  <2>1. Cardinality({currentCall.originator}) = 1
    BY FS_Singleton
  <2> QED
    BY ONLY <1>1, <2>1 DEF Established
<1>2. CASE \E s \in Sessions : /\ s # currentCall.originator
                               /\ currentCall.parties = {currentCall.originator, s}
  <2>1. PICK s \in Sessions : /\ s # currentCall.originator
                              /\ currentCall.parties = {currentCall.originator, s}
    BY <1>2
  <2>2. Cardinality({currentCall.originator, s}) = 2
    BY Zenon, <2>1, PartiesCounted
  <2> QED
    BY ONLY <2>1, <2>2 DEF Established
<1> QED
    BY <1>1, <1>2 DEF CallShape

(* What Messages.Save and the topic do with one message, in which order the calls
   took effect and failed: messages that are there stay, the new one gets a number
   that was free, and without a failure it is accepted. *)
SavedAs(u, seq, insert, ok) ==
    /\ TopicShape' /\ Numbered'
    /\ t'.loaded = t.loaded
    /\ t'.lastID = IF ok THEN seq ELSE t.lastID
    /\ msgs' = [n \in DOMAIN msgs' |-> msgs'[n]]
    /\ DOMAIN msgs' = IF insert THEN DOMAIN msgs \cup {seq} ELSE DOMAIN msgs
    /\ insert => seq \notin DOMAIN msgs /\ msgs'[seq] = [from |-> u, delid |-> 0]
    /\ \A n \in DOMAIN msgs : msgs'[n] = msgs[n]
    /\ ok => insert
    /\ faults' = 0 => faults = 0 /\ ok

LEMMA SaveStep ==
    ASSUME TopicShape, MessagesShape, Numbered, t.loaded,
           NEW u, NEW bump \in BOOLEAN, NEW insert \in BOOLEAN, NEW mark \in BOOLEAN,
           NEW ok \in BOOLEAN,
           Save(u, t.lastID + 1, bump, insert, mark, ok),
           t' = IF ok THEN Accepted(u, t.lastID + 1) ELSE t
    PROVE  SavedAs(u, t.lastID + 1, insert, ok)
<1> DEFINE seq == t.lastID + 1
<1>1. /\ t' = [loaded |-> t'.loaded, lastID |-> t'.lastID, delID |-> t'.delID, perUser |-> t'.perUser]
      /\ t'.loaded = t.loaded /\ t'.delID = t.delID
      /\ t'.lastID = IF ok THEN seq ELSE t.lastID
    BY Zenon DEF TopicShape, Accepted
<1>2. /\ row' = [seqid |-> row'.seqid, delid |-> row'.delid]
      /\ row'.seqid = IF bump THEN seq ELSE row.seqid
      /\ row'.delid = row.delid
    BY DEF TopicShape, Save, Bumped
<1>3. faults' \in Nat /\ (faults' = 0 => faults = 0)
    BY DEF TopicShape, Save, Failed
<1>4. TopicShape'
    BY <1>1, <1>2, <1>3 DEF TopicShape
<1>5. /\ insert => bump /\ seq \notin DOMAIN msgs
      /\ ok => insert
    BY DEF Save, Insertable, Reported
<1>6. /\ msgs' = [n \in DOMAIN msgs' |-> msgs'[n]]
      /\ DOMAIN msgs' = IF insert THEN DOMAIN msgs \cup {seq} ELSE DOMAIN msgs
      /\ insert => msgs'[seq] = [from |-> u, delid |-> 0]
      /\ \A n \in DOMAIN msgs : msgs'[n] = msgs[n]
    BY Zenon, <1>5 DEF MessagesShape, Save
<1>7. faults' = 0 => ok
    BY <1>3 DEF Save, Failed, Insertable, Numbered, TopicShape
<1>8. Numbered'
    BY <1>1, <1>2, <1>3, <1>5, <1>6, <1>7 DEF Numbered, TopicShape, MessagesShape
<1> QED
    BY Zenon, <1>1, <1>3, <1>4, <1>5, <1>6, <1>7, <1>8 DEF SavedAs

LEMMA WriteStep ==
    ASSUME CallInv, t.loaded, NEW u, NEW written, NEW ok \in BOOLEAN, Write(u, written, ok)
    PROVE  \E insert \in BOOLEAN : /\ SavedAs(u, t.lastID + 1, insert, ok)
                                   /\ said' = IF insert THEN written ELSE said
<1>1. PICK bump \in BOOLEAN, insert \in BOOLEAN, mark \in BOOLEAN :
        /\ Save(u, t.lastID + 1, bump, insert, mark, ok)
        /\ t' = IF ok THEN Accepted(u, t.lastID + 1) ELSE t
        /\ said' = IF insert THEN written ELSE said
    BY DEF Write
<1>2. SavedAs(u, t.lastID + 1, insert, ok)
    BY <1>1, SaveStep DEF CallInv
<1> QED
    BY <1>1, <1>2

(* The messages that were accepted stay. *)
LEMMA AckedStep ==
    ASSUME AckedKept, NEW u, NEW seq, NEW insert \in BOOLEAN, NEW ok \in BOOLEAN,
           SavedAs(u, seq, insert, ok),
           acked' = acked \/ (ok /\ acked' = acked \cup {<<seq, u>>})
    PROVE  AckedKept'
<1> SUFFICES ASSUME NEW a \in acked'
             PROVE  /\ a[1] \in DOMAIN msgs'
                    /\ msgs'[a[1]].delid = 0 => msgs'[a[1]].from = a[2]
    BY DEF AckedKept
<1>1. CASE a \in acked
    BY <1>1 DEF AckedKept, SavedAs
<1>2. CASE ok /\ a = <<seq, u>>
    BY <1>2 DEF SavedAs
<1> QED
    BY <1>1, <1>2

(* Nothing the invariant is about changes. *)
LEMMA SameStep ==
    ASSUME CallInv, Same, UNCHANGED <<acked, lost>>
    PROVE  CallInv'
BY DEF CallInv, Same, TopicShape, MessagesShape, Numbered, CallShape, CurrentTold, AckedKept,
       CallTold, CallSettled, TimerOfPending, InCall, Established

-----------------------------------------------------------------------------
(* A state is added to what is written of the current call, or nothing is. *)
LEMMA ReplaceStep ==
    ASSUME CallInv, InCall, NEW state, NEW ok \in BOOLEAN, Replace(state, ok)
    PROVE  \E insert \in BOOLEAN :
              /\ SavedAs(UserOf[currentCall.originator], t.lastID + 1, insert, ok)
              /\ MessagesShape'
              /\ DOMAIN said' = DOMAIN said
              /\ \A n \in DOMAIN said : n # currentCall.seq => said'[n] = said[n]
              /\ said'[currentCall.seq] = IF insert THEN Append(said[currentCall.seq], state)
                                          ELSE said[currentCall.seq]
<1>1. PICK insert \in BOOLEAN :
        /\ SavedAs(UserOf[currentCall.originator], t.lastID + 1, insert, ok)
        /\ said' = IF insert THEN [said EXCEPT ![currentCall.seq] = Append(@, state)] ELSE said
    BY WriteStep DEF Replace, CallInv, CallShape
<1>2. /\ DOMAIN said' = DOMAIN said
      /\ \A n \in DOMAIN said : n # currentCall.seq => said'[n] = said[n]
      /\ said'[currentCall.seq] = IF insert THEN Append(said[currentCall.seq], state)
                                  ELSE said[currentCall.seq]
      /\ said' = [n \in DOMAIN said' |-> said'[n]]
    BY Zenon, <1>1 DEF CallInv, CallShape, MessagesShape
<1>3. t.lastID + 1 \in Nat \ {0}
    BY DEF CallInv, TopicShape
<1>4. MessagesShape'
    BY <1>1, <1>2, <1>3 DEF CallInv, MessagesShape, SavedAs
<1> QED
    BY Zenon, <1>1, <1>2, <1>4

(* An invitation. *)
LEMMA InviteInv ==
    ASSUME CallInv, t.loaded, NEW s \in Sessions, Invite(s), UNCHANGED lost
    PROVE  CallInv' /\ t'.loaded
<1> DEFINE seq == t.lastID + 1
           invited == [n \in DOMAIN said \cup {seq} |-> IF n = seq THEN <<>> ELSE said[n]]
<1>1. CASE Same /\ UNCHANGED acked
    BY <1>1, SameStep DEF Same
<1>2. CASE /\ ~InCall
           /\ \E ok \in BOOLEAN :
                /\ Write(UserOf[s], invited, ok)
                /\ acked' = IF ok THEN acked \cup {<<seq, UserOf[s]>>} ELSE acked
                /\ timer' = (timer \/ ok)
                /\ currentCall' = IF ok THEN [seq |-> seq, parties |-> {s}, originator |-> s]
                                  ELSE currentCall
  <2>1. PICK ok \in BOOLEAN :
                /\ Write(UserOf[s], invited, ok)
                /\ acked' = IF ok THEN acked \cup {<<seq, UserOf[s]>>} ELSE acked
                /\ timer' = (timer \/ ok)
                /\ currentCall' = IF ok THEN [seq |-> seq, parties |-> {s}, originator |-> s]
                                  ELSE currentCall
    BY <1>2
  <2>2. PICK insert \in BOOLEAN :
                /\ SavedAs(UserOf[s], seq, insert, ok)
                /\ said' = IF insert THEN invited ELSE said
    BY Zenon, <2>1, WriteStep
  <2>3. seq \in Nat \ {0}
    BY DEF CallInv, TopicShape
  <2>4. TopicShape' /\ Numbered' /\ t'.loaded
    BY <2>2 DEF SavedAs
  <2>5. insert => seq \notin DOMAIN said
    BY <2>2 DEF SavedAs, CallInv, MessagesShape
  <2>6. /\ said' = [n \in DOMAIN said' |-> said'[n]]
        /\ DOMAIN said' = IF insert THEN DOMAIN said \cup {seq} ELSE DOMAIN said
        /\ \A n \in DOMAIN said : said'[n] = said[n]
        /\ insert => said'[seq] = <<>>
    BY Zenon, <2>2, <2>5 DEF CallInv, MessagesShape
  <2>7. MessagesShape'
    BY <2>2, <2>3, <2>6 DEF CallInv, MessagesShape, SavedAs
  <2>8. AckedKept'
    BY <2>1, <2>2, AckedStep DEF CallInv
  <2>9. CallTold'
    BY <2>6 DEF CallInv, CallTold
  <2>10. CASE ok
    <3>1. /\ currentCall' = [seq |-> seq, parties |-> {s}, originator |-> s]
          /\ insert
      BY <2>1, <2>2, <2>10 DEF SavedAs
    <3>2. InCall' /\ ~Established'
      <4>1. Cardinality({s}) = 1
        BY Zenon, FS_Singleton
      <4>2. s # Node
        BY SessionsAssumption
      <4> QED
        BY <3>1, <4>1, <4>2 DEF InCall, Established, NoCall
    <3>3. CallShape' /\ CurrentTold'
      BY <2>4, <2>6, <3>1, <3>2 DEF CallShape, CurrentTold
    <3>4. TimerOfPending' /\ timer' \in BOOLEAN
      BY Zenon, <2>1, <2>10, <3>2 DEF TimerOfPending
    <3>5. CallSettled'
      <4>1. SUFFICES ASSUME faults' = 0, NEW n \in DOMAIN said', n # seq
                     PROVE  \/ \E i \in DOMAIN said'[n] : said'[n][i] \in Ends
                            \/ n \in lost
        BY Zenon, <3>1 DEF CallSettled
      <4>2. n \in DOMAIN said /\ n # 0 /\ said'[n] = said[n] /\ faults = 0
        BY <2>2, <2>6, <4>1 DEF SavedAs, CallInv, MessagesShape
      <4>3. currentCall.seq = 0
        BY <1>2 DEF InCall, NoCall
      <4> QED
        BY <4>2, <4>3 DEF CallInv, CallSettled
    <3> QED
      BY <2>4, <2>7, <2>8, <2>9, <3>3, <3>4, <3>5 DEF CallInv
  <2>11. CASE ~ok
    <3>1. ~InCall' /\ timer' = timer
      BY Zenon, <1>2, <2>1, <2>11 DEF InCall, CallInv
    <3>2. CallShape' /\ CurrentTold' /\ TimerOfPending' /\ timer' \in BOOLEAN
      BY Zenon, <1>2, <3>1 DEF CallShape, CurrentTold, TimerOfPending, CallInv
    <3>3. CallSettled'
      BY Zenon, <2>2, <2>11 DEF CallSettled, SavedAs
    <3> QED
      BY <2>4, <2>7, <2>8, <2>9, <3>2, <3>3 DEF CallInv
  <2> QED
    BY <2>4, <2>10, <2>11
<1> QED
    BY Zenon, <1>1, <1>2 DEF Invite, Busy

(* What a first and a second state make of what is written of a call. *)
LEMMA StatesAppended ==
    ASSUME NEW x, NEW y
    PROVE  Append(<<>>, y) = <<y>> /\ Append(<<x>>, y) = <<x, y>>
<1> DEFINE S == {x, y}
<1>1. x \in S /\ y \in S
    OBVIOUS
<1> HIDE DEF S
<1>2. <<x>> \in Seq(S) /\ <<x, y>> \in Seq(S)
    BY <1>1
<1>3. Append(<<x>>, y) \in Seq(S) /\ Len(Append(<<x>>, y)) = 2
    BY <1>1, <1>2, AppendProperties
<1>4. \A i \in 1..2 : Append(<<x>>, y)[i] = <<x, y>>[i]
    BY <1>1, <1>2
<1>5. Append(<<x>>, y) = <<x, y>>
    BY Zenon, <1>2, <1>3, <1>4, SeqEqual
<1>6. Append(<<>>, y) = <<y>>
    OBVIOUS
<1> QED
    BY <1>5, <1>6

(* Somebody accepts. *)
LEMMA AcceptInv ==
    ASSUME CallInv, InCall, NEW s \in Sessions, Accept(s), UNCHANGED <<acked, lost>>
    PROVE  CallInv' /\ t'.loaded
<1> DEFINE o == currentCall.originator
           c == currentCall.seq
<1>0. t.loaded
    BY DEF CallInv, CallShape
<1>1. CASE Same
    BY Zenon, <1>0, <1>1, SameStep DEF Same
<1>2. CASE /\ ~Established /\ UserOf[s] # UserOf[o]
           /\ \E ok \in BOOLEAN :
                /\ Replace("accepted", ok)
                /\ currentCall' = IF ok THEN [currentCall EXCEPT !.parties = @ \cup {s}]
                                  ELSE currentCall
                /\ timer' = (timer /\ ~ok)
  <2>1. PICK ok \in BOOLEAN :
                /\ Replace("accepted", ok)
                /\ currentCall' = IF ok THEN [currentCall EXCEPT !.parties = @ \cup {s}]
                                  ELSE currentCall
                /\ timer' = (timer /\ ~ok)
    BY <1>2
  <2>2. PICK insert \in BOOLEAN :
              /\ SavedAs(UserOf[o], t.lastID + 1, insert, ok)
              /\ MessagesShape'
              /\ DOMAIN said' = DOMAIN said
              /\ \A n \in DOMAIN said : n # c => said'[n] = said[n]
              /\ said'[c] = IF insert THEN Append(said[c], "accepted") ELSE said[c]
    BY Zenon, <2>1, ReplaceStep
  <2>3. TopicShape' /\ Numbered' /\ t'.loaded
    BY Zenon, <1>0, <2>2 DEF SavedAs
  <2>4. AckedKept'
    BY Zenon, <2>2, AckedStep DEF CallInv
  <2>5. insert => said[c] = <<>> /\ said'[c] = <<"accepted">>
    <3>1. insert => said[c] = <<>>
      BY <1>2, <2>2 DEF CallInv, CurrentTold, SavedAs
    <3> QED
      BY ONLY Zenon, <2>2, <3>1, StatesAppended
  <2>6. c \in DOMAIN said /\ currentCall.parties = {o} /\ o \in Sessions /\ s # o /\ timer
    BY Zenon, <1>2, EstablishedParties DEF CallInv, CallShape, TimerOfPending
  <2>7. CallTold'
    BY Zenon, <2>2, <2>5, <2>6 DEF CallInv, CallTold
  <2>8. CASE ok
    <3>1. /\ currentCall' = [seq |-> c, parties |-> {o, s}, originator |-> o]
          /\ insert
      BY Zenon, <2>1, <2>2, <2>6, <2>8 DEF SavedAs, CallInv, CallShape
    <3>2. InCall' /\ Established'
      <4>1. Cardinality({o, s}) = 2
        BY Zenon, <2>6, PartiesCounted
      <4>2. o # Node
        BY <2>6, SessionsAssumption
      <4> QED
        BY <3>1, <4>1, <4>2 DEF InCall, Established, NoCall
    <3>3. CallShape'
      BY <2>2, <2>3, <2>6, <3>1 DEF CallShape
    <3>4. CurrentTold'
      BY Zenon, <2>5, <3>1, <3>2 DEF CurrentTold
    <3>5. TimerOfPending' /\ timer' \in BOOLEAN
      BY Zenon, <2>1, <2>8, <3>2 DEF TimerOfPending
    <3>6. CallSettled'
      BY <2>2, <3>1 DEF CallSettled, CallInv, SavedAs
    <3> QED
      BY <2>2, <2>3, <2>4, <2>7, <3>3, <3>4, <3>5, <3>6 DEF CallInv
  <2>9. CASE ~ok
    <3>1. currentCall' = currentCall /\ timer' = timer /\ timer' \in BOOLEAN
      BY Zenon, <2>1, <2>9 DEF CallInv
    <3>2. CallShape'
      BY Zenon, <2>2, <2>3, <3>1 DEF CallInv, CallShape, InCall
    <3>3. CurrentTold'
      <4>1. InCall' /\ ~Established'
        BY Zenon, <1>2, <3>1 DEF InCall, Established
      <4>2. t'.lastID = t.lastID
        BY <2>2, <2>9 DEF SavedAs
      <4>3. CASE insert
        BY <2>2, <2>5, <3>1, <4>1, <4>2, <4>3 DEF CurrentTold, SavedAs
      <4>4. CASE ~insert
        BY <1>2, <2>2, <3>1, <4>1, <4>2, <4>4 DEF CurrentTold, SavedAs, CallInv
      <4> QED
        BY Zenon, <4>3, <4>4
    <3>4. TimerOfPending'
      BY Zenon, <3>1 DEF CallInv, TimerOfPending, InCall, Established
    <3>5. CallSettled'
      BY Zenon, <2>2, <2>9 DEF CallSettled, SavedAs
    <3> QED
      BY <2>2, <2>3, <2>4, <2>7, <3>1, <3>2, <3>3, <3>4, <3>5 DEF CallInv
  <2> QED
    BY Zenon, <2>3, <2>8, <2>9
<1> QED
    BY <1>1, <1>2 DEF Accept

(* The call ends, with a state that fits what was written before. *)
LEMMA EndCallInv ==
    ASSUME CallInv, InCall, NEW state \in Ends, EndCall(state), UNCHANGED <<acked, lost>>,
           IF Established THEN state \in {"finished", "disconnected"} ELSE state # "finished"
    PROVE  CallInv' /\ t'.loaded /\ ~InCall'
<1> DEFINE c == currentCall.seq
<1>1. PICK ok \in BOOLEAN : Replace(state, ok)
    BY Zenon DEF EndCall
<1>2. PICK insert \in BOOLEAN :
              /\ SavedAs(UserOf[currentCall.originator], t.lastID + 1, insert, ok)
              /\ MessagesShape'
              /\ DOMAIN said' = DOMAIN said
              /\ \A n \in DOMAIN said : n # c => said'[n] = said[n]
              /\ said'[c] = IF insert THEN Append(said[c], state) ELSE said[c]
    BY Zenon, <1>1, ReplaceStep
<1>3. TopicShape' /\ Numbered' /\ t'.loaded
    BY Zenon, <1>2 DEF SavedAs, CallInv, CallShape
<1>4. AckedKept'
    BY Zenon, <1>2, AckedStep DEF CallInv
<1>5. ~InCall' /\ ~timer' /\ timer' \in BOOLEAN
    BY Zenon DEF EndCall, CallOver, InCall, NoCall
<1>6. CallShape' /\ CurrentTold' /\ TimerOfPending'
    BY <1>5 DEF CallShape, CurrentTold, TimerOfPending
<1>7. c \in DOMAIN said
    BY DEF CallInv, CallShape
<1>8. insert => \/ Established /\ said'[c] = <<"accepted", state>>
                \/ ~Established /\ said'[c] = <<state>>
  <2>1. insert => \/ Established /\ said[c] = <<"accepted">>
                  \/ ~Established /\ said[c] = <<>>
    BY <1>2 DEF CallInv, CurrentTold, SavedAs
  <2> QED
    BY ONLY Zenon, <1>2, <2>1, StatesAppended
<1>9. CallTold'
    BY Zenon, <1>2, <1>7, <1>8 DEF CallInv, CallTold, Ends
<1>10. CallSettled'
  <2> SUFFICES ASSUME faults' = 0, NEW n \in DOMAIN said'
               PROVE  \/ \E i \in DOMAIN said'[n] : said'[n][i] \in Ends
                      \/ n \in lost
    BY DEF CallSettled
  <2>1. faults = 0 /\ insert
    BY Zenon, <1>2 DEF SavedAs
  <2>2. CASE n = c
    BY <1>8, <2>1, <2>2
  <2>3. CASE n # c
    BY Zenon, <1>2, <2>1, <2>3 DEF CallInv, CallSettled
  <2> QED
    BY <2>2, <2>3
<1> QED
    BY <1>2, <1>3, <1>4, <1>5, <1>6, <1>9, <1>10 DEF CallInv

-----------------------------------------------------------------------------
(* Somebody hangs up. *)
LEMMA HangUpInv ==
    ASSUME CallInv, InCall, NEW s \in Sessions, HangUp(s), UNCHANGED <<acked, lost>>
    PROVE  CallInv' /\ t'.loaded
<1>1. CASE Same
    BY <1>1, SameStep DEF Same, CallInv, CallShape
<1>2. CASE EndCall(HangUpState(s))
  <2>1. /\ HangUpState(s) \in Ends
        /\ IF Established THEN HangUpState(s) \in {"finished", "disconnected"}
           ELSE HangUpState(s) # "finished"
    BY DEF HangUpState, Ends
  <2> QED
    BY Zenon, <1>2, <2>1, EndCallInv
<1> QED
    BY Zenon, <1>1, <1>2 DEF HangUp

(* The topic takes a request. *)
LEMMA ReceiveInv ==
    ASSUME Inv, Receive
    PROVE  Inv'
<1> DEFINE m == Head(clientMsg)
<1>1. m.sess \in Sessions /\ t.loaded /\ clientMsg' \in Seq(Request)
  <2>1. m \in Request /\ clientMsg' \in Seq(Request)
    BY HeadTailProperties DEF Inv, RequestsShape, Receive
  <2> QED
    BY <2>1 DEF Request, Inv, RequestsShape, Receive
<1>2. CallInv' /\ t'.loaded
  <2>1. CASE Invite(m.sess)
    BY Zenon, <1>1, <2>1, InviteInv DEF Inv, Receive
  <2>2. CASE InCall /\ Accept(m.sess) /\ UNCHANGED acked
    BY Zenon, <1>1, <2>2, AcceptInv DEF Inv, Receive
  <2>3. CASE InCall /\ HangUp(m.sess) /\ UNCHANGED acked
    BY Zenon, <1>1, <2>3, HangUpInv DEF Inv, Receive
  <2>4. CASE Same /\ UNCHANGED acked
    BY Zenon, <1>1, <2>4, SameStep DEF Inv, Receive, Same
  <2> QED
    BY Zenon, <2>1, <2>2, <2>3, <2>4 DEF Receive
<1>3. iceServers /\ iceServers' = iceServers
    BY DEF Inv, Receive
<1> QED
    BY Zenon, <1>1, <1>2, <1>3 DEF Inv, RequestsShape

(* A session or a node departs. *)
LEMMA UnregisterInv ==
    ASSUME Inv, NEW s, Unregister(s)
    PROVE  Inv'
<1>1. CallInv' /\ (t.loaded => t'.loaded) /\ (InCall' => InCall)
  <2>1. CASE EndsCall(s) /\ EndCall("disconnected")
    <3>1. "disconnected" \in Ends
      BY Zenon DEF Ends
    <3> QED
      BY Zenon, <2>1, <3>1, EndCallInv DEF Inv, EndsCall, Unregister
  <2>2. CASE Same
    BY Zenon, <2>2, SameStep DEF Inv, Unregister, Same, InCall
  <2> QED
    BY Zenon, <2>1, <2>2 DEF Unregister
<1>2. clientMsg' = clientMsg /\ iceServers' = iceServers
    BY DEF Unregister
<1> QED
    BY Zenon, <1>1, <1>2 DEF Inv, RequestsShape

(* The timer fires: the call is not established. *)
LEMMA CallTimeoutInv ==
    ASSUME Inv, CallTimeout
    PROVE  Inv'
<1>1. InCall /\ ~Established
    BY DEF Inv, CallInv, TimerOfPending, CallTimeout
<1>2. EndCall("missed") /\ UNCHANGED <<acked, lost, clientMsg, iceServers>>
    BY <1>1 DEF CallTimeout
<1>3. "missed" \in Ends
    BY DEF Ends
<1>4. CallInv' /\ t'.loaded /\ ~InCall'
    BY Zenon, <1>1, <1>2, <1>3, EndCallInv DEF Inv
<1> QED
    BY Zenon, <1>2, <1>4 DEF Inv, RequestsShape

-----------------------------------------------------------------------------
(* A step of the messages alone. *)
LEMMA MessagesOnly ==
    ASSUME Inv, ~InCall, clientMsg = <<>>, UNCHANGED callVars, TopicShape', Numbered',
           AckedKept', msgs' = [n \in DOMAIN msgs' |-> msgs'[n]],
           DOMAIN msgs \subseteq DOMAIN msgs', DOMAIN msgs' \subseteq Nat \ {0},
           faults' = 0 => faults = 0
    PROVE  Inv'
<1>1. MessagesShape'
    BY DEF Inv, CallInv, MessagesShape, callVars
<1>2. ~InCall' /\ timer' = timer
    BY Zenon DEF InCall, callVars
<1>3. CallShape' /\ CurrentTold' /\ TimerOfPending'
    BY Zenon, <1>2 DEF CallShape, CurrentTold, TimerOfPending, Inv, CallInv
<1>4. CallTold' /\ CallSettled'
    BY Zenon DEF CallTold, CallSettled, Inv, CallInv, callVars
<1> QED
    BY Zenon, <1>1, <1>2, <1>3, <1>4 DEF Inv, CallInv, RequestsShape, callVars

LEMMA LoadInv ==
    ASSUME Inv, Load, UNCHANGED callVars
    PROVE  Inv'
<1>1. ~InCall /\ clientMsg = <<>>
    BY DEF Inv, CallInv, CallShape, RequestsShape, Load
<1>2. /\ t' = [loaded |-> TRUE, lastID |-> row.seqid, delID |-> row.delid, perUser |-> subs]
      /\ UNCHANGED <<row, msgs, acked, faults>>
    BY DEF Load, Stored, store
<1>3. TopicShape' /\ Numbered'
    BY Zenon, <1>2 DEF Inv, CallInv, TopicShape, Numbered
<1>4. AckedKept'
    BY Zenon, <1>2 DEF Inv, CallInv, AckedKept
<1> QED
    BY Zenon, <1>1, <1>2, <1>3, <1>4, MessagesOnly DEF Inv, CallInv, MessagesShape

LEMMA PublishInv ==
    ASSUME Inv, ~InCall, clientMsg = <<>>, NEW u \in Users, Publish(u), UNCHANGED callVars
    PROVE  Inv'
<1>1. PICK bump \in BOOLEAN, insert \in BOOLEAN, mark \in BOOLEAN, ok \in BOOLEAN :
        /\ Save(u, t.lastID + 1, bump, insert, mark, ok)
        /\ t' = IF ok THEN Accepted(u, t.lastID + 1) ELSE t
        /\ acked' = IF ok THEN acked \cup {<<t.lastID + 1, u>>} ELSE acked
    BY Zenon DEF Publish
<1>2. SavedAs(u, t.lastID + 1, insert, ok)
  <2>1. TopicShape /\ MessagesShape /\ Numbered /\ t.loaded
    BY Zenon DEF Publish, Inv, CallInv
  <2> QED
    BY Zenon, <1>1, <2>1, SaveStep
<1>3. AckedKept'
    BY <1>1, <1>2, AckedStep DEF Inv, CallInv
<1>4. t.lastID + 1 \in Nat \ {0}
    BY DEF Inv, CallInv, TopicShape
<1>5. /\ TopicShape' /\ Numbered' /\ msgs' = [n \in DOMAIN msgs' |-> msgs'[n]]
      /\ DOMAIN msgs \subseteq DOMAIN msgs' /\ DOMAIN msgs' \subseteq Nat \ {0}
      /\ faults' = 0 => faults = 0
    BY <1>2, <1>4 DEF SavedAs, Inv, CallInv, MessagesShape
<1> QED
    BY Zenon, <1>3, <1>5, MessagesOnly

(* Deletion marks messages with an ID that is not 0. *)
LEMMA DeleteMessagesInv ==
    ASSUME Inv, ~InCall, clientMsg = <<>>, NEW u, NEW hard, NEW delSeq,
           DeleteMessages(u, hard, delSeq), UNCHANGED callVars
    PROVE  Inv'
<1> DEFINE reallyHard == hard /\ u \in Deleters
           whom == IF reallyHard THEN Users ELSE {u}
           rs == SortNormalize([i \in DOMAIN delSeq |-> ToRange(delSeq[i])])
<1>1. PICK delete \in BOOLEAN, record \in BOOLEAN, mark \in BOOLEAN, ok \in BOOLEAN :
        /\ DeleteList(u, reallyHard, whom, rs, delete, record, mark, ok)
        /\ t' = IF ok THEN [t EXCEPT !.delID = NextDelID, !.perUser = MarkedFor(whom, @)] ELSE t
    BY Zenon DEF DeleteMessages
<1>2. t.loaded /\ UNCHANGED acked
    BY Zenon DEF DeleteMessages
<1> HIDE DEF reallyHard, whom, rs
<1>3. NextDelID \in Nat \ {0}
    BY DEF NextDelID, Inv, CallInv, TopicShape
<1>4. /\ t' = [loaded |-> t'.loaded, lastID |-> t'.lastID, delID |-> t'.delID, perUser |-> t'.perUser]
      /\ t'.loaded = t.loaded /\ t'.lastID = t.lastID /\ t'.delID \in Nat
    BY Zenon, <1>1, <1>3 DEF Inv, CallInv, TopicShape
<1>5. /\ row' = [seqid |-> row'.seqid, delid |-> row'.delid]
      /\ row'.seqid = row.seqid /\ row'.delid \in Nat
    BY <1>1, <1>3 DEF DeleteList, Inv, CallInv, TopicShape
<1>6. faults' \in Nat /\ (faults' = 0 => faults = 0)
    BY <1>1 DEF DeleteList, Failed, Inv, CallInv, TopicShape
<1>7. /\ msgs' = [n \in DOMAIN msgs |-> msgs'[n]]
      /\ \A n \in DOMAIN msgs : msgs'[n] = msgs[n] \/ msgs'[n].delid = NextDelID
    BY Zenon, <1>1 DEF DeleteList, Inv, CallInv, MessagesShape
<1>8. AckedKept'
    BY Zenon, <1>2, <1>3, <1>7 DEF AckedKept, Inv, CallInv
<1>9. TopicShape' /\ Numbered'
    BY Zenon, <1>4, <1>5, <1>6, <1>7 DEF TopicShape, Numbered, Inv, CallInv
<1> QED
    BY <1>6, <1>7, <1>8, <1>9, MessagesOnly DEF Inv, CallInv, MessagesShape

(* The other steps of a topic without calls: unloading, messages that get old,
   marks. *)
LEMMA MarksInv ==
    ASSUME Inv, ~InCall, clientMsg = <<>>, UNCHANGED callVars,
           \/ Unload \/ Age
           \/ \E u \in Users, what \in {"read", "recv"}, seq \in Seqs : Note(u, what, seq)
    PROVE  Inv'
<1>1. UNCHANGED <<row, msgs, acked>>
    BY Zenon DEF Unload, Age, Note, store
<1>2. faults' \in Nat /\ (faults' = 0 => faults = 0)
    BY DEF Unload, Age, Note, Failed, Inv, CallInv, TopicShape
<1>3. /\ t' = [loaded |-> t'.loaded, lastID |-> t'.lastID, delID |-> t'.delID, perUser |-> t'.perUser]
      /\ t'.lastID \in Nat /\ t'.delID \in Nat
      /\ t'.loaded => t.loaded /\ t'.lastID = t.lastID
  <2>1. CASE Unload
    BY Zenon, <2>1 DEF Unload, Unloaded
  <2>2. CASE Age
    BY Zenon, <2>2 DEF Age, Inv, CallInv, TopicShape
  <2>3. CASE \E u \in Users, what \in {"read", "recv"}, seq \in Seqs : Note(u, what, seq)
    BY <2>3 DEF Note, Inv, CallInv, TopicShape
  <2> QED
    BY Zenon, <2>1, <2>2, <2>3
<1>4. TopicShape' /\ Numbered'
    BY Zenon, <1>1, <1>2, <1>3 DEF TopicShape, Numbered, Inv, CallInv
<1>5. AckedKept'
    BY Zenon, <1>1 DEF AckedKept, Inv, CallInv
<1> QED
    BY <1>1, <1>2, <1>4, <1>5, MessagesOnly DEF Inv, CallInv, MessagesShape

(* The topic is unloaded during a call. *)
LEMMA ForgetInv ==
    ASSUME Inv, Forget
    PROVE  Inv'
<1>1. /\ t' = [loaded |-> FALSE, lastID |-> 0, delID |-> 0, perUser |-> [u \in Users |-> Zero]]
      /\ UNCHANGED <<row, msgs, acked, faults, said, iceServers>>
      /\ ~InCall' /\ ~timer' /\ timer' \in BOOLEAN /\ clientMsg' = <<>>
    BY Zenon DEF Forget, Unload, Unloaded, store, InCall
<1>2. TopicShape' /\ MessagesShape' /\ Numbered' /\ AckedKept' /\ CallTold'
    BY <1>1 DEF TopicShape, MessagesShape, Numbered, AckedKept, CallTold, Inv, CallInv
<1>3. CallShape' /\ CurrentTold' /\ TimerOfPending'
    BY <1>1 DEF CallShape, CurrentTold, TimerOfPending
<1>4. CallSettled'
  <2> SUFFICES ASSUME faults' = 0, NEW n \in DOMAIN said'
               PROVE  \/ \E i \in DOMAIN said'[n] : said'[n][i] \in Ends
                      \/ n \in lost'
    BY DEF CallSettled
  <2>1. lost \subseteq lost' /\ (InCall => currentCall.seq \in lost')
    BY DEF Forget
  <2>2. ~InCall => currentCall.seq # n
    BY <1>1 DEF InCall, NoCall, Inv, CallInv, MessagesShape
  <2> QED
    BY Zenon, <1>1, <2>1, <2>2 DEF CallSettled, Inv, CallInv
<1>5. RequestsShape'
    BY <1>1 DEF RequestsShape
<1> QED
    BY <1>1, <1>2, <1>3, <1>4, <1>5 DEF Inv, CallInv

(* A session attaches, asks to leave, or sends a request. *)
LEMMA SessionInv ==
    ASSUME Inv, NEW s,
           \/ Attach(s) \/ Leave(s) \/ (s \in Sessions /\ \E m \in Requests(s) : Send(s, m))
    PROVE  Inv'
<1>1. Same /\ UNCHANGED <<acked, lost, iceServers>>
    BY DEF Attach, Leave, Send, Same, vars
<1>2. CallInv' /\ InCall' = InCall /\ t'.loaded = t.loaded
    BY Zenon, <1>1, SameStep DEF Inv, Same, InCall
<1>3. RequestsShape'
  <2>1. CASE clientMsg' = clientMsg
    BY Zenon, <1>2, <2>1 DEF RequestsShape, Inv
  <2>2. CASE s \in Sessions /\ \E m \in Requests(s) : Send(s, m)
    <3>1. PICK m \in Requests(s) : Send(s, m)
      BY Zenon, <2>2
    <3>2. m \in Request
      BY <2>2 DEF Requests, Request, Inv, CallInv, MessagesShape
    <3>3. clientMsg' = Append(clientMsg, m) /\ t.loaded
      BY Zenon, <3>1 DEF Send
    <3> QED
      BY <1>2, <3>2, <3>3, AppendProperties DEF RequestsShape, Inv
  <2> QED
    BY Zenon, <2>1, <2>2 DEF Attach, Leave
<1>4. ~iceServers => clientMsg' = clientMsg
    BY DEF Attach, Leave, Send
<1> QED
    BY Zenon, <1>1, <1>2, <1>3, <1>4 DEF Inv

-----------------------------------------------------------------------------
LEMMA InvStep == Inv /\ [CallNext]_allVars => Inv'
<1> SUFFICES ASSUME Inv, [CallNext]_allVars
             PROVE  Inv'
    OBVIOUS
<1>1. CASE ~iceServers /\ Next /\ UNCHANGED callVars
  <2>1. ~InCall /\ clientMsg = <<>>
    BY <1>1 DEF Inv
  <2> QED
    BY <1>1, <2>1, LoadInv, MarksInv, PublishInv, DeleteMessagesInv DEF Next
<1>2. CASE iceServers /\ Load /\ UNCHANGED callVars
    BY Zenon, <1>2, LoadInv
<1>3. CASE Forget
    BY Zenon, <1>3, ForgetInv
<1>4. CASE Receive
    BY Zenon, <1>4, ReceiveInv
<1>5. CASE CallTimeout
    BY Zenon, <1>5, CallTimeoutInv
<1>6. CASE \E s \in Sessions : Attach(s) \/ \E m \in Requests(s) : Send(s, m)
    BY Zenon, <1>6, SessionInv
<1>7. CASE \E s \in Sessions \cup {Node} : Leave(s) \/ Unregister(s)
    BY Zenon, <1>7, SessionInv, UnregisterInv
<1>8. CASE UNCHANGED allVars
  <2>1. Same /\ UNCHANGED <<acked, lost, iceServers, clientMsg>>
    BY Zenon, <1>8 DEF allVars, vars, callVars, Same
  <2>2. CallInv'
    BY Zenon, <2>1, SameStep DEF Inv
  <2> QED
    BY Zenon, <2>1, <2>2 DEF Inv, RequestsShape, Same, InCall
<1> QED
    BY <1>1, <1>2, <1>3, <1>4, <1>5, <1>6, <1>7, <1>8 DEF CallNext

LEMMA InitInv == CallInit => Inv
<1> SUFFICES ASSUME CallInit
             PROVE  Inv
    OBVIOUS
<1>1. /\ t = Unloaded /\ row = [seqid |-> 0, delid |-> 0] /\ msgs = <<>> /\ acked = {}
      /\ faults = 0 /\ currentCall = NoCall /\ timer = FALSE /\ clientMsg = <<>> /\ said = <<>>
    BY Zenon DEF CallInit, Init
<1>2. TopicShape
    BY Zenon, <1>1 DEF TopicShape, Unloaded
<1>3. DOMAIN msgs = {} /\ DOMAIN said = {}
    BY <1>1
<1>4. MessagesShape /\ Numbered /\ AckedKept /\ CallTold /\ CallSettled
    BY <1>1, <1>3 DEF MessagesShape, Numbered, AckedKept, CallTold, CallSettled, Unloaded
<1>5. ~InCall /\ CallShape /\ CurrentTold /\ TimerOfPending /\ timer \in BOOLEAN
    BY Zenon, <1>1 DEF InCall, CallShape, CurrentTold, TimerOfPending
<1>6. RequestsShape
    BY <1>1 DEF RequestsShape
<1> QED
    BY Zenon, <1>1, <1>2, <1>4, <1>5, <1>6 DEF Inv, CallInv

(* The invariant holds throughout. *)
THEOREM CallsCorrect == CallSpec => []Inv
BY InitInv, InvStep, PTL DEF CallSpec

(* No accepted message is lost or overwritten, with calls or without. *)
THEOREM AckedCorrect == CallSpec => []AckedKept
<1>1. Inv => AckedKept
    BY DEF Inv, CallInv
<1> QED
    BY <1>1, CallsCorrect, PTL

(* What is written of a call can be followed. *)
THEOREM ToldCorrect == CallSpec => []CallTold
<1>1. Inv => CallTold
    BY DEF Inv, CallInv
<1> QED
    BY <1>1, CallsCorrect, PTL

(* Without a failure every call gets its end, unless it is forgotten. *)
THEOREM SettledCorrect == CallSpec => []CallSettled
<1>1. Inv => CallSettled
    BY DEF Inv, CallInv
<1> QED
    BY <1>1, CallsCorrect, PTL

(* The timer is that of a call that waits to be accepted. *)
THEOREM TimerCorrect == CallSpec => []TimerOfPending
<1>1. Inv => TimerOfPending
    BY DEF Inv, CallInv
<1> QED
    BY <1>1, CallsCorrect, PTL


-----------------------------------------------------------------------------
(* The steps, as far as they touch messages, marks and deletions: a message is
   written, by a client or about a call; marks move; messages are deleted. *)
Saves(u) ==
    /\ t.loaded
    /\ \E bump, insert, mark, ok \in BOOLEAN :
          /\ Save(u, t.lastID + 1, bump, insert, mark, ok)
          /\ t' = IF ok THEN Accepted(u, t.lastID + 1) ELSE t
    /\ UNCHANGED <<dellog, gone, old>>
Notes(u) == \E what \in {"read", "recv"}, seq \in Seqs : Note(u, what, seq)
Deletes(u) == \E hard \in BOOLEAN, delSeq \in Lists(MaxRanges) : DeleteMessages(u, hard, delSeq)
Rests == UNCHANGED <<t, row, msgs, dellog, subs, gone, faults>> /\ old' \in {old, row.seqid}
StepKind == \/ Rests \/ Load \/ Unload
            \/ \E u \in Users : Saves(u) \/ Notes(u) \/ Deletes(u)

LEMMA WriteKind ==
    ASSUME t.loaded, NEW u \in Users, NEW written, NEW ok \in BOOLEAN, Write(u, written, ok),
           UNCHANGED <<dellog, gone, old>>
    PROVE  StepKind
<1>1. Saves(u)
    BY Zenon DEF Write, Saves
<1> QED
    BY Zenon, <1>1 DEF StepKind

LEMMA ReplaceKind ==
    ASSUME CallInv, InCall, NEW state, NEW ok \in BOOLEAN, Replace(state, ok),
           UNCHANGED <<dellog, gone, old>>
    PROVE  StepKind
<1>1. t.loaded /\ currentCall.originator \in Sessions
    BY Zenon DEF CallInv, CallShape
<1>2. UserOf[currentCall.originator] \in Users
    BY Zenon, <1>1, SessionsAssumption
<1> QED
    BY Zenon, <1>1, <1>2, WriteKind DEF Replace

LEMMA EndCallKind ==
    ASSUME CallInv, InCall, NEW state, EndCall(state), UNCHANGED <<dellog, gone, old>>
    PROVE  StepKind
    BY Zenon, ReplaceKind DEF EndCall

LEMMA SameKind == ASSUME Same, UNCHANGED <<dellog, gone, old>> PROVE StepKind
    BY Zenon DEF Same, StepKind, Rests

LEMMA ReceiveKind == ASSUME Inv, Receive PROVE StepKind
<1> DEFINE m == Head(clientMsg)
<1>1. m \in Request /\ t.loaded /\ CallInv
    BY HeadTailProperties DEF Receive, Inv, RequestsShape
<1>2. m.sess \in Sessions /\ UserOf[m.sess] \in Users
    BY <1>1, SessionsAssumption DEF Request
<1>3. UNCHANGED <<dellog, gone, old>>
    BY Zenon DEF Receive
<1>4. \/ Invite(m.sess)
      \/ InCall /\ (Accept(m.sess) \/ HangUp(m.sess))
      \/ Same
    BY Zenon DEF Receive
<1> HIDE DEF m
<1>5. CASE Invite(m.sess)
    BY Zenon, <1>1, <1>2, <1>3, <1>5, WriteKind, SameKind DEF Invite
<1>6. CASE InCall /\ Accept(m.sess)
    BY Zenon, <1>1, <1>3, <1>6, ReplaceKind, SameKind DEF Accept
<1>7. CASE InCall /\ HangUp(m.sess)
    BY Zenon, <1>1, <1>3, <1>7, EndCallKind, SameKind DEF HangUp
<1> QED
    BY Zenon, <1>3, <1>4, <1>5, <1>6, <1>7, SameKind

LEMMA Kinds == ASSUME Inv, [CallNext]_allVars PROVE StepKind
<1>1. CASE Next
  <2>1. CASE Load \/ Unload
    BY Zenon, <2>1 DEF StepKind
  <2>2. CASE Age
    BY Zenon, <2>2 DEF Age, store, StepKind, Rests
  <2>3. ASSUME NEW u \in Users, Publish(u) PROVE StepKind
    <3>1. Saves(u)
      BY Zenon, <2>3 DEF Publish, Saves
    <3> QED
      BY Zenon, <3>1 DEF StepKind
  <2>4. ASSUME NEW u \in Users, Notes(u) \/ Deletes(u) PROVE StepKind
    BY Zenon, <2>4 DEF StepKind
  <2> QED
    BY Zenon, <1>1, <2>1, <2>2, <2>3, <2>4 DEF Next, Notes, Deletes
<1>2. CASE Load \/ Forget
    BY Zenon, <1>2 DEF Forget, StepKind
<1>3. CASE Receive
    BY Zenon, <1>3, ReceiveKind
<1>4. CASE CallTimeout
    BY Zenon, <1>4, EndCallKind DEF CallTimeout, Inv, StepKind, Rests
<1>5. ASSUME NEW s, Attach(s) \/ Leave(s) \/ \E m \in Requests(s) : Send(s, m) PROVE StepKind
    BY Zenon, <1>5 DEF Attach, Leave, Send, vars, StepKind, Rests
<1>6. ASSUME NEW s, Unregister(s) PROVE StepKind
    BY Zenon, <1>6, EndCallKind, SameKind DEF Unregister, EndsCall, Inv
<1>7. CASE UNCHANGED allVars
    BY Zenon, <1>7 DEF allVars, vars, StepKind, Rests
<1> QED
    BY Zenon, <1>1, <1>2, <1>3, <1>4, <1>5, <1>6, <1>7 DEF CallNext

-----------------------------------------------------------------------------
(* What is known of marks and deletions. *)
Marks == [readID : Nat, recvID : Nat, delID : Nat]
MarksShape == /\ t.perUser \in [Users -> Marks] /\ subs \in [Users -> Marks]
              /\ gone \in [Users -> SUBSET Nat] /\ old \in Nat

\* The number of a message whose deletion was confirmed is never given again.
Passed ==
    /\ t.loaded => t.lastID <= row.seqid
    /\ \A u \in Users : \A n \in gone[u] : n <= (IF t.loaded THEN t.lastID ELSE row.seqid)

\* The topic and the database have the same marks, but for a received mark that a
\* read mark overtook.
Mirrored ==
    t.loaded /\ faults = 0 =>
        /\ t.delID = row.delid
        /\ \A u \in Users : t.perUser[u].delID = subs[u].delID
        /\ \A u \in Readers : /\ t.perUser[u].readID = subs[u].readID
                              /\ RecvReported(t.perUser[u]) = RecvReported(subs[u])

\* What is deleted for a user was asked for.
Asked ==
    faults = 0 => \A u \in Users :
        /\ \A n \in DOMAIN msgs : msgs[n].delid # 0 => n \in gone[u]
        /\ \A e \in dellog : e.for = u => \A n \in Nat : LogCovers(e, n) => n \in gone[u]

MessagesInv == /\ MarksShape /\ Passed /\ Mirrored
               /\ MaxRanges = 1 => DeletedGone /\ Asked

LEMMA RestsStep == ASSUME Inv, MessagesInv, Rests PROVE MessagesInv'
<1>1. MarksShape' /\ Passed'
    BY Zenon DEF Inv, CallInv, TopicShape, MessagesInv, MarksShape, Passed, Rests
<1>2. Mirrored'
    BY Zenon DEF MessagesInv, Mirrored, Rests
<1>3. (MaxRanges = 1 => DeletedGone /\ Asked)'
    BY Zenon DEF MessagesInv, DeletedGone, Asked, GetAll, Rests
<1> QED
    BY Zenon, <1>1, <1>2, <1>3 DEF MessagesInv

LEMMA LoadStep == ASSUME Inv, MessagesInv, Load \/ Unload PROVE MessagesInv'
<1>1. /\ UNCHANGED <<row, msgs, dellog, subs, gone, faults, old>>
      /\ \/ ~t.loaded /\ t' = Stored
         \/ t.loaded /\ t' = Unloaded
    BY Zenon DEF Load, Unload, store
<1>2. row.seqid \in Nat /\ t.lastID \in Nat
    BY Zenon DEF Inv, CallInv, TopicShape
<1>3. \/ /\ ~t.loaded /\ t'.loaded /\ t'.lastID = row.seqid /\ t'.delID = row.delid
         /\ t'.perUser = subs
      \/ t.loaded /\ ~t'.loaded /\ t'.perUser = [u \in Users |-> Zero]
    BY <1>1 DEF Stored, Unloaded
<1>4. [u \in Users |-> Zero] \in [Users -> Marks]
    BY DEF Zero, Marks
<1>5. MarksShape'
    BY Zenon, <1>1, <1>3, <1>4 DEF MessagesInv, MarksShape
<1>6. Passed'
    BY <1>1, <1>2, <1>3 DEF MessagesInv, Passed, MarksShape
<1>7. Mirrored'
    BY Zenon, <1>1, <1>3 DEF Mirrored
<1>8. (MaxRanges = 1 => DeletedGone /\ Asked)'
    BY Zenon, <1>1 DEF MessagesInv, DeletedGone, Asked, GetAll
<1> QED
    BY Zenon, <1>5, <1>6, <1>7, <1>8 DEF MessagesInv

(* A message is written: it gets a number that no deletion was confirmed of, and
   its sender's marks are those of the column. *)
LEMMA SavesStep == ASSUME Inv, MessagesInv, NEW u \in Users, Saves(u) PROVE MessagesInv'
<1>1. PICK bump \in BOOLEAN, insert \in BOOLEAN, mark \in BOOLEAN, ok \in BOOLEAN :
        /\ Save(u, t.lastID + 1, bump, insert, mark, ok)
        /\ t' = IF ok THEN Accepted(u, t.lastID + 1) ELSE t
    BY Zenon DEF Saves
<1> DEFINE seq == t.lastID + 1
<1>2. t.loaded /\ UNCHANGED <<dellog, gone, old>>
    BY Zenon DEF Saves
<1>3. SavedAs(u, seq, insert, ok)
    BY Zenon, <1>1, <1>2, SaveStep DEF Inv, CallInv
<1>4. /\ t.lastID \in Nat /\ row.seqid \in Nat /\ seq \in Nat /\ seq > t.lastID
      /\ t = [loaded |-> t.loaded, lastID |-> t.lastID, delID |-> t.delID, perUser |-> t.perUser]
      /\ row = [seqid |-> row.seqid, delid |-> row.delid]
      /\ DOMAIN msgs \subseteq Nat
    BY DEF Inv, CallInv, TopicShape, MessagesShape
<1>5. /\ t'.loaded = t.loaded /\ t'.delID = t.delID
      /\ t'.lastID = IF ok THEN seq ELSE t.lastID
      /\ t'.perUser = IF ok THEN [t.perUser EXCEPT ![u] = [@ EXCEPT !.readID = seq, !.recvID = seq]]
                      ELSE t.perUser
    BY Zenon, <1>1, <1>4 DEF Accepted
<1>6. /\ row'.seqid = IF bump THEN seq ELSE row.seqid
      /\ row'.delid = row.delid
      /\ ok => bump
    BY <1>1, <1>4 DEF Save, Bumped, Reported
<1>7. /\ subs' = IF mark THEN [subs EXCEPT ![u] = [@ EXCEPT !.readID = seq, !.recvID = seq]]
                ELSE subs
      /\ mark => u \in Readers
    BY Zenon, <1>1 DEF Save, MessagesInv, MarksShape, Marks
<1>8. faults' = 0 => faults = 0 /\ ok /\ (mark <=> u \in Readers)
  <2>1. faults' = 0 => faults = 0 /\ ok
    BY Zenon, <1>3 DEF SavedAs
  <2>2. faults' = 0 => (ok /\ mark = (u \in Readers)) \/ ~insert
    BY <1>1 DEF Save, Failed, Inv, CallInv, TopicShape
  <2> QED
    BY Zenon, <2>1, <2>2, <1>3 DEF SavedAs
<1> HIDE DEF seq
<1>9. MarksShape'
  <2>1. t.perUser \in [Users -> Marks] /\ subs \in [Users -> Marks]
    BY Zenon DEF MessagesInv, MarksShape
  <2>2. ASSUME NEW f \in [Users -> Marks]
        PROVE  [f EXCEPT ![u] = [@ EXCEPT !.readID = seq, !.recvID = seq]] \in [Users -> Marks]
    BY Zenon, <1>4 DEF Marks
  <2>3. t'.perUser \in [Users -> Marks] /\ subs' \in [Users -> Marks]
    BY Zenon, <1>5, <1>7, <2>1, <2>2
  <2> QED
    BY Zenon, <1>2, <2>3 DEF MessagesInv, MarksShape
<1>10. Passed'
    BY <1>2, <1>4, <1>5, <1>6 DEF MessagesInv, Passed, MarksShape
<1>11. Mirrored'
  <2> SUFFICES ASSUME faults' = 0 PROVE Mirrored'
    BY Zenon DEF Mirrored
  <2>1. Mirrored /\ t.loaded /\ faults = 0 /\ ok /\ (mark <=> u \in Readers)
    BY Zenon, <1>2, <1>8 DEF MessagesInv
  <2>2. ASSUME NEW v \in Users PROVE t'.perUser[v].delID = subs'[v].delID
    BY <1>5, <1>7, <2>1 DEF Mirrored, MessagesInv, MarksShape, Marks
  <2>3. ASSUME NEW v \in Readers
        PROVE  /\ t'.perUser[v].readID = subs'[v].readID
               /\ RecvReported(t'.perUser[v]) = RecvReported(subs'[v])
    <3>1. v \in Users
      BY UsersAssumption
    <3>2. CASE v # u
      <4>1. t'.perUser[v] = t.perUser[v] /\ subs'[v] = subs[v]
        BY <1>5, <1>7, <3>1, <3>2 DEF MessagesInv, MarksShape
      <4> QED
        BY Zenon, <4>1, <2>1 DEF Mirrored
    <3>3. CASE v = u
      <4>1. /\ t'.perUser[u].readID = seq /\ t'.perUser[u].recvID = seq
            /\ subs'[u].readID = seq /\ subs'[u].recvID = seq
        BY <1>5, <1>7, <2>1, <3>3 DEF MessagesInv, MarksShape, Marks
      <4> QED
        BY Zenon, <3>3, <4>1 DEF RecvReported
    <3> QED
      BY Zenon, <3>2, <3>3
  <2> QED
    BY Zenon, <1>5, <1>6, <2>1, <2>2, <2>3 DEF Mirrored
<1>12. ASSUME MaxRanges = 1 PROVE DeletedGone' /\ Asked'
  <2>1. DeletedGone /\ Asked
    BY Zenon, <1>12 DEF MessagesInv
  <2>2. \A v \in Users : seq \notin gone[v]
    BY <1>2, <1>4 DEF MessagesInv, Passed, MarksShape
  <2>3. /\ DOMAIN msgs' \subseteq DOMAIN msgs \cup {seq}
        /\ seq \notin DOMAIN msgs /\ seq \in DOMAIN msgs' => msgs'[seq].delid = 0
        /\ \A n \in DOMAIN msgs : msgs'[n] = msgs[n]
    BY <1>3 DEF SavedAs
  <2>4. DeletedGone'
    <3> SUFFICES ASSUME NEW v \in Users, NEW n \in gone[v], n \in GetAll(v)' PROVE FALSE
      BY Zenon, <1>2 DEF DeletedGone
    <3>1. n \in DOMAIN msgs
      BY Zenon, <2>2, <2>3 DEF GetAll
    <3>2. n \in GetAll(v)
      BY Zenon, <3>1, <2>3, <1>2 DEF GetAll
    <3> QED
      BY Zenon, <3>2, <2>1 DEF DeletedGone
  <2>5. Asked'
    BY Zenon, <1>2, <1>8, <2>1, <2>3 DEF Asked
  <2> QED
    BY Zenon, <2>4, <2>5
<1> QED
    BY Zenon, <1>9, <1>10, <1>11, <1>12 DEF MessagesInv

(* Marks: the larger of two numbers, and what a note makes of marks and columns. *)
LEMMA MaxPair ==
    ASSUME NEW a \in Nat, NEW b \in Nat
    PROVE  Max({a, b}) = (IF a >= b THEN a ELSE b) /\ Max({a, b}) \in Nat
<1>1. PICK m \in {a, b} : \A y \in {a, b} : m >= y
    OBVIOUS
<1>2. Max({a, b}) \in {a, b} /\ \A y \in {a, b} : Max({a, b}) >= y
    BY Zenon, <1>1 DEF Max
<1> QED
    BY <1>2

LEMMA NoteMarksType ==
    ASSUME NEW p \in Marks, NEW what, NEW seq \in Nat
    PROVE  NoteMarks(p, what, seq) \in Marks /\ NoteMarks(p, what, seq).delID = p.delID
<1>1. p.recvID \in Nat /\ p.readID \in Nat
    BY DEF Marks
<1>2. Max({p.recvID, seq}) \in Nat /\ Max({seq, p.readID}) \in Nat
    BY Zenon, <1>1, MaxPair
<1> QED
    BY Zenon, <1>2 DEF NoteMarks, Marks

LEMMA NoteColumnsType ==
    ASSUME NEW s \in Marks, NEW what, NEW q \in Marks
    PROVE  NoteColumns(s, what, q) \in Marks /\ NoteColumns(s, what, q).delID = s.delID
    BY DEF NoteColumns, Marks

LEMMA NoteReported ==
    ASSUME NEW p \in Marks, NEW s \in Marks, p.readID = s.readID,
           RecvReported(p) = RecvReported(s), NEW what \in {"read", "recv"}, NEW seq \in Nat,
           ~Stale(p, what, seq)
    PROVE  LET q == NoteMarks(p, what, seq)
               c == NoteColumns(s, what, q)
           IN  q.readID = c.readID /\ RecvReported(q) = RecvReported(c)
<1> DEFINE q == NoteMarks(p, what, seq)
           c == NoteColumns(s, what, q)
<1>1. /\ p.recvID \in Nat /\ p.readID \in Nat /\ s.recvID \in Nat /\ s.readID \in Nat
    BY DEF Marks
<1>2. ASSUME what = "read" PROVE q.readID = c.readID /\ RecvReported(q) = RecvReported(c)
  <2>1. q.readID = seq /\ q.recvID = Max({p.recvID, seq})
    BY <1>2 DEF NoteMarks, Marks
  <2>2. c.readID = seq /\ c.recvID = s.recvID
    BY <1>2, <2>1 DEF NoteColumns, Marks
  <2> HIDE DEF q, c
  <2>3. seq > p.readID
    BY <1>1, <1>2 DEF Stale
  <2>4. /\ Max({p.recvID, p.readID}) = IF p.recvID >= p.readID THEN p.recvID ELSE p.readID
        /\ Max({s.recvID, s.readID}) = IF s.recvID >= s.readID THEN s.recvID ELSE s.readID
        /\ Max({p.recvID, seq}) = IF p.recvID >= seq THEN p.recvID ELSE seq
        /\ Max({s.recvID, seq}) = IF s.recvID >= seq THEN s.recvID ELSE seq
        /\ Max({p.recvID, seq}) \in Nat
    BY Zenon, <1>1, MaxPair
  <2>5. Max({Max({p.recvID, seq}), seq}) =
           IF Max({p.recvID, seq}) >= seq THEN Max({p.recvID, seq}) ELSE seq
    BY Zenon, <2>4, MaxPair
  <2>6. Max({p.recvID, p.readID}) = Max({s.recvID, s.readID})
    BY Zenon DEF RecvReported
  <2>7. Max({Max({p.recvID, seq}), seq}) = Max({s.recvID, seq})
    BY <1>1, <2>3, <2>4, <2>5, <2>6
  <2> QED
    BY Zenon, <2>1, <2>2, <2>7 DEF RecvReported
<1>3. ASSUME what = "recv" PROVE q.readID = c.readID /\ RecvReported(q) = RecvReported(c)
  <2>1. q.readID = p.readID /\ q.recvID = Max({seq, p.readID})
    BY <1>3 DEF NoteMarks, Marks
  <2>2. c.readID = s.readID /\ c.recvID = q.recvID
    BY <1>3 DEF NoteColumns, Marks
  <2> HIDE DEF q, c
  <2> QED
    BY Zenon, <2>1, <2>2 DEF RecvReported
<1> QED
    BY Zenon, <1>2, <1>3

LEMMA NotesStep == ASSUME Inv, MessagesInv, NEW u \in Users, Notes(u) PROVE MessagesInv'
<1>1. PICK what \in {"read", "recv"}, seq \in Seqs : Note(u, what, seq)
    BY Zenon DEF Notes
<1> DEFINE p == NoteMarks(t.perUser[u], what, seq)
           c == NoteColumns(subs[u], what, p)
<1>2. /\ t.loaded /\ u \in Readers /\ ~Stale(t.perUser[u], what, seq)
      /\ UNCHANGED <<row, msgs, dellog, gone, old>>
    BY Zenon, <1>1 DEF Note
<1>3. PICK write \in BOOLEAN, ok \in BOOLEAN :
        /\ ok => write
        /\ Failed(IF ok THEN 0 ELSE 1)
        /\ subs' = IF write THEN [subs EXCEPT ![u] = c] ELSE subs
        /\ t' = IF ok THEN [t EXCEPT !.perUser[u] = p] ELSE t
    BY <1>1 DEF Note, MessagesInv, MarksShape
<1>4. faults' = 0 => faults = 0 /\ ok /\ write
    BY <1>3 DEF Failed, Inv, CallInv, TopicShape
<1>5. /\ t'.loaded = t.loaded /\ t'.lastID = t.lastID /\ t'.delID = t.delID
      /\ t'.perUser = IF ok THEN [t.perUser EXCEPT ![u] = p] ELSE t.perUser
    BY Zenon, <1>3 DEF Inv, CallInv, TopicShape
<1>6. /\ t.perUser \in [Users -> Marks] /\ subs \in [Users -> Marks] /\ seq \in Nat
      /\ t.perUser[u] \in Marks /\ subs[u] \in Marks
    BY BoundsAssumption DEF MessagesInv, MarksShape, Seqs
<1>7. p \in Marks /\ p.delID = t.perUser[u].delID
    BY Zenon, <1>6, NoteMarksType
<1>8. c \in Marks /\ c.delID = subs[u].delID
    BY Zenon, <1>6, <1>7, NoteColumnsType
<1>9. ASSUME Mirrored, faults = 0
      PROVE  p.readID = c.readID /\ RecvReported(p) = RecvReported(c)
    BY Zenon, <1>2, <1>6, <1>9, NoteReported DEF Mirrored
<1> HIDE DEF p, c
<1>10. t'.perUser \in [Users -> Marks] /\ subs' \in [Users -> Marks]
    BY <1>3, <1>5, <1>6, <1>7, <1>8
<1>11. MarksShape' /\ Passed'
    BY Zenon, <1>2, <1>5, <1>10 DEF MessagesInv, MarksShape, Passed
<1>12. Mirrored'
  <2> SUFFICES ASSUME faults' = 0 PROVE Mirrored'
    BY Zenon DEF Mirrored
  <2>1. Mirrored /\ t.loaded /\ faults = 0 /\ ok /\ write
    BY Zenon, <1>2, <1>4 DEF MessagesInv
  <2>2. ASSUME NEW v \in Users
        PROVE  /\ v = u => t'.perUser[v] = p /\ subs'[v] = c
               /\ v # u => t'.perUser[v] = t.perUser[v] /\ subs'[v] = subs[v]
    BY <1>3, <1>5, <1>6, <2>1
  <2>3. ASSUME NEW v \in Users PROVE t'.perUser[v].delID = subs'[v].delID
    BY Zenon, <1>7, <1>8, <2>1, <2>2 DEF Mirrored
  <2>4. ASSUME NEW v \in Readers
        PROVE  /\ t'.perUser[v].readID = subs'[v].readID
               /\ RecvReported(t'.perUser[v]) = RecvReported(subs'[v])
    <3>1. v \in Users
      BY UsersAssumption
    <3> QED
      BY Zenon, <1>9, <2>1, <2>2, <3>1 DEF Mirrored
  <2> QED
    BY Zenon, <1>2, <1>5, <2>1, <2>3, <2>4 DEF Mirrored
<1>13. (MaxRanges = 1 => DeletedGone /\ Asked)'
    BY Zenon, <1>2, <1>4 DEF MessagesInv, DeletedGone, Asked, GetAll
<1> QED
    BY Zenon, <1>11, <1>12, <1>13 DEF MessagesInv

-----------------------------------------------------------------------------
(* Deletion.  The numbers a request names were given. *)
LEMMA RangeGiven ==
    ASSUME t.lastID \in Nat, NEW dq \in Entry, ~Refused(dq), NEW n \in Covers(ToRange(dq))
    PROVE  n \in Nat /\ n <= t.lastID
<1> DEFINE r == ToRange(dq)
<1>1. /\ dq.LowId \in Nat /\ dq.HiId \in Nat /\ dq.LowId <= t.lastID
      /\ dq.HiId = 0 \/ dq.LowId <= dq.HiId
    BY BoundsAssumption DEF Entry, Refused
<1>2. r.Low = dq.LowId /\ (r.Hi = t.lastID + 1 \/ r.Hi = 0 \/ (r.Hi = dq.HiId /\ dq.HiId <= t.lastID))
    BY <1>1 DEF ToRange
<1>3. IF r.Hi = 0 THEN n = r.Low ELSE n \in r.Low..(r.Hi - 1)
    BY Zenon DEF Covers
<1> HIDE DEF r
<1> QED
    BY <1>1, <1>2, <1>3

(* A row of the log covers what the range does. *)
LEMMA RowCovers ==
    ASSUME NEW dq \in Entry, NEW n, t.lastID \in Nat
    PROVE  n \in Covers(ToRange(dq)) <=>
              n \in ToRange(dq).Low..(RangeEnd(ToRange(dq)) - 1)
<1> DEFINE r == ToRange(dq)
<1>1. r.Low \in Nat /\ r.Hi \in Nat
    BY BoundsAssumption DEF ToRange, Entry
<1>2. n \in Covers(r) <=> (IF r.Hi = 0 THEN n = r.Low ELSE n \in r.Low..(r.Hi - 1))
    BY DEF Covers
<1>3. RangeEnd(r) = IF r.Hi = 0 THEN r.Low + 1 ELSE r.Hi
    BY DEF RangeEnd
<1> HIDE DEF r
<1>4. n \in Covers(r) <=> n \in r.Low..(RangeEnd(r) - 1)
    BY <1>1, <1>2, <1>3
<1> QED
    BY Zenon, <1>4 DEF r

LEMMA RowsFor ==
    ASSUME NEW for, NEW id, NEW rs, NEW e \in LogRows(for, id, rs)
    PROVE  e.for = for /\ \E i \in DOMAIN rs : e.low = rs[i].Low /\ e.hi = RangeEnd(rs[i])
    BY DEF LogRows

LEMMA HardRowsFor == ASSUME NEW id, NEW rs, NEW e \in HardRows(id, rs) PROVE e.for = Nobody
    BY RowsFor DEF HardRows

(* A list of one range is neither sorted nor merged. *)
LEMMA OneRange ==
    ASSUME NEW delSeq \in Lists(1)
    PROVE  LET asked == [i \in DOMAIN delSeq |-> ToRange(delSeq[i])]
           IN  SortNormalize(asked) = asked
<1> DEFINE asked == [i \in DOMAIN delSeq |-> ToRange(delSeq[i])]
<1>1. DOMAIN delSeq = 1..1
    BY DEF Lists
<1>2. Len(asked) = 1
    BY <1>1
<1> HIDE DEF asked
<1>3. ~(Len(asked) > 1)
    BY <1>2
<1>4. SortNormalize(asked) = asked
    BY Zenon, <1>3 DEF SortNormalize
<1> QED
    BY Zenon, <1>4 DEF asked

LEMMA MarkedForFacts ==
    ASSUME NEW whom, NEW f \in [Users -> Marks], NextDelID \in Nat
    PROVE  /\ MarkedFor(whom, f) \in [Users -> Marks]
           /\ \A v \in Users :
                 /\ MarkedFor(whom, f)[v].delID = IF v \in whom THEN NextDelID ELSE f[v].delID
                 /\ MarkedFor(whom, f)[v].readID = f[v].readID
                 /\ RecvReported(MarkedFor(whom, f)[v]) = RecvReported(f[v])
<1>1. ASSUME NEW v \in Users
      PROVE  LET p == MarkedFor(whom, f)[v]
             IN  /\ p \in Marks /\ p.delID = IF v \in whom THEN NextDelID ELSE f[v].delID
                 /\ p.readID = f[v].readID /\ p.recvID = f[v].recvID
    BY DEF MarkedFor, Marks
<1>2. ASSUME NEW v \in Users PROVE RecvReported(MarkedFor(whom, f)[v]) = RecvReported(f[v])
    BY Zenon, <1>1 DEF RecvReported
<1>3. MarkedFor(whom, f) \in [Users -> Marks]
    BY Zenon, <1>1 DEF MarkedFor
<1> QED
    BY Zenon, <1>1, <1>2, <1>3

(* A message whose deletion is confirmed is marked as deleted, or a row of the log
   covers it; and nothing else becomes so. *)
LEMMA DeletesStep == ASSUME Inv, MessagesInv, NEW u \in Users, Deletes(u) PROVE MessagesInv'
<1>1. PICK wantHard \in BOOLEAN, delSeq \in Lists(MaxRanges) : DeleteMessages(u, wantHard, delSeq)
    BY Zenon DEF Deletes
<1> DEFINE hard == wantHard /\ u \in Deleters
           whom == IF hard THEN Users ELSE {u}
           asked == [i \in DOMAIN delSeq |-> ToRange(delSeq[i])]
           rs == SortNormalize(asked)
           kept == IF hard THEN 1..old ELSE {}
<1>2. /\ t.loaded /\ UNCHANGED old
      /\ \A i \in DOMAIN delSeq : ~Refused(delSeq[i])
    BY Zenon, <1>1 DEF DeleteMessages
<1>3. PICK delete \in BOOLEAN, record \in BOOLEAN, mark \in BOOLEAN, ok \in BOOLEAN :
        /\ DeleteList(u, hard, whom, rs, delete, record, mark, ok)
        /\ t' = IF ok THEN [t EXCEPT !.delID = NextDelID, !.perUser = MarkedFor(whom, @)] ELSE t
        /\ gone' = [v \in Users |-> IF ok /\ v \in whom THEN gone[v] \cup (Covered(asked) \ kept)
                                    ELSE gone[v]]
    BY Zenon, <1>1 DEF DeleteMessages
<1>4. \A i \in DOMAIN delSeq : delSeq[i] \in Entry
    BY <1>1 DEF Lists
<1>5. \A n \in Covered(asked) : \E i \in DOMAIN delSeq : n \in Covers(ToRange(delSeq[i]))
    BY Zenon DEF Covered
<1>6. MaxRanges = 1 => rs = asked
    BY Zenon, <1>1, OneRange
<1>7. MaxRanges = 1 => \A i \in DOMAIN rs : i \in DOMAIN delSeq /\ rs[i] = ToRange(delSeq[i])
    BY Zenon, <1>6
<1> HIDE DEF hard, asked, rs
<1>8. /\ t.lastID \in Nat /\ row.seqid \in Nat /\ NextDelID \in Nat \ {0} /\ faults \in Nat
      /\ DOMAIN msgs \subseteq Nat \ {0}
      /\ old \in Nat /\ gone \in [Users -> SUBSET Nat]
      /\ t.perUser \in [Users -> Marks] /\ subs \in [Users -> Marks]
    BY DEF NextDelID, Inv, CallInv, TopicShape, MessagesShape, MessagesInv, MarksShape
<1>9. Covered(asked) \subseteq Nat /\ \A n \in Covered(asked) : n <= t.lastID
    BY Zenon, <1>2, <1>4, <1>5, <1>8, RangeGiven
<1>10. /\ t'.loaded = t.loaded /\ t'.lastID = t.lastID
       /\ t'.delID = IF ok THEN NextDelID ELSE t.delID
       /\ t'.perUser = IF ok THEN MarkedFor(whom, t.perUser) ELSE t.perUser
    BY Zenon, <1>3 DEF Inv, CallInv, TopicShape
<1>11. /\ row'.seqid = row.seqid
       /\ row'.delid = IF record THEN NextDelID ELSE row.delid
    BY <1>3 DEF DeleteList, Inv, CallInv, TopicShape
<1>12. /\ ok => delete /\ record /\ mark
       /\ subs' = IF mark THEN MarkedFor(whom, subs) ELSE subs
    BY Zenon, <1>3 DEF DeleteList
<1>13. faults' = 0 => faults = 0 /\ ok
    BY <1>3, <1>8 DEF DeleteList, Failed
<1>14. \A v \in Users : gone[v] \subseteq gone'[v] /\ gone'[v] \subseteq gone[v] \cup Covered(asked)
    BY Zenon, <1>3
<1>15. MarksShape'
  <2>1. t'.perUser \in [Users -> Marks] /\ subs' \in [Users -> Marks]
    <3>1. MarkedFor(whom, t.perUser) \in [Users -> Marks] /\ MarkedFor(whom, subs) \in [Users -> Marks]
      BY <1>8, MarkedForFacts
    <3> QED
      BY Zenon, <1>8, <1>10, <1>12, <3>1
  <2>2. gone' \in [Users -> SUBSET Nat]
    BY <1>3, <1>8, <1>9
  <2> QED
    BY Zenon, <1>2, <1>8, <2>1, <2>2 DEF MarksShape
<1>16. Passed'
  <2>1. ASSUME NEW v \in Users, NEW n \in gone'[v] PROVE n <= t.lastID
    BY Zenon, <1>2, <1>9, <1>14, <2>1 DEF MessagesInv, Passed
  <2> QED
    BY Zenon, <1>2, <1>10, <1>11, <2>1 DEF MessagesInv, Passed
<1>17. Mirrored'
  <2> SUFFICES ASSUME faults' = 0 PROVE Mirrored'
    BY Zenon DEF Mirrored
  <2>1. Mirrored /\ t.loaded /\ faults = 0 /\ ok /\ record /\ mark
    BY Zenon, <1>2, <1>12, <1>13 DEF MessagesInv
  <2>2. /\ t'.delID = NextDelID /\ row'.delid = NextDelID
        /\ t'.perUser = MarkedFor(whom, t.perUser) /\ subs' = MarkedFor(whom, subs)
    BY Zenon, <1>10, <1>11, <1>12, <2>1
  <2>3. ASSUME NEW v \in Users
        PROVE  /\ t'.perUser[v].delID = subs'[v].delID
               /\ t'.perUser[v].readID = t.perUser[v].readID /\ subs'[v].readID = subs[v].readID
               /\ RecvReported(t'.perUser[v]) = RecvReported(t.perUser[v])
               /\ RecvReported(subs'[v]) = RecvReported(subs[v])
    <3>1. t.perUser[v].delID = subs[v].delID
      BY Zenon, <2>1 DEF Mirrored
    <3>2. /\ t'.perUser[v].delID = IF v \in whom THEN NextDelID ELSE t.perUser[v].delID
          /\ t'.perUser[v].readID = t.perUser[v].readID
          /\ RecvReported(t'.perUser[v]) = RecvReported(t.perUser[v])
      BY <1>8, <2>2, MarkedForFacts
    <3>3. /\ subs'[v].delID = IF v \in whom THEN NextDelID ELSE subs[v].delID
          /\ subs'[v].readID = subs[v].readID
          /\ RecvReported(subs'[v]) = RecvReported(subs[v])
      BY <1>8, <2>2, MarkedForFacts
    <3> QED
      BY Zenon, <3>1, <3>2, <3>3
  <2>4. Readers \subseteq Users
    BY UsersAssumption
  <2> QED
    BY Zenon, <2>1, <2>2, <2>3, <2>4 DEF Mirrored
<1>18. ASSUME MaxRanges = 1 PROVE DeletedGone' /\ Asked'
  <2>1. DeletedGone /\ Asked
    BY Zenon, <1>18 DEF MessagesInv
  <2>2. /\ DOMAIN msgs' = DOMAIN msgs
        /\ \A n \in DOMAIN msgs : msgs'[n] = IF delete /\ hard /\ n \in Doomed(rs)
                                             THEN [from |-> Nobody, delid |-> NextDelID]
                                             ELSE msgs[n]
    BY Zenon, <1>3 DEF DeleteList, Inv, CallInv, MessagesShape
  <2>3. \A n \in DOMAIN msgs : /\ msgs'[n].delid = 0 => msgs[n].delid = 0
                               /\ delete /\ hard /\ n \in Doomed(rs) => msgs'[n].delid # 0
    BY <1>8, <2>2
  <2>4. dellog' = IF ~delete THEN dellog
                  ELSE dellog \cup (IF hard THEN HardRows(NextDelID, rs) ELSE LogRows(u, NextDelID, rs))
    BY Zenon, <1>3 DEF DeleteList
  <2>5. DeletedGone'
    <3> SUFFICES ASSUME NEW v \in Users, NEW n \in gone'[v], n \in GetAll(v)' PROVE FALSE
      BY Zenon DEF DeletedGone
    <3>1. /\ n \in DOMAIN msgs /\ n \in Nat \ {0} /\ msgs'[n].delid = 0 /\ msgs[n].delid = 0
          /\ \A e \in dellog' : e.for = v => ~LogCovers(e, n)
      BY Zenon, <1>8, <2>2, <2>3 DEF GetAll
    <3>2. CASE n \in gone[v]
      <4>1. n \in GetAll(v)
        BY Zenon, <2>4, <3>1 DEF GetAll
      <4> QED
        BY Zenon, <2>1, <3>2, <4>1 DEF DeletedGone
    <3>3. CASE n \notin gone[v]
      <4>1. ok /\ v \in whom /\ n \in Covered(asked) /\ n \notin kept /\ delete
        BY Zenon, <1>3, <1>12, <3>3
      <4>2. n \in Covered(rs)
        BY Zenon, <1>6, <1>18, <4>1
      <4>3. CASE hard
        <5>1. n > old
          BY <1>8, <3>1, <4>1, <4>3
        <5>2. n \in Doomed(rs)
          BY Zenon, <3>1, <4>2, <5>1 DEF Doomed
        <5> QED
          BY Zenon, <2>3, <3>1, <4>1, <4>3, <5>2
      <4>4. CASE ~hard
        <5>1. v = u
          BY Zenon, <4>1, <4>4
        <5>2. PICK i \in DOMAIN rs : n \in Covers(rs[i])
          BY Zenon, <4>2 DEF Covered
        <5> DEFINE e == [for |-> u, delid |-> NextDelID, low |-> rs[i].Low, hi |-> RangeEnd(rs[i])]
        <5>3. e \in dellog' /\ e.for = v
          BY Zenon, <2>4, <4>1, <4>4, <5>1 DEF LogRows
        <5>4. rs[i] = ToRange(delSeq[i]) /\ delSeq[i] \in Entry
          BY Zenon, <1>4, <1>7, <1>18
        <5>5. n \in rs[i].Low..(RangeEnd(rs[i]) - 1)
          BY Zenon, <1>8, <5>2, <5>4, RowCovers
        <5>6. LogCovers(e, n)
          BY Zenon, <5>5 DEF LogCovers
        <5> QED
          BY Zenon, <3>1, <5>3, <5>6
      <4> QED
        BY Zenon, <4>3, <4>4
    <3> QED
      BY Zenon, <3>2, <3>3
  <2>6. Asked'
    <3> SUFFICES ASSUME faults' = 0, NEW v \in Users
                 PROVE  /\ \A n \in DOMAIN msgs : msgs'[n].delid # 0 => n \in gone'[v]
                        /\ \A e \in dellog' : e.for = v => \A n \in Nat : LogCovers(e, n) => n \in gone'[v]
      BY Zenon, <2>2 DEF Asked
    <3>1. ok /\ delete /\ faults = 0
      BY Zenon, <1>12, <1>13
    <3>2. v \in whom => \A n \in Covered(asked) \ kept : n \in gone'[v]
      BY Zenon, <1>3, <3>1
    <3>3. ASSUME NEW n \in DOMAIN msgs, msgs'[n].delid # 0 PROVE n \in gone'[v]
      <4>1. CASE hard /\ n \in Doomed(rs)
        <5>1. n \in Covered(asked) /\ n > old
          BY Zenon, <1>6, <1>18, <4>1 DEF Doomed
        <5>2. n \notin kept
          BY <1>8, <5>1
        <5> QED
          BY Zenon, <3>2, <4>1, <5>1, <5>2
      <4>2. CASE ~(hard /\ n \in Doomed(rs))
        BY Zenon, <1>14, <2>1, <2>2, <3>1, <3>3, <4>2 DEF Asked
      <4> QED
        BY Zenon, <4>1, <4>2
    <3>4. ASSUME NEW e \in dellog', e.for = v, NEW n \in Nat, LogCovers(e, n) PROVE n \in gone'[v]
      <4>1. CASE e \in dellog
        BY Zenon, <1>14, <2>1, <3>1, <3>4, <4>1 DEF Asked
      <4>2. CASE e \notin dellog
        <5>1. ~hard /\ e \in LogRows(u, NextDelID, rs)
          BY Zenon, <2>4, <3>4, <4>2, HardRowsFor, UsersAssumption
        <5>2. PICK i \in DOMAIN rs : e.low = rs[i].Low /\ e.hi = RangeEnd(rs[i])
          BY <5>1, RowsFor
        <5>3. rs[i] = ToRange(delSeq[i]) /\ delSeq[i] \in Entry
          BY Zenon, <1>4, <1>7, <1>18
        <5>4. n \in Covers(rs[i])
          BY Zenon, <1>8, <3>4, <5>2, <5>3, RowCovers DEF LogCovers
        <5>5. n \in Covered(asked) /\ n \notin kept
          BY Zenon, <1>6, <1>18, <5>1, <5>4 DEF Covered
        <5>6. v \in whom
          BY <3>4, <5>1, RowsFor
        <5> QED
          BY Zenon, <3>2, <5>5, <5>6
      <4> QED
        BY Zenon, <4>1, <4>2
    <3> QED
      BY Zenon, <3>3, <3>4
  <2> QED
    BY Zenon, <2>5, <2>6
<1> QED
    BY Zenon, <1>15, <1>16, <1>17, <1>18 DEF MessagesInv

-----------------------------------------------------------------------------
LEMMA InitMessages == CallInit => MessagesInv
<1> SUFFICES ASSUME CallInit PROVE MessagesInv
    OBVIOUS
<1>1. MarksShape
    BY DEF CallInit, Init, Unloaded, Zero, MarksShape, Marks
<1>2. Passed /\ Mirrored
    BY DEF CallInit, Init, Unloaded, Passed, Mirrored
<1>3. DeletedGone /\ Asked
    BY DEF CallInit, Init, DeletedGone, Asked
<1> QED
    BY Zenon, <1>1, <1>2, <1>3 DEF MessagesInv

LEMMA MessagesStep == Inv /\ MessagesInv /\ [CallNext]_allVars => MessagesInv'
<1> SUFFICES ASSUME Inv, MessagesInv, [CallNext]_allVars PROVE MessagesInv'
    OBVIOUS
<1>1. StepKind
    BY Zenon, Kinds
<1> QED
    BY Zenon, <1>1, RestsStep, LoadStep, SavesStep, NotesStep, DeletesStep DEF StepKind

(* With calls, failures and reloads, whatever the users, the messages and the
   deletions, the marks of the topic and of the database agree; and what is deleted
   is what was asked for. *)
THEOREM MessagesCorrect == CallSpec => []MessagesInv
BY InitMessages, MessagesStep, CallsCorrect, PTL DEF CallSpec

(* As long as no database call fails, a topic that is unloaded and loaded again
   reports the same numbers to every reader. *)
THEOREM ReloadCorrect == CallSpec => []ReloadInvisible
<1>1. ASSUME Inv, MessagesInv PROVE ReloadInvisible
  <2> SUFFICES ASSUME t.loaded, faults = 0, NEW u \in Readers PROVE Desc(t, u) = Desc(Stored, u)
    BY Zenon DEF ReloadInvisible
  <2>1. u \in Users
    BY UsersAssumption
  <2>2. t.lastID = row.seqid
    BY Zenon, <1>1 DEF Inv, CallInv, Numbered
  <2>3. /\ t.delID = row.delid /\ t.perUser[u].delID = subs[u].delID
        /\ t.perUser[u].readID = subs[u].readID
        /\ RecvReported(t.perUser[u]) = RecvReported(subs[u])
    BY Zenon, <1>1, <2>1 DEF MessagesInv, Mirrored
  <2>4. Stored.lastID = row.seqid /\ Stored.delID = row.delid /\ Stored.perUser = subs
    BY DEF Stored
  <2> QED
    BY Zenon, <2>2, <2>3, <2>4 DEF Desc
<1> QED
    BY <1>1, CallsCorrect, MessagesCorrect, PTL

(* When a request names one range, a message whose deletion is confirmed is not given
   to those it was deleted for again, whatever fails and however often the topic is
   loaded again. *)
THEOREM DeletedCorrect == CallSpec => [](MaxRanges = 1 => DeletedGone)
<1>1. MessagesInv => (MaxRanges = 1 => DeletedGone)
    BY DEF MessagesInv
<1> QED
    BY <1>1, MessagesCorrect, PTL

(* When a request names one range and no database call fails, a user can get every
   accepted message that nobody asked to delete for them. *)
THEOREM NotAskedCorrect == CallSpec => [](MaxRanges = 1 => NotAskedKept)
<1>1. ASSUME Inv, MessagesInv PROVE MaxRanges = 1 => NotAskedKept
  <2> SUFFICES ASSUME MaxRanges = 1, faults = 0, NEW u \in Users, NEW a \in acked, a[1] \notin gone[u]
               PROVE  a[1] \in GetAll(u)
    BY Zenon DEF NotAskedKept
  <2>1. a[1] \in DOMAIN msgs /\ a[1] \in Nat
    BY Zenon, <1>1 DEF Inv, CallInv, AckedKept, MessagesShape
  <2>2. Asked
    BY Zenon, <1>1 DEF MessagesInv
  <2> QED
    BY Zenon, <2>1, <2>2 DEF Asked, GetAll
<1> QED
    BY <1>1, CallsCorrect, MessagesCorrect, PTL
=============================================================================
