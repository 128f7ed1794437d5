-------------------------- MODULE MCTopicMessages --------------------------
(***************************************************************************)
(* Instances of TopicMessages and what is checked of them.                 *)
(***************************************************************************)
EXTENDS TopicMessages

\* No range of the list starts where another one starts, in it, at its end, or
\* one number after its end: Normalize then has nothing to merge.
Apart(rs) ==
    \A i, j \in DOMAIN rs : i # j => /\ rs[i].Low # rs[j].Low
                                     /\ rs[i].Low < rs[j].Low /\ rs[i].Hi > 0 => rs[i].Hi + 1 < rs[j].Low

\* A client that asks for the deleted messages is told what the log has for its
\* user, neither more nor less, if there is nothing to merge; and a deletion of
\* these ranges for everyone would lower the unread counter of a reader by the
\* number of unread messages in them.
LogReported ==
    \A u \in Users : Apart(LogRanges(u)) =>
        LET rs == GetDeleted(u)   read == t.perUser[u].readID
        IN  /\ Covered(rs) = Covered(LogRanges(u))
            /\ t.loaded /\ u \in Readers =>
                 calculateUnreadInRanges(read, t.lastID, rs)
                    = Cardinality(Covered(rs) \cap (read + 1)..t.lastID)

=============================================================================
