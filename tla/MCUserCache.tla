---------------------------- MODULE MCUserCache ----------------------------
(***************************************************************************)
(* Instances of UserCache and what is checked of them.                     *)
(***************************************************************************)
EXTENDS UserCache

\* A queue that may be full, with read marks or with removals; and a queue that
\* never is.
Marked == [msgs |-> 2, marks |-> 1, loads |-> 2, errors |-> 1, removals |-> 0, room |-> 2]
Removed == [Marked EXCEPT !.marks = 0, !.removals = 1]
Roomy == [msgs |-> 3, marks |-> 0, loads |-> 3, errors |-> 1, removals |-> 0, room |-> 9]
AllBounds == {Marked, Removed, Roomy}

-----------------------------------------------------------------------------
\* Every push notification that waits for counters is sent, unless the database
\* fails to answer.
ReceiptsSent ==
    \A r \in 1..3 :
        (r \in DOMAIN receipts /\ receipts[r].state = "waiting")
            ~> \/ r \in DOMAIN receipts /\ receipts[r].state = "sent"
               \/ left.errors < bound.errors
=============================================================================
