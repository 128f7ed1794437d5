------------------------------ MODULE MCCalls ------------------------------
(***************************************************************************)
(* Calls in the topic of two users with three sessions.                    *)
(***************************************************************************)
EXTENDS Calls, MCTopicMessages

CONSTANTS u1, u2, a, b, c
SessionUser == [s \in Sessions |-> IF s = a THEN u1 ELSE u2]
=============================================================================
