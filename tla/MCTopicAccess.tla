--------------------------- MODULE MCTopicAccess ---------------------------
(***************************************************************************)
(* Instances of TopicAccess and what is checked of them.                   *)
(***************************************************************************)
EXTENDS TopicAccess

J == {"J"}
JAO == {"J", "A", "O"}
JR == {"J", "R"}
WantsMany == {Unset, {}, JAO}
GrantsMany == {Unset, {}, J, JAO}

\* A topic has one owner (API.md:292: "topic may have a single owner only").
OneOwner == ~Shared
=============================================================================
