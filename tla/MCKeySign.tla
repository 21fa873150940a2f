----------------------------- MODULE MCKeySign ------------------------------
(***************************************************************************)
(* Instances of KeySign for TLC: two sessions for one message ID.       *)
(***************************************************************************)
EXTENDS KeySign

CONSTANTS s1, s2

=============================================================================
