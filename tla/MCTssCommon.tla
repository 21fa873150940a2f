---------------------------- MODULE MCTssCommon -----------------------------
(***************************************************************************)
(* Instances of TssCommon for TLC: four and five parties.                  *)
(***************************************************************************)
EXTENDS TssCommon

CONSTANTS p1, p2, p3, p4, m1, m2, m3

R3 == {p1, p2, p3}
R4 == {p1, p2, p3, p4}

\* The same message for three receivers; any two messages are lost.
Lossy == [sent |-> [p \in R3 |-> m1], confirms |-> {}, losses |-> 2, requests |-> 5]

\* The same message for three receivers, and a hash of the owner's for one of them.
OwnHash == [sent |-> [p \in R3 |-> m1], confirms |-> {p3}, losses |-> 0, requests |-> 1]

\* Three messages for four receivers, of which one reaches enough of them.
Mixed == [sent |-> [p \in R4 |-> CASE p = p3 -> m2 [] p = p4 -> m3 [] OTHER -> m1],
          confirms |-> {}, losses |-> 0, requests |-> 1]

\* Two messages for four receivers, which both reach enough of them.
Split == [sent |-> [p \in R4 |-> IF p \in {p1, p2} THEN m1 ELSE m2],
          confirms |-> {}, losses |-> 0, requests |-> 1]

OneBacked == {Lossy, OwnHash, Mixed}
TwoBacked == {Split}
=============================================================================
