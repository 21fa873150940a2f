--------------------------- MODULE MCBlameTimeout ---------------------------
(***************************************************************************)
(* Instance of BlameTimeout: parties of two, three and four nodes, a key   *)
(* generation or a batch of two signatures.  p1, which is in the two small *)
(* parties, may send wrong shares; the peers of the party of four are      *)
(* interchangeable.                                                        *)
(***************************************************************************)
EXTENDS BlameTimeout, TLC

CONSTANTS p1, p2, q1, q2, q3

MCParties == {{p1}, {p1, p2}, {q1, q2, q3}}
MCBatch == [keygen |-> {"i1"}, keysign |-> {"i1", "i2"}]
PeerSymmetry == Permutations({q1, q2, q3})
=============================================================================
