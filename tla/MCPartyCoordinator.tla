------------------------- MODULE MCPartyCoordinator -------------------------
(***************************************************************************)
(* Instances of PartyCoordinator for TLC: three peers, with one call each  *)
(* or with a retried call, one or two block heights.                       *)
(***************************************************************************)
EXTENDS PartyCoordinator

P3 == {"a", "b", "c"}

\* One call for each peer.
CallsOnce == {"a1", "b1", "c1"}
CallerOnce == [c \in CallsOnce |-> CASE c = "a1" -> "a" [] c = "b1" -> "b" [] OTHER -> "c"]

\* Two peers, of which the first calls twice.
P2 == {"a", "b"}
CallsOnce2P == {"a1", "b1"}
CallerOnce2P == [c \in CallsOnce2P |-> IF c = "b1" THEN "b" ELSE "a"]
CallsRetry == {"a1", "a2", "b1"}
CallerRetry == [c \in CallsRetry |-> IF c = "b1" THEN "b" ELSE "a"]

Rank == [a |-> 1, b |-> 2, c |-> 3]
RankOther == [a |-> 3, b |-> 1, c |-> 2]

\* Height 10 elects "a", height 20 elects "b".
HeightOne == {10}
HashOne == [h \in HeightOne |-> Rank]
HeightTwo == {10, 20}
HashTwo == [h \in HeightTwo |-> IF h = 10 THEN Rank ELSE RankOther]
HashOne2P == [h \in HeightOne |-> [p \in P2 |-> Rank[p]]]
HashTwo2P == [h \in HeightTwo |-> [p \in P2 |-> IF h = 10 THEN Rank[p] ELSE RankOther[p]]]
=============================================================================
