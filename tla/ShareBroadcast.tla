--------------------------- MODULE ShareBroadcast ---------------------------
(***************************************************************************)
(* What the hash confirmation of a broadcast share promises to tss-lib:    *)
(* every receiver's local party is updated with the share of a round at    *)
(* most once, and all the receivers are updated with the same message.     *)
(***************************************************************************)
EXTENDS Sequences

CONSTANTS ReceiverSets, \* the sets of parties, without the owner, that a share may go to
          Msgs          \* the messages that the owner may have signed

VARIABLE updates        \* receiver -> the messages its local party was given

Receivers == DOMAIN updates

Init == \E R \in ReceiverSets : updates = [p \in R |-> <<>>]

Update(p, m) ==
  /\ updates[p] = <<>>
  /\ \A q \in Receivers : updates[q] \in {<<>>, <<m>>}
  /\ updates' = [updates EXCEPT ![p] = <<m>>]

Next == \E p \in Receivers, m \in Msgs : Update(p, m)

Spec == Init /\ [][Next]_updates
=============================================================================
