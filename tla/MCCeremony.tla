---------------------------- MODULE MCCeremony ------------------------------
(***************************************************************************)
(* An instance of Ceremony for TLC: two nodes, a key generation or the     *)
(* signing of two messages.                                                *)
(***************************************************************************)
EXTENDS Ceremony

TwoKinds == [keygen |-> {""}, keysign |-> {"m1", "m2"}]
=============================================================================
