------------------------------ MODULE MCBridge ------------------------------
(***************************************************************************)
(* An instance of Bridge for TLC: the two workers, a key generation block  *)
(* whose height may be repeated, and one restart.                          *)
(***************************************************************************)
EXTENDS Bridge
=============================================================================
