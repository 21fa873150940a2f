-------------------------- MODULE MCCommunication ---------------------------
(***************************************************************************)
(* Instances of Communication for TLC.                                     *)
(***************************************************************************)
EXTENDS Communication

CONSTANTS s1, s2, t1, t2, i1, i2, o1, b1
=============================================================================
