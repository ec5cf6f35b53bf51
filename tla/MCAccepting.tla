---------------------------- MODULE MCAccepting ----------------------------
(* Instances of Accepting for TLC.                                         *)
EXTENDS Accepting
=============================================================================
