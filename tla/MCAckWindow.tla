----------------------------- MODULE MCAckWindow -----------------------------
(* Instances of AckWindow for TLC.                                         *)
EXTENDS AckWindow

CONSTANTS client, server

BothEnds == {client, server}
OneStream == {4}
=============================================================================
