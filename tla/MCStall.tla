------------------------------- MODULE MCStall -------------------------------
(* Instance of Stall for TLC.                                               *)
EXTENDS Stall
=============================================================================
