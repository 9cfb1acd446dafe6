------------------------------ MODULE MCConsole ------------------------------
(* An instance of Console for TLC. The alarm is longer than the FIFO.       *)
EXTENDS Console

MCTextLen == [w \in Writer |-> IF w = "consumer" THEN 4 ELSE 3]
=============================================================================
