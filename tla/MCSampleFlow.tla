---------------------------- MODULE MCSampleFlow ----------------------------
(* Instances of SampleFlow for TLC.                                         *)
EXTENDS SampleFlow

CONSTANT blank

MCRecord == 0 .. Wrap - 1

\* app_config.h: producer above ui above consumer
AppPrio == [t \in Task |-> CASE t = "producer" -> 4 [] t = "ui" -> 2 [] t = "consumer" -> 1]
=============================================================================
