----------------------------- MODULE MCWatchdog -----------------------------
(* Instance of Watchdog for TLC.                                            *)
EXTENDS Watchdog

MCLimits == [c \in Client |-> IF c = Consumer THEN 3 ELSE 2]
=============================================================================
