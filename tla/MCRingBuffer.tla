---------------------------- MODULE MCRingBuffer ----------------------------
(* Instance of RingBufferCalls for TLC: a ring of four slots whose counters *)
(* wrap after eight increments, so that runs of the counters past the wrap  *)
(* are part of the (finite) state space and no bound on the calls is        *)
(* needed. Callers may ask for more records than the ring can hold.         *)
EXTENDS RingBufferCalls

CONSTANTS r1, r2, r3, blank

MCRecord == {r1, r2, r3}
=============================================================================
