----------------------------- MODULE MCConversions -----------------------------
(* Instance of Conversions for TLC, whose integers have 32 bits: the widths are *)
(* 18 and 24 bits instead of 32 and 64, and the XADC's codes have 5 instead of  *)
(* 12 with the same value of an LSB. Inputs lie around zero and the limits.     *)
EXTENDS Conversions

MCMillis == -131072 .. -129500 \cup -1700 .. 1700 \cup 129500 .. 131071
MCValues == 0 .. 1100 \cup 9990 .. 10010 \cup 99990 .. 100010 \cup 262000 .. 262143
MCCounts == 0 .. 2000 \cup 4193000 .. 4195000 \cup 16775000 .. 16777215
MCTimeouts == 0 .. 3500
MCDividers == <<8, 64, 512>>
MCCapacities ==
  0 .. 70 \cup {127, 128, 192, 4095, 4096, 4097, 65536, 98304, 131071, 131072, 131073, 196608, 262143}
=============================================================================
