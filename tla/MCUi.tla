-------------------------------- MODULE MCUi --------------------------------
(* An instance of UiClock, and with it of Ui, for TLC.                      *)
EXTENDS UiClock
=============================================================================
