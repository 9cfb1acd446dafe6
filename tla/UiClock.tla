------------------------------- MODULE UiClock -------------------------------
(***************************************************************************)
(* The UI task in time: module Ui with the kernel's tick, the pads of the  *)
(* buttons between the scans, and vTaskDelayUntil, which releases the task *)
(* at a fixed rate. Tasks of higher priority, the consumer that inherits   *)
(* the producer's, and the work of a pass may keep a scan from its time;   *)
(* scans that are overdue then follow one another without a wait           *)
(* (task_ui.c:110-113).                                                    *)
(***************************************************************************)
EXTENDS Ui

CONSTANTS ScanPeriod,   \* APP_UI_SCAN_PERIOD_MS, in ticks
          MaxLate       \* bounds how late a scan can be

ASSUME ClockAssumption == ScanPeriod \in Nat \ {0} /\ MaxLate \in Nat

VARIABLES
  overdue,    \* ticks since the time at which last_wake and the period release the next scan
  pad,        \* what each button's pin shows
  \* history
  held,       \* ticks since the pin last changed
  differing   \* ticks since the first of the scans that mismatch_scans counts, 0 if none

clockVars == <<overdue, pad, held, differing>>
timedVars == <<vars, clockVars>>

TimedInit ==
  /\ Init
  /\ overdue = -ScanPeriod
  /\ pad \in [Button -> BOOLEAN]
  /\ held = [b \in Button |-> 0] /\ differing = [b \in Button |-> 0]

-----------------------------------------------------------------------------
\* mutant: vTaskDelay, which counts from the scan instead of from its release
FromNow == -ScanPeriod

\* last_wake moves on by one period, whenever the task got to run
NextRelease == overdue - ScanPeriod

\* vTaskDelayUntil returns, at once if the time has passed, and the pins are read
TimedScan ==
  /\ overdue >= 0
  /\ Scan /\ levels' = [b \in Button |-> Append(levels[b], pad[b])]
  /\ overdue' = NextRelease
  /\ differing' = [b \in Button |-> IF mismatch_scans'[b] <= 1 THEN 0 ELSE differing[b]]
  /\ UNCHANGED <<pad, held>>

\* the rest of the pass and of the system, which takes no time but what Tick lets pass
Untimed ==
  /\ \/ gpio_drv_btn_take_press
     \/ CollectLineErrors \/ AcknowledgeLineErrors \/ ReceiveKey \/ NothingReceived
     \/ Environment
  /\ UNCHANGED clockVars

PinChanges ==
  /\ \E b \in Button :
       pad' = [pad EXCEPT ![b] = ~@] /\ held' = [held EXCEPT ![b] = 0]
  /\ UNCHANGED <<vars, overdue, differing>>

Tick ==
  /\ overdue < MaxLate
  /\ overdue' = overdue + 1
  /\ held' = [b \in Button |-> held[b] + 1]
  /\ differing' = [b \in Button |-> IF mismatch_scans[b] = 0 THEN 0 ELSE differing[b] + 1]
  /\ UNCHANGED <<vars, pad>>

TimedNext == TimedScan \/ Untimed \/ PinChanges \/ Tick

TimedSpec == TimedInit /\ [][TimedNext]_timedVars

-----------------------------------------------------------------------------
ClockTypeOK ==
  /\ overdue \in -ScanPeriod .. MaxLate
  /\ pad \in [Button -> BOOLEAN]
  /\ held \in [Button -> Nat] /\ differing \in [Button -> Nat]

(* The scans that mismatch_scans counts are one period apart, and so the   *)
(* next one will be, but for how late the first of them was.               *)
ScansEven ==
  \A b \in Button : mismatch_scans[b] > 0 =>
    LET until == mismatch_scans[b] * ScanPeriod + overdue
    IN  until - MaxLate <= differing[b] /\ differing[b] <= until

(* A pin that shows another level than the debounced one has changed after *)
(* the last scan that mismatch_scans does not count.                       *)
ChangesSeen ==
  \A b \in Button :
    pad[b] # is_down[b] => held[b] <= (mismatch_scans[b] + 1) * ScanPeriod + overdue

ClockInv == ClockTypeOK /\ ScansEven /\ ChangesSeen

(* "With a 10 ms scan period that gives 30 ms" (gpio_drv.h:8): a level     *)
(* that lasts for so many periods, and for as long as a scan can be late,  *)
(* is the debounced one, whatever the pin did before: such a press counts. *)
HeldLevelSeen ==
  \A b \in Button : pad[b] # is_down[b] => held[b] <= DebounceScans * ScanPeriod + MaxLate

(* "The debounce time assumes an even scan period" (task_ui.c:110), which  *)
(* late scans do not keep: the scans that flip a level cover one period    *)
(* less than there are scans, give or take how late a scan can be, also if *)
(* overdue ones follow one another. A shorter pulse never flips a level.   *)
FlipSpan(b) == IF mismatch_scans[b] = 0 THEN 0 ELSE differing[b]

FlipsInTime ==
  [][\A b \in Button : is_down'[b] # is_down[b] =>
       LET even == (DebounceScans - 1) * ScanPeriod
       IN  even - MaxLate <= FlipSpan(b) /\ FlipSpan(b) <= even + MaxLate]_timedVars
=============================================================================
