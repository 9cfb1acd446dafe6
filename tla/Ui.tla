--------------------------------- MODULE Ui ---------------------------------
(***************************************************************************)
(* The UI task, task_ui.c, with the two drivers it owns: the button        *)
(* debouncer of gpio_drv.c and the receiving half of uart_drv.c. Once per  *)
(* scan period the task samples the buttons, takes their presses, empties  *)
(* the RX FIFO, and sends a message to the consumer for whatever it found. *)
(* It waits for nothing but the period: if the consumer's queue is full,   *)
(* the message is dropped and counted.                                     *)
(*                                                                         *)
(* The line is external: bytes arrive, and line errors latch in the        *)
(* interrupt status register, at any time, also between the driver's read  *)
(* of that register and its write-one-to-clear. So is the rest of the      *)
(* system: the producer may ring the consumer's doorbell at any time, the  *)
(* consumer, of lower priority, runs only while the UI waits.              *)
(*                                                                         *)
(* A key is a command or one that ui_handle_key ignores. The check-in and  *)
(* the lengths of waits are left to module Watchdog.                       *)
(***************************************************************************)
EXTENDS Integers, Sequences, FiniteSets

CONSTANTS ButtonCount,   \* GPIO_BTN_COUNT
          DebounceScans, \* GPIO_DRV_DEBOUNCE_SCANS
          RxFifoLen,     \* bytes the RX FIFO of the UART holds
          QueueLen,      \* APP_CONSUMER_QUEUE_LEN
          MaxScans,      \* bounds the scans
          MaxBytes,      \* bounds the bytes that arrive
          MaxErrors      \* bounds the line errors of each kind

Button == 1 .. ButtonCount
LineError == {"over", "framing", "parity"}
Key == {"command", "ignored"}

ASSUME UiAssumption ==
  /\ ButtonCount \in Nat \ {0} /\ DebounceScans \in Nat \ {0}
  /\ RxFifoLen \in Nat \ {0} /\ QueueLen \in Nat \ {0}
  /\ MaxScans \in Nat /\ MaxBytes \in Nat /\ MaxErrors \in Nat

VARIABLES
  \* gpio_drv.c
  is_down, mismatch_scans, press_latched,
  \* uart_drv.c and the UART
  rx_fifo,         \* bytes received and not read yet
  isr,             \* line errors latched in the interrupt status register
  err_counters,    \* s_err_counters
  \* task_ui.c
  upc, btn,        \* where the task is, and the button it asks for
  pending,         \* uart_collect_line_errors' copy of isr
  s_dropped_msgs,
  \* the consumer's queue
  waiting,         \* messages in it
  \* history
  levels,          \* what the scans have read of each button, after the seed
  taken,           \* the buttons whose presses the task has taken, one after the other
  commands,        \* commands taken out of the RX FIFO
  sent,            \* messages of the UI that the queue took
  arrived,         \* bytes that arrived, lost ones included
  errors           \* line errors of each kind that happened

gpioVars == <<is_down, mismatch_scans, press_latched, taken>>
rxVars == <<rx_fifo, isr, err_counters, pending>>
history == <<levels, commands, arrived, errors>>
vars == <<is_down, mismatch_scans, press_latched, rx_fifo, isr, err_counters, upc, btn,
          pending, s_dropped_msgs, waiting, levels, taken, commands, sent, arrived, errors>>

\* the seed is whatever gpio_drv_init reads, the pad settled or not
Init ==
  /\ is_down \in [Button -> BOOLEAN]
  /\ mismatch_scans = [b \in Button |-> 0]
  /\ press_latched = [b \in Button |-> FALSE]
  /\ rx_fifo = <<>> /\ isr = {} /\ err_counters = [e \in LineError |-> 0]
  /\ upc = "delay" /\ btn = 1 /\ pending = {} /\ s_dropped_msgs = 0
  /\ waiting = 0
  /\ levels = [b \in Button |-> <<is_down[b]>>] /\ taken = <<>>
  /\ commands = 0 /\ sent = 0 /\ arrived = 0 /\ errors = [e \in LineError |-> 0]

-----------------------------------------------------------------------------
(* gpio_drv.c                                                              *)

\* mutant: one scan too many before the level flips
FlipsTooLate(b, raw) == raw[b] # is_down[b] /\ mismatch_scans[b] >= DebounceScans

Flips(b, raw) == raw[b] # is_down[b] /\ mismatch_scans[b] + 1 >= DebounceScans

\* mutant: a bounce back to the stable level does not restart the count
KeepCount(b) == mismatch_scans[b]

RestartCount(b) == 0

\* mutant: the release is an event, too
LatchesBothEdges(b, raw) == Flips(b, raw)

PressEdge(b, raw) == Flips(b, raw) /\ raw[b]

gpio_drv_btn_scan(raw) ==
  /\ is_down' = [b \in Button |-> IF Flips(b, raw) THEN raw[b] ELSE is_down[b]]
  /\ mismatch_scans' = [b \in Button |->
       IF raw[b] = is_down[b] THEN RestartCount(b)
       ELSE IF Flips(b, raw) THEN 0 ELSE mismatch_scans[b] + 1]
  /\ press_latched' = [b \in Button |-> press_latched[b] \/ PressEdge(b, raw)]

-----------------------------------------------------------------------------
DropMessage == s_dropped_msgs' = s_dropped_msgs + 1 /\ UNCHANGED <<waiting, sent>>

ui_send ==
  \/ waiting < QueueLen /\ waiting' = waiting + 1 /\ sent' = sent + 1
     /\ UNCHANGED s_dropped_msgs
  \/ waiting = QueueLen /\ DropMessage

ui_handle_key(key) ==
  IF key = "command" THEN ui_send ELSE UNCHANGED <<waiting, sent, s_dropped_msgs>>

-----------------------------------------------------------------------------
(* ui_task                                                                 *)

Scan ==
  /\ upc = "delay" /\ Len(levels[1]) <= MaxScans
  /\ \E raw \in [Button -> BOOLEAN] :
       /\ gpio_drv_btn_scan(raw)
       /\ levels' = [b \in Button |-> Append(levels[b], raw[b])]
  /\ upc' = "take" /\ btn' = 1
  /\ UNCHANGED <<rxVars, s_dropped_msgs, waiting, taken, commands, sent, arrived, errors>>

gpio_drv_btn_take_press ==
  /\ upc = "take"
  /\ press_latched' = [press_latched EXCEPT ![btn] = FALSE]
  /\ IF press_latched[btn]
       THEN ui_send /\ taken' = Append(taken, btn)
       ELSE UNCHANGED <<waiting, sent, s_dropped_msgs, taken>>
  /\ IF btn < ButtonCount
       THEN btn' = btn + 1 /\ UNCHANGED upc
       ELSE btn' = 1 /\ upc' = "collect"
  /\ UNCHANGED <<is_down, mismatch_scans, rxVars, history>>

\* uart_collect_line_errors, up to its write to the status register
CollectLineErrors ==
  /\ upc = "collect"
  /\ pending' = isr
  /\ err_counters' = [e \in LineError |-> err_counters[e] + IF e \in isr THEN 1 ELSE 0]
  /\ upc' = IF isr = {} THEN "receive" ELSE "acknowledge"
  /\ UNCHANGED <<gpioVars, rx_fifo, isr, btn, s_dropped_msgs, waiting, sent, history>>

\* mutant: the write clears every line error instead of those that were read
ClearsAll == LineError

Acknowledged == pending

AcknowledgeLineErrors ==
  /\ upc = "acknowledge"
  /\ isr' = isr \ Acknowledged
  /\ pending' = {}
  /\ upc' = "receive"
  /\ UNCHANGED <<gpioVars, rx_fifo, err_counters, btn, s_dropped_msgs, waiting, sent, history>>

ReceiveKey ==
  /\ upc = "receive" /\ rx_fifo # <<>>
  /\ rx_fifo' = Tail(rx_fifo)
  /\ ui_handle_key(Head(rx_fifo))
  /\ commands' = commands + IF Head(rx_fifo) = "command" THEN 1 ELSE 0
  /\ upc' = "collect"
  /\ UNCHANGED <<gpioVars, isr, err_counters, pending, btn, levels, arrived, errors>>

NothingReceived ==
  /\ upc = "receive" /\ rx_fifo = <<>>
  /\ upc' = "delay"
  /\ UNCHANGED <<gpioVars, rxVars, btn, s_dropped_msgs, waiting, sent, history>>

-----------------------------------------------------------------------------
(* The line, the producer and the consumer                                 *)

ByteArrives ==
  /\ arrived < MaxBytes /\ Len(rx_fifo) < RxFifoLen
  /\ \E key \in Key : rx_fifo' = Append(rx_fifo, key)
  /\ arrived' = arrived + 1
  /\ UNCHANGED <<gpioVars, isr, err_counters, upc, btn, pending, s_dropped_msgs, waiting,
                 levels, commands, sent, errors>>

ByteOverruns ==
  /\ arrived < MaxBytes /\ Len(rx_fifo) = RxFifoLen
  /\ isr' = isr \cup {"over"}
  /\ errors' = [errors EXCEPT !["over"] = @ + 1]
  /\ arrived' = arrived + 1
  /\ UNCHANGED <<gpioVars, rx_fifo, err_counters, upc, btn, pending, s_dropped_msgs, waiting,
                 levels, commands, sent>>

LineErrorLatches(e) ==
  /\ e # "over" /\ errors[e] < MaxErrors
  /\ isr' = isr \cup {e}
  /\ errors' = [errors EXCEPT ![e] = @ + 1]
  /\ UNCHANGED <<gpioVars, rx_fifo, err_counters, upc, btn, pending, s_dropped_msgs, waiting,
                 levels, commands, sent, arrived>>

Doorbell ==
  /\ waiting < QueueLen /\ waiting' = waiting + 1
  /\ UNCHANGED <<gpioVars, rxVars, upc, btn, s_dropped_msgs, sent, history>>

ConsumerTakes ==
  /\ upc = "delay"
  /\ waiting > 0 /\ waiting' = waiting - 1
  /\ UNCHANGED <<gpioVars, rxVars, upc, btn, s_dropped_msgs, sent, history>>

-----------------------------------------------------------------------------
UiStep ==
  \/ Scan \/ gpio_drv_btn_take_press
  \/ CollectLineErrors \/ AcknowledgeLineErrors
  \/ ReceiveKey \/ NothingReceived

Environment ==
  \/ ByteArrives \/ ByteOverruns \/ \E e \in LineError : LineErrorLatches(e)
  \/ Doorbell \/ ConsumerTakes

Next == UiStep \/ Environment

Spec == Init /\ [][Next]_vars

-----------------------------------------------------------------------------
GpioTypeOK ==
  /\ is_down \in [Button -> BOOLEAN]
  /\ mismatch_scans \in [Button -> 0 .. DebounceScans - 1]
  /\ press_latched \in [Button -> BOOLEAN]
  /\ levels \in [Button -> Seq(BOOLEAN)] /\ taken \in Seq(Button)

RxTypeOK ==
  /\ rx_fifo \in Seq(Key) /\ Len(rx_fifo) <= RxFifoLen
  /\ isr \subseteq LineError /\ pending \subseteq isr
  /\ err_counters \in [LineError -> Nat] /\ errors \in [LineError -> Nat]

TaskTypeOK ==
  /\ upc \in {"delay", "take", "collect", "acknowledge", "receive"} /\ btn \in Button
  /\ s_dropped_msgs \in Nat /\ sent \in Nat /\ waiting \in 0 .. QueueLen
  /\ commands \in Nat

UiTypeOK == GpioTypeOK /\ RxTypeOK /\ TaskTypeOK

(* What a debouncer is: the level of the last DebounceScans equal scans in *)
(* a row, and the seed before there were any. The seed is read[1].         *)
StableAt(read, n) ==
  /\ n > DebounceScans
  /\ \A i \in n - DebounceScans + 1 .. n : read[i] = read[n]

StableLevel(read, n, level) ==
  \/ /\ \A k \in 1 .. n : ~StableAt(read, k)
     /\ level = read[1]
  \/ \E m \in 1 .. n :
       /\ StableAt(read, m) /\ level = read[m]
       /\ \A k \in m + 1 .. n : ~StableAt(read, k)

\* the scans that debounce to a press: down, where the scan before was up
PressScans(read) ==
  {n \in 2 .. Len(read) : StableLevel(read, n, TRUE) /\ StableLevel(read, n - 1, FALSE)}

Presses(b) == Cardinality(PressScans(levels[b]))

Takes(b) == {i \in 1 .. Len(taken) : taken[i] = b}

(* Why one counter is enough: it is the number of scans since the level    *)
(* read last agreed with the debounced one.                                *)
MismatchesCounted ==
  \A b \in Button :
    LET agreed == Len(levels[b]) - mismatch_scans[b]
    IN  /\ agreed >= 1 /\ levels[b][agreed] = is_down[b]
        /\ \A i \in agreed + 1 .. Len(levels[b]) : levels[b][i] # is_down[b]

(* What is about to be acknowledged has been counted.                      *)
AcknowledgesCounted ==
  /\ upc # "acknowledge" => pending = {}
  /\ \A e \in pending : err_counters[e] > 0

(* Why one latch is enough: no scan comes before the task has asked for   *)
(* every button, so that no press is latched over one not taken yet.       *)
LatchedAhead == \A b \in Button : press_latched[b] => upc = "take" /\ b >= btn

(* The debounced level is exactly the stable level of everything the scans *)
(* have read, bounces included (gpio_drv.h:6-9), although the driver keeps *)
(* one counter only.                                                       *)
DebouncedLevelStable == \A b \in Button : StableLevel(levels[b], Len(levels[b]), is_down[b])

(* "The application can't miss a short press between two polls and never   *)
(* sees the same press twice" (gpio_drv.h:11), and a button held through   *)
(* reset is no press: each button's presses have been taken, once each, or *)
(* the last one is still latched. And every press taken and every command  *)
(* typed is in a message the queue took or in the count of those dropped.  *)
PressesTakenOnce ==
  \A b \in Button : Presses(b) = Cardinality(Takes(b)) + IF press_latched[b] THEN 1 ELSE 0

MessagesCounted == sent + s_dropped_msgs = commands + Len(taken)

EveryInputAccounted == PressesTakenOnce /\ MessagesCounted

(* A kind of line error that happened shows in its counter, or is latched  *)
(* and will be seen by the next poll, however the errors fall between the  *)
(* driver's read and its write-one-to-clear; and none is counted twice.    *)
LineErrorsNoticed ==
  \A e \in LineError :
    LET seen == err_counters[e] + IF e \in isr \ pending THEN 1 ELSE 0
    IN  /\ seen <= errors[e]
        /\ errors[e] > 0 => seen > 0

(* The parts that hold by induction over the steps.                        *)
UiInv ==
  UiTypeOK /\ MismatchesCounted /\ DebouncedLevelStable
    /\ AcknowledgesCounted /\ LineErrorsNoticed /\ LatchedAhead
=============================================================================
