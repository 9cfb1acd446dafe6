------------------------------ MODULE Console -------------------------------
(***************************************************************************)
(* Who writes to the console's TX FIFO: console_write of console.c on top  *)
(* of uart_drv_put_char of uart_drv.c, called by the consumer, by the      *)
(* supervisor's alarm (task_watchdog.c) and by the fault handler           *)
(* (fault.c). The driver holds no lock. XUartPs_SendByte spins on TXFULL   *)
(* and then writes the FIFO: two accesses, between which a writer of       *)
(* higher priority may fill it, and a byte written to a full FIFO is lost. *)
(*                                                                         *)
(* A byte is its writer and its place in what the writer has to say; what  *)
(* it says, the \r before each \n included, is left out. The supervisor    *)
(* raises one alarm at most, since it stops kicking with it; after a fault *)
(* interrupts are masked and nothing else runs.                            *)
(***************************************************************************)
EXTENDS Integers, Sequences, Functions

CONSTANTS FifoLen,  \* bytes the TX FIFO of the UART holds
          TextLen   \* bytes each writer has to say

Writer == {"consumer", "supervisor", "fault"}
Byte == Writer \X Nat

ASSUME ConsoleAssumption ==
  /\ FifoLen \in Nat \ {0}
  /\ TextLen \in [Writer -> Nat]

VARIABLES
  tx_fifo,   \* bytes in the TX FIFO
  shifting,  \* the byte in the transmitter's shift register, if any
  wire,      \* history: bytes that have left the board
  lost,      \* history: bytes written to a full FIFO
  spc, fpc,  \* whether the supervisor and the fault handler are at it: see ConsoleTypeOK
  next,      \* the byte each writer writes next
  saw_room   \* whether it has seen TXFULL clear for it

vars == <<tx_fifo, shifting, wire, lost, spc, fpc, next, saw_room>>

Init ==
  /\ tx_fifo = <<>> /\ shifting = <<>> /\ wire = <<>> /\ lost = {}
  /\ spc = "quiet" /\ fpc = "none"
  /\ next = [w \in Writer |-> 1]
  /\ saw_room = [w \in Writer |-> FALSE]

-----------------------------------------------------------------------------
(* The UART                                                                *)

\* mutant: room is seen where there is none
FullTooLate == Len(tx_fifo) > FifoLen

TxFull == Len(tx_fifo) >= FifoLen

Shift ==
  /\ tx_fifo # <<>> /\ shifting = <<>>
  /\ shifting' = <<Head(tx_fifo)>> /\ tx_fifo' = Tail(tx_fifo)
  /\ UNCHANGED <<wire, lost, spc, fpc, next, saw_room>>

Transmit ==
  /\ shifting # <<>>
  /\ wire' = wire \o shifting /\ shifting' = <<>>
  /\ UNCHANGED <<tx_fifo, lost, spc, fpc, next, saw_room>>

-----------------------------------------------------------------------------
(* The writers                                                             *)

\* mutant: the consumer goes on during the supervisor's alarm
NeverSuspended == fpc = "none"

ConsumerRuns == fpc = "none" /\ spc # "alarm"

Runs(w) ==
  CASE w = "consumer"   -> ConsumerRuns
    [] w = "supervisor" -> fpc = "none" /\ spc = "alarm"
    [] w = "fault"      -> fpc = "text"

\* uart_drv_put_char up to the end of the spin on TXFULL
SeeRoom(w) ==
  /\ Runs(w) /\ next[w] <= TextLen[w] /\ ~saw_room[w]
  /\ ~TxFull
  /\ saw_room' = [saw_room EXCEPT ![w] = TRUE]
  /\ UNCHANGED <<tx_fifo, shifting, wire, lost, spc, fpc, next>>

WriteFifo(w) ==
  /\ Runs(w) /\ saw_room[w]
  /\ IF TxFull
       THEN lost' = lost \cup {<<w, next[w]>>} /\ UNCHANGED tx_fifo
       ELSE tx_fifo' = Append(tx_fifo, <<w, next[w]>>) /\ UNCHANGED lost
  /\ next' = [next EXCEPT ![w] = @ + 1]
  /\ saw_room' = [saw_room EXCEPT ![w] = FALSE]
  /\ UNCHANGED <<shifting, wire, spc, fpc>>

\* wdog_report_late, at any point of the consumer's text
RaiseAlarm ==
  /\ spc = "quiet" /\ fpc = "none"
  /\ spc' = "alarm"
  /\ UNCHANGED <<tx_fifo, shifting, wire, lost, fpc, next, saw_room>>

AlarmRaised ==
  /\ spc = "alarm" /\ fpc = "none" /\ next["supervisor"] > TextLen["supervisor"]
  /\ spc' = "raised"
  /\ UNCHANGED <<tx_fifo, shifting, wire, lost, fpc, next, saw_room>>

\* fault_halt or fault_halt_str, at any point of either text
Fault ==
  /\ fpc = "none"
  /\ fpc' = "text"
  /\ UNCHANGED <<tx_fifo, shifting, wire, lost, spc, next, saw_room>>

\* mutant: the FIFO is empty, but the last byte is still being shifted out
FifoEmpty == tx_fifo = <<>>

TxIdle == tx_fifo = <<>> /\ shifting = <<>>

\* uart_drv_wait_tx_idle, then blinking for ever
FaultPark ==
  /\ fpc = "text" /\ next["fault"] > TextLen["fault"]
  /\ TxIdle
  /\ fpc' = "parked"
  /\ UNCHANGED <<tx_fifo, shifting, wire, lost, spc, next, saw_room>>

-----------------------------------------------------------------------------
Next ==
  \/ Shift \/ Transmit
  \/ \E w \in Writer : SeeRoom(w) \/ WriteFifo(w)
  \/ RaiseAlarm \/ AlarmRaised \/ Fault \/ FaultPark

Spec == Init /\ [][Next]_vars

-----------------------------------------------------------------------------
ConsoleTypeOK ==
  /\ tx_fifo \in Seq(Byte) /\ Len(tx_fifo) <= FifoLen
  /\ shifting \in Seq(Byte) /\ Len(shifting) <= 1
  /\ wire \in Seq(Byte) /\ lost \subseteq Byte
  /\ spc \in {"quiet", "alarm", "raised"} /\ fpc \in {"none", "text", "parked"}
  /\ next \in [Writer -> Nat] /\ saw_room \in [Writer -> BOOLEAN]

\* what has been written to the UART and not been lost, oldest first
Output == wire \o shifting \o tx_fifo

\* after its first k bytes, s has the first n of what w has to say
TextAt(s, k, w, n) == k + n <= Len(s) /\ \A i \in 1 .. n : s[k + i] = <<w, i>>

\* what w has written comes last in s
TextLast(s, w) ==
  /\ next[w] - 1 <= Len(s)
  /\ TextAt(s, Len(s) - (next[w] - 1), w, next[w] - 1)

\* all that the writers wrote
WrittenBytes == UNION {{<<w, i>> : i \in 1 .. next[w] - 1} : w \in Writer}

OutputInOrder ==
  \A i, j \in DOMAIN Output : i < j /\ Output[i][1] = Output[j][1] => Output[i][2] < Output[j][2]

(* Every byte written comes out, once, and each writer's bytes in the      *)
(* order it wrote them, but that an alarm, which comes at any byte of the  *)
(* consumer's text, costs the consumer at most one (task_watchdog.c:64-66  *)
(* accepts that "the line can end up in the middle of another one").       *)
ConsumerLosesOneByte ==
  /\ lost = {} \/ \E i \in 1 .. next["consumer"] - 1 : lost = {<<"consumer", i>>}
  /\ Range(Output) = WrittenBytes \ lost
  /\ OutputInOrder

(* The alarm and the fault's text each come out in one piece.              *)
Unbroken(w) == \E k \in 0 .. Len(Output) : TextAt(Output, k, w, next[w] - 1)

(* When the fault handler parks, its text is the last that was written and *)
(* all of it has left the board, the last bit included (uart_drv.h:58), so *)
(* that the reset that may follow cuts nothing off.                        *)
FaultTextOut == fpc = "parked" => next["fault"] > TextLen["fault"] /\ TextLast(wire, "fault")

(* Whatever they interrupt and whatever follows them, the supervisor's     *)
(* alarm and the fault's text are readable as they were written.           *)
AlarmsWhole == Unbroken("supervisor") /\ Unbroken("fault") /\ FaultTextOut

(* How far each writer is.                                                 *)
PlacesTrue ==
  /\ \A w \in Writer : /\ next[w] \in 1 .. TextLen[w] + 1
                       /\ saw_room[w] => next[w] <= TextLen[w]
  /\ spc = "quiet" => next["supervisor"] = 1 /\ ~saw_room["supervisor"]
  /\ fpc = "none" => next["fault"] = 1 /\ ~saw_room["fault"]
  /\ fpc = "parked" => /\ next["fault"] > TextLen["fault"]
                       /\ tx_fifo = <<>> /\ shifting = <<>>

(* The room a writer has seen is there when it writes, but for the         *)
(* consumer's if the alarm came in between, and then only once: as the     *)
(* alarm comes once, no byte has been lost before.                         *)
RoomStillThere ==
  /\ saw_room["fault"] => ~TxFull
  /\ saw_room["supervisor"] /\ spc = "alarm" /\ fpc = "none" => ~TxFull
  /\ saw_room["consumer"] /\ fpc = "none" => ~TxFull \/ (spc # "quiet" /\ lost = {})
  /\ lost # {} => spc = "raised"

(* Nothing gets between the bytes of whoever has stopped the others.       *)
AlarmLast ==
  /\ spc = "alarm" /\ fpc = "none" => TextLast(Output, "supervisor")
  /\ fpc # "none" => TextLast(Output, "fault")

(* The parts that hold by induction over the steps.                        *)
ConsoleInv == ConsoleTypeOK /\ PlacesTrue /\ RoomStillThere /\ AlarmLast

(* uart_drv.h:47: "Blocking single character transmit (waits for TX FIFO   *)
(* space)". It would hold with one owner, as in uart_drv.h:11.             *)
NoByteLost == lost = {}
=============================================================================
