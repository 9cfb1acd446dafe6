---------------------------- MODULE Console_proofs ----------------------------
(***************************************************************************)
(* Proofs about Console: what the writers of the TX FIFO may do to each    *)
(* other's text, for every length of the FIFO and of the texts.            *)
(***************************************************************************)
EXTENDS Console, SequenceTheorems, TLAPS

-----------------------------------------------------------------------------
(* Sequences                                                               *)

LEMMA ConcatAppend ==
  ASSUME NEW S, NEW s \in Seq(S), NEW t \in Seq(S), NEW e \in S
  PROVE  s \o Append(t, e) = Append(s \o t, e)
<1>1. /\ Append(t, e) \in Seq(S) /\ s \o t \in Seq(S)
      /\ s \o Append(t, e) \in Seq(S) /\ Append(s \o t, e) \in Seq(S)
  OBVIOUS
<1>2. Len(s \o Append(t, e)) = Len(Append(s \o t, e))
  OBVIOUS
<1>3. \A i \in 1 .. Len(s \o Append(t, e)) : (s \o Append(t, e))[i] = Append(s \o t, e)[i]
  OBVIOUS
<1>4. QED
  BY <1>1, <1>2, <1>3, SeqEqual

LEMMA HeadThenTail ==
  ASSUME NEW S, NEW s \in Seq(S), NEW t \in Seq(S), t # <<>>
  PROVE  (s \o <<Head(t)>>) \o Tail(t) = s \o t
<1>1. Head(t) \in S /\ Tail(t) \in Seq(S) /\ <<Head(t)>> \in Seq(S)
  OBVIOUS
<1>2. <<Head(t)>> \o Tail(t) = t
  OBVIOUS
<1>3. (s \o <<Head(t)>>) \o Tail(t) = s \o (<<Head(t)>> \o Tail(t))
  BY <1>1, ConcatAssociative
<1>4. QED
  BY <1>2, <1>3

(* The output                                                              *)

LEMMA OutputType == ConsoleTypeOK => Output \in Seq(Byte)
BY DEF ConsoleTypeOK, Output

(* A byte that moves on towards the wire stays where it is in the output.  *)
LEMMA MovesKeepOutput ==
  ASSUME ConsoleTypeOK, Shift \/ Transmit
  PROVE  Output' = Output
<1>1. /\ wire \in Seq(Byte) /\ shifting \in Seq(Byte) /\ tx_fifo \in Seq(Byte)
  BY DEF ConsoleTypeOK
<1>2. CASE Shift
  <2>1. /\ tx_fifo # <<>> /\ shifting = <<>> /\ wire' = wire
        /\ shifting' = <<Head(tx_fifo)>> /\ tx_fifo' = Tail(tx_fifo)
    BY <1>2 DEF Shift
  <2>2. (wire \o <<Head(tx_fifo)>>) \o Tail(tx_fifo) = wire \o tx_fifo
    BY <1>1, <2>1, HeadThenTail
  <2>3. wire \o <<>> = wire
    BY <1>1
  <2>4. QED
    BY <2>1, <2>2, <2>3 DEF Output
<1>3. CASE Transmit
  <2>1. wire' = wire \o shifting /\ shifting' = <<>> /\ tx_fifo' = tx_fifo
    BY <1>3 DEF Transmit
  <2>2. (wire \o shifting) \o <<>> = wire \o shifting
    BY <1>1
  <2>3. QED
    BY <2>1, <2>2 DEF Output
<1>4. QED
  BY <1>2, <1>3

LEMMA WritesAppendOutput ==
  ASSUME ConsoleTypeOK, NEW byte \in Byte, tx_fifo' = Append(tx_fifo, byte),
         UNCHANGED <<wire, shifting>>
  PROVE  Output' = Append(Output, byte)
<1>1. wire \o shifting \in Seq(Byte) /\ tx_fifo \in Seq(Byte)
  BY DEF ConsoleTypeOK
<1>2. QED
  BY <1>1, ConcatAppend DEF Output

(* What the output begins with is not affected by what comes after it.     *)
LEMMA TextKept ==
  ASSUME NEW s \in Seq(Byte), NEW byte, NEW k \in Nat, NEW n \in Nat, NEW w, TextAt(s, k, w, n)
  PROVE  TextAt(Append(s, byte), k, w, n)
<1>1. k + n <= Len(s) /\ \A i \in 1 .. n : s[k + i] = <<w, i>>
  BY DEF TextAt
<1>2. Len(Append(s, byte)) = Len(s) + 1 /\ Len(s) \in Nat
  OBVIOUS
<1>3. \A i \in 1 .. n : k + i \in 1 .. Len(s)
  BY <1>1, <1>2
<1>4. \A i \in 1 .. Len(s) : Append(s, byte)[i] = s[i]
  OBVIOUS
<1>5. \A i \in 1 .. n : Append(s, byte)[k + i] = <<w, i>>
  BY <1>1, <1>3, <1>4
<1>6. QED
  BY <1>1, <1>2, <1>5 DEF TextAt

(* Another byte of the text that comes last.                               *)
LEMMA TextGoesOn ==
  ASSUME NEW s \in Seq(Byte), NEW w, NEW n \in Nat, n <= Len(s), TextAt(s, Len(s) - n, w, n)
  PROVE  TextAt(Append(s, <<w, n + 1>>), Len(s) - n, w, n + 1)
<1> DEFINE later == Append(s, <<w, n + 1>>)
           l == Len(s)
<1>1. /\ l \in Nat /\ Len(later) = l + 1 /\ later[l + 1] = <<w, n + 1>>
      /\ \A i \in 1 .. l : later[i] = s[i]
  OBVIOUS
<1>2. n <= l /\ (l - n) + n <= l /\ \A i \in 1 .. n : s[(l - n) + i] = <<w, i>>
  BY DEF TextAt
<1> SUFFICES TextAt(later, l - n, w, n + 1)
  OBVIOUS
<1> HIDE DEF later, l
<1>3. ASSUME NEW i \in 1 .. n + 1
      PROVE  later[(l - n) + i] = <<w, i>>
  <2>1. CASE i = n + 1
    <3>1. (l - n) + i = l + 1
      BY <1>1, <2>1
    <3>2. QED
      BY <1>1, <2>1, <3>1
  <2>2. CASE i # n + 1
    <3>1. i \in 1 .. n /\ (l - n) + i \in 1 .. l
      BY <1>1, <1>2, <2>2
    <3>2. QED
      BY <1>1, <1>2, <3>1
  <2>3. QED
    BY <2>1, <2>2
<1>4. (l - n) + (n + 1) <= Len(later)
  BY <1>1
<1>5. QED
  BY <1>3, <1>4 DEF TextAt

-----------------------------------------------------------------------------
(* The types                                                               *)

LEMMA TypesNext == ConsoleTypeOK /\ [Next]_vars => ConsoleTypeOK'
<1> SUFFICES ASSUME ConsoleTypeOK, [Next]_vars
             PROVE  ConsoleTypeOK'
  OBVIOUS
<1>0. /\ tx_fifo \in Seq(Byte) /\ Len(tx_fifo) <= FifoLen
      /\ shifting \in Seq(Byte) /\ Len(shifting) <= 1
      /\ wire \in Seq(Byte) /\ lost \subseteq Byte
      /\ spc \in {"quiet", "alarm", "raised"} /\ fpc \in {"none", "text", "parked"}
      /\ next \in [Writer -> Nat] /\ saw_room \in [Writer -> BOOLEAN]
      /\ FifoLen \in Nat
  BY ConsoleAssumption DEF ConsoleTypeOK
<1>1. CASE Shift
  <2>1. /\ Head(tx_fifo) \in Byte /\ Tail(tx_fifo) \in Seq(Byte)
        /\ Len(Tail(tx_fifo)) = Len(tx_fifo) - 1 /\ Len(tx_fifo) \in Nat
    BY <1>0, <1>1 DEF Shift
  <2>2. tx_fifo' \in Seq(Byte) /\ Len(tx_fifo') <= FifoLen
    BY <1>0, <1>1, <2>1 DEF Shift
  <2>3. shifting' \in Seq(Byte) /\ Len(shifting') <= 1
    BY <1>1, <2>1 DEF Shift
  <2>4. QED
    BY <1>0, <1>1, <2>2, <2>3 DEF Shift, ConsoleTypeOK
<1>2. CASE Transmit
  <2>1. wire' \in Seq(Byte) /\ shifting' \in Seq(Byte) /\ Len(shifting') <= 1
    BY <1>0, <1>2 DEF Transmit
  <2>2. QED
    BY <1>0, <1>2, <2>1 DEF Transmit, ConsoleTypeOK
<1>3. ASSUME NEW w \in Writer, SeeRoom(w)
      PROVE  ConsoleTypeOK'
  <2>1. saw_room' \in [Writer -> BOOLEAN]
    BY <1>0, <1>3 DEF SeeRoom
  <2>2. QED
    BY <1>0, <1>3, <2>1 DEF SeeRoom, ConsoleTypeOK
<1>4. ASSUME NEW w \in Writer, WriteFifo(w)
      PROVE  ConsoleTypeOK'
  <2>1. next[w] \in Nat /\ <<w, next[w]>> \in Byte
    BY <1>0 DEF Byte
  <2>2. next' \in [Writer -> Nat] /\ saw_room' \in [Writer -> BOOLEAN]
    BY <1>0, <1>4 DEF WriteFifo
  <2>3. tx_fifo' \in Seq(Byte) /\ Len(tx_fifo') <= FifoLen /\ lost' \subseteq Byte
    <3>1. CASE TxFull
      BY <1>0, <1>4, <2>1, <3>1 DEF WriteFifo
    <3>2. CASE ~TxFull
      <4>1. tx_fifo' = Append(tx_fifo, <<w, next[w]>>) /\ lost' = lost
        BY <1>4, <3>2 DEF WriteFifo
      <4>2. Len(tx_fifo) < FifoLen /\ Len(tx_fifo) \in Nat
        BY <1>0, <3>2 DEF TxFull
      <4>3. Len(Append(tx_fifo, <<w, next[w]>>)) = Len(tx_fifo) + 1
        BY <1>0
      <4>4. Append(tx_fifo, <<w, next[w]>>) \in Seq(Byte)
        BY <1>0, <2>1
      <4>5. QED
        BY <1>0, <4>1, <4>2, <4>3, <4>4
    <3>3. QED
      BY <3>1, <3>2
  <2>4. QED
    BY <1>0, <1>4, <2>2, <2>3 DEF WriteFifo, ConsoleTypeOK
<1>5. CASE RaiseAlarm \/ AlarmRaised \/ Fault \/ FaultPark \/ UNCHANGED vars
  <2>1. /\ UNCHANGED <<tx_fifo, shifting, wire, lost, next, saw_room>>
        /\ spc' \in {"quiet", "alarm", "raised"} /\ fpc' \in {"none", "text", "parked"}
    BY <1>0, <1>5 DEF RaiseAlarm, AlarmRaised, Fault, FaultPark, vars
  <2>2. QED
    BY <1>0, <2>1 DEF ConsoleTypeOK
<1>6. QED
  BY <1>1, <1>2, <1>3, <1>4, <1>5 DEF Next

-----------------------------------------------------------------------------
(* The writers keep out of each other's way                                *)

LEMMA PlacesNext ==
  ASSUME ConsoleTypeOK, PlacesTrue, [Next]_vars
  PROVE  PlacesTrue'
<1>0. /\ next \in [Writer -> Nat] /\ saw_room \in [Writer -> BOOLEAN] /\ TextLen \in [Writer -> Nat]
      /\ {"supervisor", "fault"} \subseteq Writer
  BY ConsoleAssumption DEF ConsoleTypeOK, Writer
<1>1. \A w \in Writer : /\ next[w] \in 1 .. TextLen[w] + 1
                        /\ saw_room[w] => next[w] <= TextLen[w]
  BY DEF PlacesTrue
<1>2. /\ spc = "quiet" => next["supervisor"] = 1 /\ ~saw_room["supervisor"]
      /\ fpc = "none" => next["fault"] = 1 /\ ~saw_room["fault"]
      /\ fpc = "parked" => next["fault"] > TextLen["fault"] /\ tx_fifo = <<>> /\ shifting = <<>>
  BY DEF PlacesTrue
<1>3. CASE Shift \/ Transmit
  BY <1>1, <1>2, <1>3 DEF Shift, Transmit, PlacesTrue
<1>4. ASSUME NEW w \in Writer, SeeRoom(w)
      PROVE  PlacesTrue'
  <2>1. /\ Runs(w) /\ next[w] <= TextLen[w]
        /\ saw_room' = [saw_room EXCEPT ![w] = TRUE]
        /\ UNCHANGED <<tx_fifo, shifting, spc, fpc, next>>
    BY <1>4 DEF SeeRoom
  <2>2. /\ w = "supervisor" => spc = "alarm"
        /\ w = "fault" => fpc = "text"
    BY <2>1 DEF Runs
  <2>3. \A v \in Writer : saw_room'[v] => next[v] <= TextLen[v]
    BY <1>0, <1>1, <2>1
  <2>4. /\ spc = "quiet" => ~saw_room'["supervisor"]
        /\ fpc = "none" => ~saw_room'["fault"]
    BY <1>0, <1>2, <2>1, <2>2
  <2>5. QED
    BY <1>1, <1>2, <2>1, <2>3, <2>4 DEF PlacesTrue
<1>5. ASSUME NEW w \in Writer, WriteFifo(w)
      PROVE  PlacesTrue'
  <2>1. /\ Runs(w) /\ saw_room[w]
        /\ next' = [next EXCEPT ![w] = @ + 1]
        /\ saw_room' = [saw_room EXCEPT ![w] = FALSE]
        /\ UNCHANGED <<spc, fpc, shifting>>
    BY <1>5 DEF WriteFifo
  <2>2. /\ w = "consumer" => fpc = "none"
        /\ w = "supervisor" => spc = "alarm" /\ fpc = "none"
        /\ w = "fault" => fpc = "text"
    BY <2>1 DEF Runs, ConsumerRuns
  <2>3. fpc # "parked"
    BY <2>2 DEF Writer
  <2>4. ASSUME NEW v \in Writer
        PROVE  /\ next'[v] \in 1 .. TextLen[v] + 1
               /\ saw_room'[v] => next'[v] <= TextLen[v]
    <3>1. TextLen[v] \in Nat /\ next[v] \in Nat
      BY <1>0
    <3>2. /\ next'[v] = IF v = w THEN next[v] + 1 ELSE next[v]
          /\ saw_room'[v] = IF v = w THEN FALSE ELSE saw_room[v]
      BY <1>0, <2>1
    <3>3. next[v] \in 1 .. TextLen[v] + 1 /\ (saw_room[v] => next[v] <= TextLen[v])
      BY <1>1
    <3>4. CASE v = w
      <4>1. next[v] <= TextLen[v] /\ next'[v] = next[v] + 1 /\ ~saw_room'[v]
        BY <2>1, <3>2, <3>3, <3>4
      <4>2. QED
        BY <3>1, <4>1
    <3>5. CASE v # w
      BY <3>2, <3>3, <3>5
    <3>6. QED
      BY <3>4, <3>5
  <2>5. /\ spc = "quiet" => next'["supervisor"] = 1 /\ ~saw_room'["supervisor"]
        /\ fpc = "none" => next'["fault"] = 1 /\ ~saw_room'["fault"]
    BY <1>0, <1>2, <2>1, <2>2
  <2>6. QED
    BY <2>1, <2>3, <2>4, <2>5 DEF PlacesTrue
<1>6. CASE RaiseAlarm \/ AlarmRaised \/ Fault \/ FaultPark \/ UNCHANGED vars
  BY <1>1, <1>2, <1>6 DEF RaiseAlarm, AlarmRaised, Fault, FaultPark, TxIdle, vars, PlacesTrue
<1>7. QED
  BY <1>3, <1>4, <1>5, <1>6 DEF Next

(* Only a byte of the consumer's is lost, when the alarm has come in       *)
(* between its look at the FIFO and its write, and none before it.         *)
LEMMA OnlyConsumerLoses ==
  ASSUME ConsoleTypeOK, RoomStillThere, NEW w \in Writer, WriteFifo(w), TxFull
  PROVE  w = "consumer" /\ lost = {} /\ spc = "raised" /\ fpc = "none"
<1>1. Runs(w) /\ saw_room[w]
  BY DEF WriteFifo
<1>2. w \in {"consumer", "supervisor", "fault"}
  BY DEF Writer
<1>3. CASE w = "consumer"
  <2>1. fpc = "none" /\ spc # "alarm"
    BY <1>1, <1>3 DEF Runs, ConsumerRuns
  <2>2. spc # "quiet" /\ lost = {}
    BY <1>1, <1>3, <2>1 DEF RoomStillThere
  <2>3. QED
    BY <1>3, <2>1, <2>2 DEF ConsoleTypeOK
<1>4. CASE w = "supervisor"
  <2>1. fpc = "none" /\ spc = "alarm"
    BY <1>1, <1>4 DEF Runs
  <2>2. QED
    BY <1>1, <1>4, <2>1 DEF RoomStillThere
<1>5. CASE w = "fault"
  BY <1>1, <1>5 DEF RoomStillThere
<1>6. QED
  BY <1>2, <1>3, <1>4, <1>5

LEMMA RoomNext ==
  ASSUME ConsoleTypeOK, PlacesTrue, RoomStillThere, [Next]_vars
  PROVE  RoomStillThere'
<1>0. /\ saw_room \in [Writer -> BOOLEAN] /\ FifoLen \in Nat /\ Len(tx_fifo) \in Nat
      /\ spc \in {"quiet", "alarm", "raised"}
      /\ {"consumer", "supervisor", "fault"} \subseteq Writer
  BY ConsoleAssumption DEF ConsoleTypeOK, Writer
<1>1. /\ saw_room["fault"] => ~TxFull
      /\ saw_room["supervisor"] /\ spc = "alarm" /\ fpc = "none" => ~TxFull
      /\ saw_room["consumer"] /\ fpc = "none" => ~TxFull \/ (spc # "quiet" /\ lost = {})
      /\ lost # {} => spc = "raised"
  BY DEF RoomStillThere
<1>2. /\ spc = "quiet" => ~saw_room["supervisor"]
      /\ fpc = "none" => ~saw_room["fault"]
  BY DEF PlacesTrue
<1>3. CASE Shift \/ Transmit
  <2>1. Len(tx_fifo') \in Nat /\ Len(tx_fifo') <= Len(tx_fifo)
    BY <1>0, <1>3 DEF ConsoleTypeOK, Shift, Transmit
  <2>2. ~TxFull => ~TxFull'
    BY <1>0, <2>1 DEF TxFull
  <2>3. UNCHANGED <<saw_room, lost, spc, fpc>>
    BY <1>3 DEF Shift, Transmit
  <2>4. QED
    BY <1>1, <2>2, <2>3 DEF RoomStillThere
<1>4. ASSUME NEW w \in Writer, SeeRoom(w)
      PROVE  RoomStillThere'
  <2>1. ~TxFull /\ UNCHANGED <<tx_fifo, lost, spc, fpc>>
    BY <1>4 DEF SeeRoom
  <2>2. ~TxFull'
    BY <2>1 DEF TxFull
  <2>3. QED
    BY <1>1, <2>1, <2>2 DEF RoomStillThere
<1>5. ASSUME NEW w \in Writer, WriteFifo(w)
      PROVE  RoomStillThere'
  <2>1. /\ Runs(w) /\ saw_room' = [saw_room EXCEPT ![w] = FALSE] /\ UNCHANGED <<spc, fpc>>
        /\ ~TxFull => lost' = lost
    BY <1>5 DEF WriteFifo
  <2>2. lost' # {} => spc = "raised"
    BY <1>1, <1>5, <2>1, OnlyConsumerLoses
  <2>3. CASE w = "consumer"
    <3>1. fpc = "none" /\ spc # "alarm" /\ ~saw_room'["consumer"] /\ ~saw_room'["fault"]
      BY <1>0, <1>2, <2>1, <2>3 DEF Runs, ConsumerRuns
    <3>2. QED
      BY <2>1, <2>2, <3>1 DEF RoomStillThere
  <2>4. CASE w = "supervisor"
    <3>1. fpc = "none" /\ spc = "alarm" /\ ~saw_room'["supervisor"] /\ ~saw_room'["fault"]
      BY <1>0, <1>2, <2>1, <2>4 DEF Runs
    <3>2. lost' = {}
      BY <2>2, <3>1
    <3>3. QED
      BY <2>1, <3>1, <3>2 DEF RoomStillThere
  <2>5. CASE w = "fault"
    <3>1. fpc = "text" /\ ~saw_room'["fault"]
      BY <1>0, <2>1, <2>5 DEF Runs
    <3>2. QED
      BY <2>1, <2>2, <3>1 DEF RoomStillThere
  <2>6. QED
    BY <2>3, <2>4, <2>5 DEF Writer
<1>6. CASE RaiseAlarm \/ AlarmRaised \/ Fault \/ FaultPark \/ UNCHANGED vars
  <2>1. UNCHANGED <<tx_fifo, saw_room, lost>>
    BY <1>6 DEF RaiseAlarm, AlarmRaised, Fault, FaultPark, vars
  <2>2. TxFull' <=> TxFull
    BY <2>1 DEF TxFull
  <2>3. CASE RaiseAlarm
    BY <1>1, <1>2, <2>1, <2>2, <2>3 DEF RaiseAlarm, RoomStillThere
  <2>4. CASE AlarmRaised
    BY <1>1, <1>2, <2>1, <2>2, <2>4 DEF AlarmRaised, RoomStillThere
  <2>5. CASE Fault
    BY <1>1, <1>2, <2>1, <2>2, <2>5 DEF Fault, RoomStillThere
  <2>6. CASE FaultPark
    BY <1>1, <1>2, <2>1, <2>2, <2>6 DEF FaultPark, RoomStillThere
  <2>7. CASE UNCHANGED vars
    BY <1>1, <1>2, <2>1, <2>2, <2>7 DEF vars, RoomStillThere
  <2>8. QED
    BY <1>6, <2>3, <2>4, <2>5, <2>6, <2>7
<1>7. QED
  BY <1>3, <1>4, <1>5, <1>6 DEF Next

-----------------------------------------------------------------------------
(* Steps, as far as the output can tell                                    *)

(* A step leaves the output alone, adds the byte of the writer to it, or   *)
(* loses that byte, which is then the consumer's.                          *)
Quiet == Output' = Output /\ UNCHANGED <<next, lost>>

Adds(w) ==
  /\ Runs(w) /\ UNCHANGED <<spc, fpc, lost>>
  /\ Output' = Append(Output, <<w, next[w]>>)
  /\ next' = [next EXCEPT ![w] = @ + 1]

Loses ==
  /\ ConsumerRuns /\ UNCHANGED <<spc, fpc>>
  /\ Output' = Output /\ lost = {} /\ lost' = {<<"consumer", next["consumer"]>>}
  /\ next' = [next EXCEPT !["consumer"] = @ + 1]

LEMMA StepKinds ==
  ASSUME ConsoleTypeOK, RoomStillThere, [Next]_vars
  PROVE  Quiet \/ (\E w \in Writer : Adds(w)) \/ Loses
<1>1. CASE Shift \/ Transmit
  <2>1. Output' = Output
    BY <1>1, MovesKeepOutput
  <2>2. QED
    BY <1>1, <2>1 DEF Shift, Transmit, Quiet
<1>2. ASSUME UNCHANGED <<tx_fifo, shifting, wire, lost, next>>
      PROVE  Quiet
  BY <1>2 DEF Quiet, Output
<1>3. ASSUME NEW w \in Writer, SeeRoom(w)
      PROVE  Quiet
  BY <1>2, <1>3 DEF SeeRoom
<1>4. ASSUME NEW w \in Writer, WriteFifo(w), ~TxFull
      PROVE  Adds(w)
  <2>1. <<w, next[w]>> \in Byte
    BY DEF ConsoleTypeOK, Byte
  <2>2. /\ Runs(w) /\ UNCHANGED <<spc, fpc, lost, wire, shifting>>
        /\ tx_fifo' = Append(tx_fifo, <<w, next[w]>>)
        /\ next' = [next EXCEPT ![w] = @ + 1]
    BY <1>4 DEF WriteFifo
  <2>3. Output' = Append(Output, <<w, next[w]>>)
    BY <2>1, <2>2, WritesAppendOutput
  <2>4. QED
    BY <2>2, <2>3 DEF Adds
<1>5. ASSUME NEW w \in Writer, WriteFifo(w), TxFull
      PROVE  Loses
  <2>1. w = "consumer" /\ lost = {} /\ spc = "raised" /\ fpc = "none"
    BY <1>5, OnlyConsumerLoses
  <2>2. /\ UNCHANGED <<spc, fpc, wire, shifting, tx_fifo>>
        /\ lost' = lost \cup {<<w, next[w]>>}
        /\ next' = [next EXCEPT ![w] = @ + 1]
    BY <1>5 DEF WriteFifo
  <2>3. QED
    BY <2>1, <2>2 DEF Loses, ConsumerRuns, Output
<1>6. CASE RaiseAlarm \/ AlarmRaised \/ Fault \/ FaultPark \/ UNCHANGED vars
  BY <1>2, <1>6 DEF RaiseAlarm, AlarmRaised, Fault, FaultPark, vars
<1>7. QED
  BY <1>1, <1>3, <1>4, <1>5, <1>6 DEF Next

-----------------------------------------------------------------------------
(* Alarms in one piece                                                     *)

LEMMA LastIsUnbroken ==
  ASSUME ConsoleTypeOK, NEW w \in Writer, next[w] >= 1, TextLast(Output, w)
  PROVE  Unbroken(w)
<1>1. Len(Output) \in Nat /\ next[w] \in Nat
  BY OutputType DEF ConsoleTypeOK
<1>2. /\ next[w] - 1 <= Len(Output)
      /\ TextAt(Output, Len(Output) - (next[w] - 1), w, next[w] - 1)
  BY DEF TextLast
<1>3. Len(Output) - (next[w] - 1) \in 0 .. Len(Output)
  BY <1>1, <1>2
<1>4. QED
  BY <1>2, <1>3 DEF Unbroken

(* A writer that writes after its own last byte goes on with its text.     *)
LEMMA LastGoesOn ==
  ASSUME ConsoleTypeOK, NEW w \in Writer, next[w] >= 1, TextLast(Output, w), Adds(w)
  PROVE  TextLast(Output, w)'
<1> DEFINE n == next[w] - 1
           l == Len(Output)
<1>1. Output \in Seq(Byte) /\ next[w] \in Nat
  BY OutputType DEF ConsoleTypeOK
<1>2. l \in Nat /\ n \in Nat /\ n + 1 = next[w]
  BY <1>1
<1>3. n <= l /\ TextAt(Output, l - n, w, n)
  BY DEF TextLast
<1>4. Output' = Append(Output, <<w, n + 1>>) /\ next'[w] = next[w] + 1
  BY <1>2 DEF Adds, ConsoleTypeOK
<1>5. TextAt(Output', l - n, w, n + 1)
  BY <1>1, <1>2, <1>3, <1>4, TextGoesOn
<1>6. Len(Output') = l + 1
  BY <1>1, <1>4
<1> HIDE DEF n, l
<1>7. next'[w] - 1 = n + 1 /\ n + 1 <= l + 1 /\ (l + 1) - (n + 1) = l - n
  BY <1>2, <1>3, <1>4
<1>8. QED
  BY <1>5, <1>6, <1>7 DEF TextLast

(* A writer's text stays in one piece while others write.                  *)
LEMMA OthersKeepUnbroken ==
  ASSUME ConsoleTypeOK, NEW w \in Writer, NEW v \in Writer, v # w, next[v] >= 1,
         Unbroken(v), Adds(w)
  PROVE  Unbroken(v)'
<1>1. Output \in Seq(Byte) /\ next[v] \in Nat /\ next'[v] = next[v]
  BY OutputType DEF ConsoleTypeOK, Adds
<1>2. PICK k \in 0 .. Len(Output) : TextAt(Output, k, v, next[v] - 1)
  BY DEF Unbroken
<1>3. k \in Nat /\ next[v] - 1 \in Nat
  BY <1>1, <1>2
<1>4. TextAt(Output', k, v, next[v] - 1)
  BY <1>1, <1>2, <1>3, TextKept DEF Adds
<1>5. Len(Output') = Len(Output) + 1 /\ k \in 0 .. Len(Output) + 1
  BY <1>1, <1>2 DEF Adds
<1>6. QED
  BY <1>1, <1>4, <1>5 DEF Unbroken

(* Who stopped the others is the last to have written.                     *)
LEMMA LastNext ==
  ASSUME ConsoleTypeOK, PlacesTrue, RoomStillThere, AlarmLast, [Next]_vars
  PROVE  AlarmLast'
<1>0. /\ Output \in Seq(Byte) /\ Len(Output) \in Nat
      /\ "supervisor" \in Writer /\ "fault" \in Writer
      /\ next["supervisor"] >= 1 /\ next["fault"] >= 1
  BY OutputType DEF PlacesTrue, Writer
<1>1. /\ spc = "alarm" /\ fpc = "none" => TextLast(Output, "supervisor")
      /\ fpc # "none" => TextLast(Output, "fault")
  BY DEF AlarmLast
<1>2. ASSUME NEW w \in Writer, next[w] = 1
      PROVE  TextLast(Output, w)
  BY <1>0, <1>2 DEF TextLast, TextAt
<1>3. ASSUME NEW w \in Writer, Adds(w)
      PROVE  AlarmLast'
  <2>1. Runs(w) /\ UNCHANGED <<spc, fpc>>
    BY <1>3 DEF Adds
  <2>2. CASE w = "consumer"
    BY <2>1, <2>2 DEF Runs, ConsumerRuns, AlarmLast
  <2>3. CASE w = "supervisor"
    <3>1. spc = "alarm" /\ fpc = "none"
      BY <2>1, <2>3 DEF Runs
    <3>2. TextLast(Output, w)'
      BY <1>0, <1>1, <1>3, <2>3, <3>1, LastGoesOn
    <3>3. QED
      BY <2>1, <2>3, <3>1, <3>2 DEF AlarmLast
  <2>4. CASE w = "fault"
    <3>1. fpc = "text"
      BY <2>1, <2>4 DEF Runs
    <3>2. TextLast(Output, w)'
      BY <1>0, <1>1, <1>3, <2>4, <3>1, LastGoesOn
    <3>3. QED
      BY <2>1, <2>4, <3>1, <3>2 DEF AlarmLast
  <2>5. QED
    BY <2>2, <2>3, <2>4 DEF Writer
<1>4. CASE Loses
  BY <1>4 DEF Loses, ConsumerRuns, AlarmLast
<1>5. CASE Quiet
  <2>1. \A w : TextLast(Output, w)' <=> TextLast(Output, w)
    BY <1>5 DEF Quiet, TextLast, TextAt
  <2>2. spc' = "alarm" => spc = "alarm" \/ TextLast(Output, "supervisor")
    <3>1. CASE RaiseAlarm
      BY <1>0, <1>2, <3>1 DEF RaiseAlarm, PlacesTrue
    <3>2. CASE ~RaiseAlarm
      BY <3>2 DEF Next, Shift, Transmit, SeeRoom, WriteFifo, AlarmRaised, Fault, FaultPark, vars
    <3>3. QED
      BY <3>1, <3>2
  <2>3. fpc' # "none" => fpc # "none" \/ TextLast(Output, "fault")
    <3>1. CASE Fault
      BY <1>0, <1>2, <3>1 DEF Fault, PlacesTrue
    <3>2. CASE ~Fault
      BY <3>2 DEF Next, Shift, Transmit, SeeRoom, WriteFifo, RaiseAlarm, AlarmRaised, FaultPark, vars
    <3>3. QED
      BY <3>1, <3>2
  <2>4. fpc' = "none" => fpc = "none"
    BY DEF Next, Shift, Transmit, SeeRoom, WriteFifo, RaiseAlarm, AlarmRaised, Fault, FaultPark, vars
  <2>5. QED
    BY <1>1, <2>1, <2>2, <2>3, <2>4 DEF AlarmLast
<1>6. QED
  BY <1>3, <1>4, <1>5, StepKinds

LEMMA InitInv == Init => ConsoleInv
<1> SUFFICES ASSUME Init PROVE ConsoleInv
  OBVIOUS
<1>1. \A w \in Writer : next[w] = 1 /\ ~saw_room[w] /\ TextLen[w] \in Nat
  BY ConsoleAssumption DEF Init
<1>2. ConsoleTypeOK
  BY ConsoleAssumption DEF Init, ConsoleTypeOK
<1>3. PlacesTrue
  BY <1>1 DEF Init, PlacesTrue, Writer
<1>4. RoomStillThere
  BY <1>1 DEF Init, RoomStillThere, Writer
<1>5. AlarmLast
  BY DEF Init, AlarmLast
<1>6. QED
  BY <1>2, <1>3, <1>4, <1>5 DEF ConsoleInv

LEMMA InvNext == ConsoleInv /\ [Next]_vars => ConsoleInv'
BY TypesNext, PlacesNext, RoomNext, LastNext DEF ConsoleInv

(* Between a writer's look at the FIFO and its write nobody takes the room *)
(* but the supervisor, from the consumer, once; and an alarm or a fault    *)
(* has the output for itself until it is done.                             *)
THEOREM ConsoleInvariant == Spec => []ConsoleInv
BY InitInv, InvNext, PTL DEF Spec

(* Both alarms, step by step.                                              *)
LEMMA WholeNext ==
  ASSUME ConsoleInv, ConsoleInv', AlarmsWhole, [Next]_vars
  PROVE  AlarmsWhole'
<1>0. /\ ConsoleTypeOK /\ RoomStillThere /\ "supervisor" \in Writer /\ "fault" \in Writer
      /\ next["supervisor"] >= 1 /\ next["fault"] >= 1
      /\ next'["supervisor"] >= 1 /\ next'["fault"] >= 1
      /\ Unbroken("supervisor") /\ Unbroken("fault")
  BY DEF ConsoleInv, PlacesTrue, Writer, AlarmsWhole
<1>1. ASSUME NEW w \in Writer, NEW v \in {"supervisor", "fault"}, Adds(w)
      PROVE  Unbroken(v)'
  <2>1. CASE v # w
    BY <1>0, <1>1, <2>1, OthersKeepUnbroken
  <2>2. CASE v = w
    <3>1. TextLast(Output, v)
      BY <1>1, <2>2 DEF Adds, Runs, ConsoleInv, AlarmLast
    <3>2. TextLast(Output, v)'
      BY <1>0, <1>1, <2>2, <3>1, LastGoesOn
    <3>3. ConsoleTypeOK'
      BY DEF ConsoleInv
    <3>4. Len(Output') \in Nat /\ next'[v] \in Nat /\ next'[v] >= 1
      <4>1. Output' \in Seq(Byte)
        BY <3>3 DEF ConsoleTypeOK, Output
      <4>2. QED
        BY <1>0, <3>3, <4>1 DEF ConsoleTypeOK
    <3>5. /\ next'[v] - 1 <= Len(Output')
          /\ TextAt(Output', Len(Output') - (next'[v] - 1), v, next'[v] - 1)
      BY <3>2 DEF TextLast
    <3>6. Len(Output') - (next'[v] - 1) \in 0 .. Len(Output')
      BY <3>4, <3>5
    <3>7. QED
      BY <3>5, <3>6 DEF Unbroken
  <2>3. QED
    BY <2>1, <2>2
<1>2. ASSUME NEW v \in {"supervisor", "fault"}, Quiet \/ Loses
      PROVE  Unbroken(v)'
  <2>1. Output' = Output /\ next'[v] = next[v]
    BY <1>2 DEF Quiet, Loses, ConsoleInv, ConsoleTypeOK, Writer
  <2>2. QED
    BY <1>0, <2>1 DEF Unbroken, TextAt
<1>3. Unbroken("supervisor")' /\ Unbroken("fault")'
  BY <1>0, <1>1, <1>2, StepKinds
<1>4. FaultTextOut'
  <2>1. SUFFICES ASSUME fpc' = "parked"
                 PROVE  next'["fault"] > TextLen["fault"] /\ TextLast(wire, "fault")'
    BY DEF FaultTextOut
  <2>2. next'["fault"] > TextLen["fault"] /\ tx_fifo' = <<>> /\ shifting' = <<>>
    BY <2>1 DEF ConsoleInv, PlacesTrue
  <2>3. TextLast(Output, "fault")'
    BY <2>1 DEF ConsoleInv, AlarmLast
  <2>4. Output' = wire'
    BY <2>2 DEF ConsoleInv, ConsoleTypeOK, Output
  <2>5. QED
    BY <2>2, <2>3, <2>4 DEF TextLast, TextAt
<1>5. QED
  BY <1>3, <1>4 DEF AlarmsWhole

LEMMA InitWhole == Init => AlarmsWhole
<1> SUFFICES ASSUME Init PROVE AlarmsWhole
  OBVIOUS
<1>1. ASSUME NEW w \in Writer
      PROVE  Unbroken(w)
  <2>1. ConsoleTypeOK /\ next[w] = 1
    BY InitInv DEF Init, ConsoleInv
  <2>2. Len(Output) \in Nat
    BY <2>1, OutputType
  <2>3. TextAt(Output, 0, w, 0)
    BY <2>2 DEF TextAt
  <2>4. 0 \in 0 .. Len(Output) /\ next[w] - 1 = 0
    BY <2>1, <2>2
  <2>5. QED
    BY <2>3, <2>4 DEF Unbroken
<1>2. FaultTextOut
  BY DEF Init, FaultTextOut
<1>3. QED
  BY <1>1, <1>2 DEF AlarmsWhole, Writer

LEMMA WholeStep == AlarmsWhole /\ ConsoleInv /\ ConsoleInv' /\ [Next]_vars => AlarmsWhole'
BY WholeNext

(* The supervisor's alarm and the fault's text each come out whole, though *)
(* no lock guards the UART; and the handler parks after its last bit.      *)
THEOREM AlarmsReadable == Spec => []AlarmsWhole
BY InitWhole, WholeStep, ConsoleInvariant, PTL DEF Spec

-----------------------------------------------------------------------------
(* The consumer's text                                                     *)

LEMMA WrittenGrows ==
  ASSUME ConsoleTypeOK, PlacesTrue, NEW w \in Writer, next' = [next EXCEPT ![w] = @ + 1]
  PROVE  WrittenBytes' = WrittenBytes \cup {<<w, next[w]>>} /\ <<w, next[w]>> \notin WrittenBytes
<1>1. \A v \in Writer : /\ next[v] \in Nat /\ next[v] >= 1
                        /\ next'[v] = IF v = w THEN next[v] + 1 ELSE next[v]
  BY DEF ConsoleTypeOK, PlacesTrue
<1>2. \A byte : byte \in WrittenBytes <=> \E v \in Writer : \E i \in 1 .. next[v] - 1 : byte = <<v, i>>
  BY DEF WrittenBytes
<1>3. \A byte : byte \in WrittenBytes' <=> \E v \in Writer : \E i \in 1 .. next'[v] - 1 : byte = <<v, i>>
  BY DEF WrittenBytes
<1>4. next[w] \in Nat /\ next[w] >= 1 /\ next'[w] = next[w] + 1
  BY <1>1
<1>5. 1 .. next'[w] - 1 = (1 .. next[w] - 1) \cup {next[w]}
  BY <1>4
<1>6. next[w] \notin 1 .. next[w] - 1
  BY <1>4
<1>7. <<w, next[w]>> \notin WrittenBytes
  BY <1>2, <1>6
<1>8. \A v \in Writer : v # w => next'[v] = next[v]
  BY <1>1
<1>9. ASSUME NEW byte
      PROVE  byte \in WrittenBytes' <=> byte \in WrittenBytes \/ byte = <<w, next[w]>>
  <2>1. ASSUME NEW v \in Writer
        PROVE  (\E i \in 1 .. next'[v] - 1 : byte = <<v, i>>)
                 <=> (\E i \in 1 .. next[v] - 1 : byte = <<v, i>>)
                      \/ (v = w /\ byte = <<w, next[w]>>)
    BY <1>5, <1>8
  <2>2. QED
    BY <1>2, <1>3, <2>1
<1>10. QED
  BY <1>7, <1>9

(* Appending adds one byte to those of a sequence.                         *)
LEMMA BytesOfAppend ==
  ASSUME NEW s \in Seq(Byte), NEW byte
  PROVE  /\ DOMAIN s = 1 .. Len(s) /\ Len(s) \in Nat
         /\ DOMAIN Append(s, byte) = 1 .. Len(s) + 1
         /\ \A i \in 1 .. Len(s) : Append(s, byte)[i] = s[i]
         /\ Append(s, byte)[Len(s) + 1] = byte
         /\ Range(Append(s, byte)) = Range(s) \cup {byte}
<1> DEFINE later == Append(s, byte)
<1>1. /\ DOMAIN s = 1 .. Len(s) /\ Len(s) \in Nat
      /\ DOMAIN later = 1 .. Len(s) + 1
      /\ \A i \in 1 .. Len(s) : later[i] = s[i]
      /\ later[Len(s) + 1] = byte
  OBVIOUS
<1> SUFFICES Range(later) = Range(s) \cup {byte}
  BY <1>1
<1> HIDE DEF later
<1>2. 1 .. Len(s) + 1 = (1 .. Len(s)) \cup {Len(s) + 1}
  BY <1>1
<1>3. QED
  BY <1>1, <1>2 DEF Range

LEMMA AddsInOrder ==
  ASSUME ConsoleInv, ConsumerLosesOneByte, NEW w \in Writer, Adds(w)
  PROVE  ConsumerLosesOneByte'
<1> DEFINE byte == <<w, next[w]>>
           n == Len(Output)
<1>1. /\ ConsoleTypeOK /\ PlacesTrue /\ Output \in Seq(Byte)
      /\ Output' = Append(Output, byte) /\ lost' = lost
      /\ next' = [next EXCEPT ![w] = @ + 1]
  BY OutputType DEF ConsoleInv, Adds
<1>2. /\ DOMAIN Output = 1 .. n /\ n \in Nat /\ DOMAIN Output' = 1 .. n + 1
      /\ \A i \in 1 .. n : Output'[i] = Output[i]
      /\ Output'[n + 1] = byte
      /\ Range(Output') = Range(Output) \cup {byte}
  <2> DEFINE later == Append(Output, byte)
  <2>1. /\ DOMAIN Output = 1 .. n /\ n \in Nat /\ DOMAIN later = 1 .. n + 1
        /\ \A i \in 1 .. n : later[i] = Output[i]
        /\ later[n + 1] = byte
        /\ Range(later) = Range(Output) \cup {byte}
    BY <1>1, BytesOfAppend
  <2>2. Output' = later
    BY <1>1
  <2> HIDE DEF later, byte, n
  <2>3. QED
    BY <2>1, <2>2
<1>3. WrittenBytes' = WrittenBytes \cup {byte} /\ byte \notin WrittenBytes
  BY <1>1, WrittenGrows
<1>4. /\ Range(Output) = WrittenBytes \ lost /\ OutputInOrder
      /\ lost = {} \/ \E i \in 1 .. next["consumer"] - 1 : lost = {<<"consumer", i>>}
  BY DEF ConsumerLosesOneByte
<1>5. lost \subseteq WrittenBytes
  BY <1>4 DEF WrittenBytes, Writer
<1>6. next[w] \in Nat
  BY <1>1 DEF ConsoleTypeOK
<1>7. \A v \in Writer : next[v] \in Nat /\ next'[v] \in Nat /\ next'[v] >= next[v]
  BY <1>1 DEF ConsoleTypeOK
<1> HIDE DEF n
<1>8. lost' = {} \/ \E i \in 1 .. next'["consumer"] - 1 : lost' = {<<"consumer", i>>}
  <2>1. \A i \in 1 .. next["consumer"] - 1 : i \in 1 .. next'["consumer"] - 1
    BY <1>7 DEF Writer
  <2>2. QED
    BY <1>1, <1>4, <2>1
<1>9. Range(Output') = WrittenBytes' \ lost'
  BY <1>1, <1>2, <1>3, <1>4, <1>5
<1>10. ASSUME NEW i \in 1 .. n + 1, NEW j \in 1 .. n + 1, i < j, Output'[i][1] = Output'[j][1]
       PROVE  Output'[i][2] < Output'[j][2]
  <2>1. i \in 1 .. n
    BY <1>2, <1>10
  <2>2. CASE j \in 1 .. n
    BY <1>2, <1>4, <1>10, <2>1, <2>2 DEF OutputInOrder
  <2>3. CASE j = n + 1
    <3>1. Output[i] \in WrittenBytes /\ Output'[i] = Output[i] /\ Output'[j] = byte
      BY <1>2, <1>4, <2>1, <2>3 DEF Range
    <3>2. PICK v \in Writer : \E k \in 1 .. next[v] - 1 : Output[i] = <<v, k>>
      BY <3>1 DEF WrittenBytes
    <3>3. PICK k \in 1 .. next[v] - 1 : Output[i] = <<v, k>>
      BY <3>2
    <3>4. v = w
      BY <1>10, <3>1, <3>3
    <3>5. k < next[w]
      BY <1>6, <3>3, <3>4
    <3>6. QED
      BY <3>1, <3>3, <3>5
  <2>4. QED
    BY <1>2, <2>2, <2>3
<1>11. OutputInOrder'
  BY <1>2, <1>10 DEF OutputInOrder
<1>12. QED
  BY <1>8, <1>9, <1>11 DEF ConsumerLosesOneByte

LEMMA LosesOne ==
  ASSUME ConsoleInv, ConsumerLosesOneByte, Loses
  PROVE  ConsumerLosesOneByte'
<1> DEFINE i == next["consumer"]
<1>1. /\ ConsoleTypeOK /\ PlacesTrue /\ "consumer" \in Writer
      /\ Output' = Output /\ lost = {} /\ lost' = {<<"consumer", i>>}
      /\ next' = [next EXCEPT !["consumer"] = @ + 1]
  BY DEF ConsoleInv, Loses, Writer
<1>2. WrittenBytes' = WrittenBytes \cup {<<"consumer", i>>} /\ <<"consumer", i>> \notin WrittenBytes
  BY <1>1, WrittenGrows
<1>3. Range(Output) = WrittenBytes \ lost /\ OutputInOrder
  BY DEF ConsumerLosesOneByte
<1>4. Range(Output') = Range(Output) /\ OutputInOrder'
  BY <1>1, <1>3 DEF Range, OutputInOrder
<1>5. i \in Nat /\ i >= 1 /\ next'["consumer"] = i + 1
  BY <1>1 DEF ConsoleTypeOK, PlacesTrue
<1>6. i \in 1 .. next'["consumer"] - 1
  BY <1>5
<1>7. Range(Output') = WrittenBytes' \ lost'
  BY <1>1, <1>2, <1>3, <1>4
<1>8. QED
  BY <1>1, <1>4, <1>6, <1>7 DEF ConsumerLosesOneByte

LEMMA InitLoses == Init => ConsumerLosesOneByte
<1> SUFFICES ASSUME Init PROVE ConsumerLosesOneByte
  OBVIOUS
<1>1. /\ wire = <<>> /\ shifting = <<>> /\ tx_fifo = <<>> /\ lost = {}
      /\ \A w \in Writer : next[w] = 1
  BY DEF Init
<1>2. Output = <<>>
  BY <1>1 DEF Output
<1>3. DOMAIN Output = {}
  BY <1>2
<1>4. WrittenBytes = {}
  BY <1>1 DEF WrittenBytes
<1>5. Range(Output) = {} /\ OutputInOrder
  BY <1>3 DEF Range, OutputInOrder
<1>6. QED
  BY <1>1, <1>4, <1>5 DEF ConsumerLosesOneByte

LEMMA LosesNext ==
  ConsumerLosesOneByte /\ ConsoleInv /\ [Next]_vars => ConsumerLosesOneByte'
<1> SUFFICES ASSUME ConsumerLosesOneByte, ConsoleInv, [Next]_vars
             PROVE  ConsumerLosesOneByte'
  OBVIOUS
<1>1. CASE Quiet
  BY <1>1 DEF Quiet, ConsumerLosesOneByte, Range, OutputInOrder, WrittenBytes
<1>2. Quiet \/ (\E w \in Writer : Adds(w)) \/ Loses
  BY StepKinds DEF ConsoleInv
<1>3. QED
  BY <1>1, <1>2, AddsInOrder, LosesOne

(* All that the three writers write comes out in each one's order, but for *)
(* the one byte that an alarm may cost the consumer, whatever the lengths. *)
THEOREM OneByteAtMost == Spec => []ConsumerLosesOneByte
BY InitLoses, LosesNext, ConsoleInvariant, PTL DEF Spec
=============================================================================
