------------------------------ MODULE Ui_proofs ------------------------------
(***************************************************************************)
(* Proofs about Ui: the debouncer computes the stable level, no line error *)
(* escapes the counters, and no press and no command is missed or seen     *)
(* twice, for every number of buttons, every debounce length and every     *)
(* length of the FIFO and the queue.                                       *)
(***************************************************************************)
EXTENDS UiClock, FiniteSetTheorems, TLAPS

-----------------------------------------------------------------------------
(* The debouncer                                                           *)

(* One more scan does not change what was stable before it.                *)
LEMMA StableBefore ==
  ASSUME NEW read \in Seq(BOOLEAN), NEW raw \in BOOLEAN, NEW k \in 1 .. Len(read)
  PROVE  StableAt(Append(read, raw), k) <=> StableAt(read, k)
<1> DEFINE later == Append(read, raw)
<1>1. DebounceScans \in Nat \ {0}
  BY UiAssumption
<1>2. \A i \in 1 .. Len(read) : later[i] = read[i]
  OBVIOUS
<1>3. ASSUME k > DebounceScans
      PROVE  \A i \in k - DebounceScans + 1 .. k : i \in 1 .. Len(read)
  BY <1>1, <1>3
<1> HIDE DEF later
<1>4. StableAt(later, k) <=> StableAt(read, k)
  BY <1>1, <1>2, <1>3 DEF StableAt
<1>5. QED
  BY <1>4 DEF later

(* A scan that reads the stable level, or makes no level stable, leaves    *)
(* the stable level as it was.                                             *)
LEMMA StableLevelKept ==
  ASSUME NEW read \in Seq(BOOLEAN), NEW raw \in BOOLEAN, NEW level \in BOOLEAN,
         Len(read) >= 1, StableLevel(read, Len(read), level),
         ~StableAt(Append(read, raw), Len(read) + 1) \/ raw = level
  PROVE  StableLevel(Append(read, raw), Len(read) + 1, level)
<1> DEFINE n == Len(read)
           later == Append(read, raw)
<1>1. n \in Nat /\ n >= 1
  OBVIOUS
<1>2. (\A i \in 1 .. n : later[i] = read[i]) /\ later[n + 1] = raw
  OBVIOUS
<1>3. \A k \in 1 .. n : StableAt(later, k) <=> StableAt(read, k)
  BY StableBefore
<1>4. StableLevel(read, n, level) /\ (~StableAt(later, n + 1) \/ raw = level)
  OBVIOUS
<1> SUFFICES StableLevel(later, n + 1, level)
  OBVIOUS
<1> HIDE DEF n, later
<1>5. CASE StableAt(later, n + 1)
  <2>1. \A k \in (n + 1) + 1 .. n + 1 : ~StableAt(later, k)
    BY <1>1
  <2>2. n + 1 \in 1 .. n + 1 /\ level = later[n + 1]
    BY <1>1, <1>2, <1>4, <1>5
  <2>3. QED
    BY <1>5, <2>1, <2>2 DEF StableLevel
<1>6. CASE ~StableAt(later, n + 1)
  <2>1. CASE /\ \A k \in 1 .. n : ~StableAt(read, k)
             /\ level = read[1]
    <3>1. \A k \in 1 .. n + 1 : k \in 1 .. n \/ k = n + 1
      BY <1>1
    <3>2. \A k \in 1 .. n + 1 : ~StableAt(later, k)
      BY <1>3, <1>6, <2>1, <3>1
    <3>3. level = later[1]
      BY <1>1, <1>2, <2>1
    <3>4. QED
      BY <3>2, <3>3 DEF StableLevel
  <2>2. CASE \E m \in 1 .. n :
               /\ StableAt(read, m) /\ level = read[m]
               /\ \A k \in m + 1 .. n : ~StableAt(read, k)
    <3>1. PICK m \in 1 .. n : /\ StableAt(read, m) /\ level = read[m]
                              /\ \A k \in m + 1 .. n : ~StableAt(read, k)
      BY <2>2
    <3>2. m \in 1 .. n + 1 /\ StableAt(later, m) /\ level = later[m]
      BY <1>1, <1>2, <1>3, <3>1
    <3>3. \A k \in m + 1 .. n + 1 : k = n + 1 \/ (k \in m + 1 .. n /\ k \in 1 .. n)
      BY <1>1
    <3>4. \A k \in m + 1 .. n + 1 : ~StableAt(later, k)
      BY <1>3, <1>6, <3>1, <3>3
    <3>5. QED
      BY <3>2, <3>4 DEF StableLevel
  <2>3. QED
    BY <1>4, <2>1, <2>2 DEF StableLevel
<1>7. QED
  BY <1>5, <1>6

(* The scan's one counter decides right.                                   *)
LEMMA ScanKeepsLevel ==
  ASSUME UiTypeOK, MismatchesCounted, DebouncedLevelStable,
         NEW raw \in [Button -> BOOLEAN], gpio_drv_btn_scan(raw),
         levels' = [c \in Button |-> Append(levels[c], raw[c])]
  PROVE  MismatchesCounted' /\ DebouncedLevelStable'
<1> SUFFICES ASSUME NEW b \in Button
             PROVE  /\ LET agreed == Len(levels'[b]) - mismatch_scans'[b]
                       IN  /\ agreed >= 1 /\ levels'[b][agreed] = is_down'[b]
                           /\ \A i \in agreed + 1 .. Len(levels'[b]) : levels'[b][i] # is_down'[b]
                    /\ StableLevel(levels'[b], Len(levels'[b]), is_down'[b])
  BY DEF MismatchesCounted, DebouncedLevelStable
<1> DEFINE n == Len(levels[b])
           m == mismatch_scans[b]
           later == Append(levels[b], raw[b])
<1>1. /\ levels[b] \in Seq(BOOLEAN) /\ levels'[b] = later
      /\ n \in Nat /\ m \in 0 .. DebounceScans - 1 /\ DebounceScans \in Nat \ {0}
      /\ is_down[b] \in BOOLEAN /\ raw[b] \in BOOLEAN
  BY UiAssumption DEF UiTypeOK, GpioTypeOK
<1>2. /\ n - m >= 1 /\ levels[b][n - m] = is_down[b]
      /\ \A i \in (n - m) + 1 .. n : levels[b][i] # is_down[b]
  BY DEF MismatchesCounted
<1>3. /\ Len(later) = n + 1
      /\ \A i \in 1 .. n : later[i] = levels[b][i]
      /\ later[n + 1] = raw[b]
  BY <1>1
<1>4. StableLevel(levels[b], n, is_down[b])
  BY DEF DebouncedLevelStable
<1>5. /\ is_down'[b] = IF Flips(b, raw) THEN raw[b] ELSE is_down[b]
      /\ mismatch_scans'[b] = IF raw[b] = is_down[b] THEN 0
                              ELSE IF Flips(b, raw) THEN 0 ELSE m + 1
  BY DEF gpio_drv_btn_scan, RestartCount
<1> DEFINE agreed == (n + 1) - mismatch_scans'[b]
<1> SUFFICES /\ agreed >= 1 /\ later[agreed] = is_down'[b]
             /\ \A i \in agreed + 1 .. n + 1 : later[i] # is_down'[b]
             /\ StableLevel(later, n + 1, is_down'[b])
  BY <1>1, <1>3
<1>6. CASE raw[b] = is_down[b]
  <2>1. is_down'[b] = is_down[b] /\ mismatch_scans'[b] = 0
    BY <1>5, <1>6 DEF Flips
  <2>2. StableLevel(later, n + 1, is_down[b])
    BY <1>1, <1>2, <1>4, <1>6, StableLevelKept
  <2> HIDE DEF n, m, later
  <2>3. QED
    BY <1>1, <1>3, <1>6, <2>1, <2>2
<1>7. CASE raw[b] # is_down[b] /\ ~Flips(b, raw)
  <2>1. is_down'[b] = is_down[b] /\ mismatch_scans'[b] = m + 1 /\ m + 1 < DebounceScans
    BY <1>1, <1>5, <1>7 DEF Flips
  <2>2. ~StableAt(later, n + 1)
    <3> HIDE DEF n, m, later
    <3>1. n - m \in 1 .. n /\ later[n - m] # later[n + 1]
      BY <1>1, <1>2, <1>3, <1>7
    <3>2. n - m \in (n + 1) - DebounceScans + 1 .. n + 1
      BY <1>1, <2>1
    <3>3. QED
      BY <3>1, <3>2 DEF StableAt
  <2>3. StableLevel(later, n + 1, is_down[b])
    BY <1>1, <1>2, <1>4, <2>2, StableLevelKept
  <2> HIDE DEF n, m, later
  <2>4. \A i \in (n - m) + 1 .. n + 1 : later[i] # is_down[b]
    BY <1>1, <1>2, <1>3, <1>7
  <2>5. (n + 1) - (m + 1) = n - m /\ n - m \in 1 .. n
    BY <1>1, <1>2
  <2>6. QED
    BY <1>1, <1>2, <1>3, <2>1, <2>3, <2>4, <2>5
<1>8. CASE Flips(b, raw)
  <2>1. /\ raw[b] # is_down[b] /\ m + 1 = DebounceScans
        /\ is_down'[b] = raw[b] /\ mismatch_scans'[b] = 0
    BY <1>1, <1>5, <1>8 DEF Flips
  <2> HIDE DEF n, m, later
  <2>2. \A i \in (n + 1) - DebounceScans + 1 .. n + 1 : later[i] = raw[b]
    <3>1. \A i \in (n + 1) - DebounceScans + 1 .. n + 1 :
             i = n + 1 \/ (i \in (n - m) + 1 .. n /\ i \in 1 .. n)
      BY <1>1, <1>2, <2>1
    <3>2. \A i \in (n - m) + 1 .. n : levels[b][i] \in BOOLEAN
      <4>1. \A i \in (n - m) + 1 .. n : i \in 1 .. n
        BY <1>1, <1>2
      <4>2. QED
        BY <1>1, <4>1 DEF n
    <3>3. \A i \in (n - m) + 1 .. n : levels[b][i] = raw[b]
      BY <1>1, <1>2, <2>1, <3>2
    <3>4. QED
      BY <1>3, <3>1, <3>3
  <2>3. StableAt(later, n + 1)
    BY <1>1, <1>2, <1>3, <2>1, <2>2 DEF StableAt
  <2>4. StableLevel(later, n + 1, raw[b])
    <3>1. n + 1 \in 1 .. n + 1 /\ \A k \in (n + 1) + 1 .. n + 1 : FALSE
      BY <1>1
    <3>2. QED
      BY <1>3, <2>3, <3>1 DEF StableLevel
  <2>5. QED
    BY <1>1, <1>3, <2>1, <2>4
<1>9. QED
  BY <1>6, <1>7, <1>8

-----------------------------------------------------------------------------
(* The invariant                                                           *)

LEMMA InitInv == Init => UiInv
<1> SUFFICES ASSUME Init PROVE UiInv
  OBVIOUS
<1>1. UiTypeOK
  BY UiAssumption DEF Init, UiTypeOK, GpioTypeOK, RxTypeOK, TaskTypeOK, Button, LineError, Key
<1>2. \A b \in Button : Len(levels[b]) = 1 /\ levels[b][1] = is_down[b] /\ mismatch_scans[b] = 0
  BY DEF Init
<1>3. MismatchesCounted
  BY <1>2 DEF MismatchesCounted
<1>4. DebouncedLevelStable
  <2>1. \A b \in Button : ~StableAt(levels[b], 1)
    BY UiAssumption DEF StableAt
  <2>2. QED
    BY <1>2, <2>1 DEF DebouncedLevelStable, StableLevel
<1>5. AcknowledgesCounted /\ LineErrorsNoticed
  BY DEF Init, AcknowledgesCounted, LineErrorsNoticed
<1>6. LatchedAhead
  BY DEF Init, LatchedAhead
<1>7. QED
  BY <1>1, <1>3, <1>4, <1>5, <1>6 DEF UiInv

(* What leaves a part of the state alone leaves its types alone.           *)
LEMMA GpioTypesKept == GpioTypeOK /\ UNCHANGED <<gpioVars, levels>> => GpioTypeOK'
BY DEF GpioTypeOK, gpioVars

LEMMA RxTypesKept == RxTypeOK /\ UNCHANGED <<rxVars, errors>> => RxTypeOK'
BY DEF RxTypeOK, rxVars

(* Sending a message, or not.                                              *)
LEMMA SendKeepsTypes ==
  ASSUME TaskTypeOK, ui_send \/ UNCHANGED <<waiting, sent, s_dropped_msgs>>
  PROVE  s_dropped_msgs' \in Nat /\ sent' \in Nat /\ waiting' \in 0 .. QueueLen
<1>0. /\ s_dropped_msgs \in Nat /\ sent \in Nat /\ waiting \in 0 .. QueueLen
      /\ QueueLen \in Nat
  BY UiAssumption DEF TaskTypeOK
<1>1. CASE ui_send
  <2>1. CASE waiting < QueueLen /\ waiting' = waiting + 1 /\ sent' = sent + 1
             /\ UNCHANGED s_dropped_msgs
    BY <1>0, <2>1
  <2>2. CASE DropMessage
    BY <1>0, <2>2 DEF DropMessage
  <2>3. QED
    BY <1>1, <2>1, <2>2, Zenon DEF ui_send
<1>2. CASE UNCHANGED <<waiting, sent, s_dropped_msgs>>
  BY <1>0, <1>2
<1>3. QED
  BY <1>1, <1>2

(* Steps that leave the scans alone, and steps that leave the line errors  *)
(* alone.                                                                  *)
LEMMA ScansKept ==
  ASSUME MismatchesCounted, DebouncedLevelStable, UNCHANGED <<is_down, mismatch_scans, levels>>
  PROVE  MismatchesCounted' /\ DebouncedLevelStable'
BY DEF MismatchesCounted, DebouncedLevelStable

LEMMA LineErrorsKept ==
  ASSUME AcknowledgesCounted, LineErrorsNoticed,
         UNCHANGED <<isr, err_counters, pending, errors>>,
         upc' = "acknowledge" => upc = "acknowledge",
         upc = "acknowledge" => upc' = "acknowledge"
  PROVE  AcknowledgesCounted' /\ LineErrorsNoticed'
BY DEF AcknowledgesCounted, LineErrorsNoticed

(* A line error that latches between any two steps is noticed.             *)
LEMMA LatchedErrorNoticed ==
  ASSUME UiTypeOK, AcknowledgesCounted, LineErrorsNoticed, NEW e \in LineError,
         isr' = isr \cup {e}, errors' = [errors EXCEPT ![e] = @ + 1],
         UNCHANGED <<err_counters, pending, upc>>
  PROVE  AcknowledgesCounted' /\ LineErrorsNoticed'
<1>1. AcknowledgesCounted'
  BY DEF AcknowledgesCounted
<1>2. ASSUME NEW f \in LineError
      PROVE  LET seen == err_counters'[f] + IF f \in isr' \ pending' THEN 1 ELSE 0
             IN  seen <= errors'[f] /\ (errors'[f] > 0 => seen > 0)
  <2>1. err_counters[f] \in Nat /\ errors[f] \in Nat /\ errors'[f] = errors[f] + IF f = e THEN 1 ELSE 0
    BY DEF UiTypeOK, RxTypeOK
  <2>2. LET seen == err_counters[f] + IF f \in isr \ pending THEN 1 ELSE 0
        IN  seen <= errors[f] /\ (errors[f] > 0 => seen > 0)
    BY DEF LineErrorsNoticed
  <2>3. CASE f # e
    BY <2>1, <2>2, <2>3
  <2>4. CASE f = e /\ f \in pending
    <3>1. err_counters[f] > 0
      BY <2>4 DEF AcknowledgesCounted
    <3>2. QED
      BY <2>1, <2>2, <2>4, <3>1
  <2>5. CASE f = e /\ f \notin pending
    BY <2>1, <2>2, <2>5
  <2>6. QED
    BY <2>3, <2>4, <2>5
<1>3. QED
  BY <1>1, <1>2 DEF LineErrorsNoticed

LEMMA TypesNext == UiTypeOK /\ AcknowledgesCounted /\ [Next]_vars => UiTypeOK'
<1> SUFFICES ASSUME UiTypeOK, AcknowledgesCounted, [Next]_vars
             PROVE  GpioTypeOK' /\ RxTypeOK' /\ TaskTypeOK'
  BY DEF UiTypeOK
<1>0. GpioTypeOK /\ RxTypeOK /\ TaskTypeOK
  BY DEF UiTypeOK
<1>1. CASE Scan
  <2>1. PICK raw \in [Button -> BOOLEAN] :
           /\ gpio_drv_btn_scan(raw)
           /\ levels' = [b \in Button |-> Append(levels[b], raw[b])]
    BY <1>1 DEF Scan
  <2>2. GpioTypeOK'
    <3>1. \A b \in Button : /\ mismatch_scans[b] \in 0 .. DebounceScans - 1
                            /\ is_down[b] \in BOOLEAN /\ raw[b] \in BOOLEAN
                            /\ levels[b] \in Seq(BOOLEAN)
      BY <1>0 DEF GpioTypeOK
    <3>2. mismatch_scans' \in [Button -> 0 .. DebounceScans - 1]
      BY <2>1, <3>1, UiAssumption DEF gpio_drv_btn_scan, Flips, RestartCount
    <3>3. is_down' \in [Button -> BOOLEAN]
      BY <2>1, <3>1 DEF gpio_drv_btn_scan
    <3>4. press_latched' \in [Button -> BOOLEAN]
      BY <2>1, Zenon DEF gpio_drv_btn_scan
    <3>5. levels' \in [Button -> Seq(BOOLEAN)]
      BY <2>1, <3>1
    <3>6. taken' \in Seq(Button)
      BY <1>0, <1>1 DEF Scan, GpioTypeOK
    <3>7. QED
      BY <3>2, <3>3, <3>4, <3>5, <3>6 DEF GpioTypeOK
  <2>3. RxTypeOK'
    BY <1>0, <1>1, RxTypesKept DEF Scan
  <2>4. TaskTypeOK'
    BY <1>0, <1>1, UiAssumption DEF Scan, TaskTypeOK, Button
  <2>5. QED
    BY <2>2, <2>3, <2>4
<1>2. CASE gpio_drv_btn_take_press
  <2>0. /\ press_latched \in [Button -> BOOLEAN] /\ taken \in Seq(Button) /\ btn \in Button
        /\ press_latched' = [press_latched EXCEPT ![btn] = FALSE]
        /\ taken' = taken \/ taken' = Append(taken, btn)
    BY <1>0, <1>2 DEF gpio_drv_btn_take_press, GpioTypeOK, TaskTypeOK
  <2>1. press_latched' \in [Button -> BOOLEAN]
    BY <2>0
  <2>2. GpioTypeOK'
    <3>1. taken' \in Seq(Button)
      BY <2>0
    <3>2. UNCHANGED <<is_down, mismatch_scans, levels>>
      BY <1>2, Zenon DEF gpio_drv_btn_take_press, history
    <3>3. QED
      BY <1>0, <2>1, <3>1, <3>2 DEF GpioTypeOK
  <2>3. RxTypeOK'
    BY <1>0, <1>2, RxTypesKept DEF gpio_drv_btn_take_press, history
  <2>4. s_dropped_msgs' \in Nat /\ sent' \in Nat /\ waiting' \in 0 .. QueueLen
    BY <1>0, <1>2, SendKeepsTypes DEF gpio_drv_btn_take_press
  <2>5. btn' \in Button
    BY <1>0, <1>2, UiAssumption DEF gpio_drv_btn_take_press, TaskTypeOK, Button
  <2>6. TaskTypeOK'
    BY <1>0, <1>2, <2>4, <2>5 DEF gpio_drv_btn_take_press, TaskTypeOK, history
  <2>7. QED
    BY <2>2, <2>3, <2>6
<1>3. CASE CollectLineErrors
  <2>1. GpioTypeOK'
    BY <1>0, <1>3, GpioTypesKept DEF CollectLineErrors, history
  <2>2. err_counters' \in [LineError -> Nat]
    BY <1>0, <1>3 DEF CollectLineErrors, RxTypeOK
  <2>3. RxTypeOK'
    BY <1>0, <1>3, <2>2 DEF CollectLineErrors, RxTypeOK, history
  <2>4. TaskTypeOK'
    BY <1>0, <1>3 DEF CollectLineErrors, TaskTypeOK, history
  <2>5. QED
    BY <2>1, <2>3, <2>4
<1>4. CASE AcknowledgeLineErrors
  <2>1. GpioTypeOK'
    BY <1>0, <1>4, GpioTypesKept DEF AcknowledgeLineErrors, history
  <2>2. RxTypeOK'
    BY <1>0, <1>4 DEF AcknowledgeLineErrors, Acknowledged, RxTypeOK, history
  <2>3. TaskTypeOK'
    BY <1>0, <1>4 DEF AcknowledgeLineErrors, TaskTypeOK, history
  <2>4. QED
    BY <2>1, <2>2, <2>3
<1>5. CASE ReceiveKey
  <2>1. GpioTypeOK'
    BY <1>0, <1>5, GpioTypesKept DEF ReceiveKey
  <2>2. rx_fifo' \in Seq(Key) /\ Len(rx_fifo') <= RxFifoLen
    BY <1>0, <1>5, UiAssumption DEF ReceiveKey, RxTypeOK
  <2>3. RxTypeOK'
    BY <1>0, <1>5, <2>2 DEF ReceiveKey, RxTypeOK
  <2>4. s_dropped_msgs' \in Nat /\ sent' \in Nat /\ waiting' \in 0 .. QueueLen
    BY <1>0, <1>5, SendKeepsTypes DEF ReceiveKey, ui_handle_key
  <2>5. TaskTypeOK'
    BY <1>0, <1>5, <2>4 DEF ReceiveKey, TaskTypeOK
  <2>6. QED
    BY <2>1, <2>3, <2>5
<1>6. CASE NothingReceived
  <2>1. GpioTypeOK' /\ RxTypeOK'
    BY <1>0, <1>6, GpioTypesKept, RxTypesKept DEF NothingReceived, history
  <2>2. TaskTypeOK'
    BY <1>0, <1>6 DEF NothingReceived, TaskTypeOK, history
  <2>3. QED
    BY <2>1, <2>2
<1>7. CASE ByteArrives
  <2>1. GpioTypeOK'
    BY <1>0, <1>7, GpioTypesKept DEF ByteArrives
  <2>2. rx_fifo' \in Seq(Key) /\ Len(rx_fifo') <= RxFifoLen
    BY <1>0, <1>7, UiAssumption DEF ByteArrives, RxTypeOK
  <2>3. RxTypeOK'
    BY <1>0, <1>7, <2>2 DEF ByteArrives, RxTypeOK
  <2>4. TaskTypeOK'
    BY <1>0, <1>7 DEF ByteArrives, TaskTypeOK
  <2>5. QED
    BY <2>1, <2>3, <2>4
<1>8. ASSUME NEW e \in LineError,
             isr' = isr \cup {e}, errors' = [errors EXCEPT ![e] = @ + 1],
             UNCHANGED <<gpioVars, rx_fifo, err_counters, upc, btn, pending, s_dropped_msgs,
                         waiting, levels, commands, sent>>
      PROVE  GpioTypeOK' /\ RxTypeOK' /\ TaskTypeOK'
  <2>1. GpioTypeOK'
    BY <1>0, <1>8, GpioTypesKept
  <2>2. errors' \in [LineError -> Nat]
    BY <1>0, <1>8 DEF RxTypeOK
  <2>3. RxTypeOK'
    BY <1>0, <1>8, <2>2 DEF RxTypeOK
  <2>4. TaskTypeOK'
    BY <1>0, <1>8 DEF TaskTypeOK
  <2>5. QED
    BY <2>1, <2>3, <2>4
<1>9. CASE Doorbell \/ ConsumerTakes
  <2>1. GpioTypeOK' /\ RxTypeOK'
    BY <1>0, <1>9, GpioTypesKept, RxTypesKept DEF Doorbell, ConsumerTakes, history
  <2>2. waiting' \in 0 .. QueueLen
    BY <1>0, <1>9, UiAssumption DEF Doorbell, ConsumerTakes, TaskTypeOK
  <2>3. TaskTypeOK'
    BY <1>0, <1>9, <2>2 DEF Doorbell, ConsumerTakes, TaskTypeOK, history
  <2>4. QED
    BY <2>1, <2>3
<1>10. CASE UNCHANGED vars
  <2>1. GpioTypeOK' /\ RxTypeOK'
    BY <1>0, <1>10, GpioTypesKept, RxTypesKept DEF vars, gpioVars, rxVars
  <2>2. TaskTypeOK'
    BY <1>0, <1>10 DEF vars, TaskTypeOK
  <2>3. QED
    BY <2>1, <2>2
<1>11. CASE ByteOverruns
  <2>1. "over" \in LineError
    BY DEF LineError
  <2>2. QED
    BY <1>8, <1>11, <2>1 DEF ByteOverruns
<1>12. ASSUME NEW e \in LineError, LineErrorLatches(e)
       PROVE  GpioTypeOK' /\ RxTypeOK' /\ TaskTypeOK'
  BY <1>8, <1>12 DEF LineErrorLatches
<1>13. QED
  BY <1>1, <1>2, <1>3, <1>4, <1>5, <1>6, <1>7, <1>9, <1>10, <1>11, <1>12
     DEF Next, UiStep, Environment

(* The debouncer's level, its counter and the line errors.                 *)
LEMMA DriversStep == UiInv /\ [Next]_vars =>
  /\ MismatchesCounted' /\ DebouncedLevelStable'
  /\ AcknowledgesCounted' /\ LineErrorsNoticed'
<1> SUFFICES ASSUME UiInv, [Next]_vars
             PROVE  /\ MismatchesCounted' /\ DebouncedLevelStable'
                    /\ AcknowledgesCounted' /\ LineErrorsNoticed'
  OBVIOUS
<1>0. /\ UiTypeOK /\ MismatchesCounted /\ DebouncedLevelStable
      /\ AcknowledgesCounted /\ LineErrorsNoticed
  BY DEF UiInv
<1>1. CASE Scan
  <2>1. PICK raw \in [Button -> BOOLEAN] :
           /\ gpio_drv_btn_scan(raw)
           /\ levels' = [b \in Button |-> Append(levels[b], raw[b])]
    BY <1>1 DEF Scan
  <2>2. MismatchesCounted' /\ DebouncedLevelStable'
    BY <1>0, <2>1, ScanKeepsLevel
  <2>3. AcknowledgesCounted' /\ LineErrorsNoticed'
    BY <1>0, <1>1, LineErrorsKept DEF Scan, rxVars
  <2>4. QED
    BY <2>2, <2>3
<1>2. ASSUME UNCHANGED <<is_down, mismatch_scans, levels>>
      PROVE  MismatchesCounted' /\ DebouncedLevelStable'
  BY <1>0, <1>2, ScansKept
<1>3. CASE gpio_drv_btn_take_press \/ NothingReceived
  <2>1. UNCHANGED <<is_down, mismatch_scans, levels>>
    BY <1>3 DEF gpio_drv_btn_take_press, NothingReceived, gpioVars, history
  <2>2. AcknowledgesCounted' /\ LineErrorsNoticed'
    BY <1>0, <1>3, LineErrorsKept DEF gpio_drv_btn_take_press, NothingReceived, rxVars, history
  <2>3. QED
    BY <1>2, <2>1, <2>2
<1>4. CASE CollectLineErrors
  <2>1. pending = {}
    BY <1>0, <1>4 DEF CollectLineErrors, AcknowledgesCounted
  <2>2. UNCHANGED <<is_down, mismatch_scans, levels>>
    BY <1>4 DEF CollectLineErrors, gpioVars, history
  <2>3. AcknowledgesCounted'
    BY <1>0, <1>4 DEF CollectLineErrors, AcknowledgesCounted, UiTypeOK, RxTypeOK
  <2>4. LineErrorsNoticed'
    BY <1>0, <1>4, <2>1 DEF CollectLineErrors, LineErrorsNoticed, UiTypeOK, RxTypeOK, history
  <2>5. QED
    BY <1>2, <2>2, <2>3, <2>4
<1>5. CASE AcknowledgeLineErrors
  <2>1. UNCHANGED <<is_down, mismatch_scans, levels>>
    BY <1>5 DEF AcknowledgeLineErrors, gpioVars, history
  <2>2. AcknowledgesCounted'
    BY <1>5 DEF AcknowledgeLineErrors, AcknowledgesCounted
  <2>3. LineErrorsNoticed'
    BY <1>0, <1>5 DEF AcknowledgeLineErrors, Acknowledged, LineErrorsNoticed, history
  <2>4. QED
    BY <1>2, <2>1, <2>2, <2>3
<1>6. CASE ReceiveKey \/ ByteArrives
  <2>1. UNCHANGED <<is_down, mismatch_scans, levels>>
    BY <1>6 DEF ReceiveKey, ByteArrives, gpioVars
  <2>2. AcknowledgesCounted' /\ LineErrorsNoticed'
    BY <1>0, <1>6, LineErrorsKept DEF ReceiveKey, ByteArrives
  <2>3. QED
    BY <1>2, <2>1, <2>2
<1>7. CASE ByteOverruns
  <2>1. UNCHANGED <<is_down, mismatch_scans, levels>>
    BY <1>7 DEF ByteOverruns, gpioVars
  <2>2. "over" \in LineError
    BY DEF LineError
  <2>3. AcknowledgesCounted' /\ LineErrorsNoticed'
    BY <1>0, <1>7, <2>2, LatchedErrorNoticed DEF ByteOverruns
  <2>4. QED
    BY <1>2, <2>1, <2>3
<1>8. ASSUME NEW e \in LineError, LineErrorLatches(e)
      PROVE  /\ MismatchesCounted' /\ DebouncedLevelStable'
             /\ AcknowledgesCounted' /\ LineErrorsNoticed'
  <2>1. UNCHANGED <<is_down, mismatch_scans, levels>>
    BY <1>8 DEF LineErrorLatches, gpioVars
  <2>2. AcknowledgesCounted' /\ LineErrorsNoticed'
    BY <1>0, <1>8, LatchedErrorNoticed DEF LineErrorLatches
  <2>3. QED
    BY <1>2, <2>1, <2>2
<1>9. CASE Doorbell \/ ConsumerTakes \/ UNCHANGED vars
  <2>1. UNCHANGED <<is_down, mismatch_scans, levels>>
    BY <1>9 DEF Doorbell, ConsumerTakes, vars, gpioVars, history
  <2>2. AcknowledgesCounted' /\ LineErrorsNoticed'
    BY <1>0, <1>9, LineErrorsKept DEF Doorbell, ConsumerTakes, vars, rxVars, history
  <2>3. QED
    BY <1>2, <2>1, <2>2
<1>10. QED
  BY <1>1, <1>3, <1>4, <1>5, <1>6, <1>7, <1>8, <1>9 DEF Next, UiStep, Environment

(* The latches are ahead of the task's round over the buttons.             *)
LEMMA LatchesStep == UiInv /\ [Next]_vars => LatchedAhead'
<1> SUFFICES ASSUME UiInv, [Next]_vars, NEW b \in Button, press_latched'[b]
             PROVE  upc' = "take" /\ b >= btn'
  BY DEF LatchedAhead
<1>0. /\ btn \in Button /\ press_latched \in [Button -> BOOLEAN]
      /\ press_latched[b] => upc = "take" /\ b >= btn
  BY DEF UiInv, UiTypeOK, GpioTypeOK, TaskTypeOK, LatchedAhead
<1>1. CASE Scan
  BY <1>1 DEF Scan, Button
<1>2. CASE gpio_drv_btn_take_press
  <2>1. press_latched[b] /\ b # btn
    BY <1>0, <1>2 DEF gpio_drv_btn_take_press
  <2>2. b > btn /\ btn < ButtonCount
    BY <1>0, <2>1, UiAssumption DEF Button
  <2>3. upc' = "take" /\ btn' = btn + 1
    BY <1>2, <2>2 DEF gpio_drv_btn_take_press
  <2>4. QED
    BY <1>0, <2>2, <2>3 DEF Button
<1>3. CASE upc # "take" /\ UNCHANGED press_latched
  BY <1>0, <1>3
<1>4. CASE UNCHANGED <<press_latched, upc, btn>>
  BY <1>0, <1>4
<1>5. CASE CollectLineErrors \/ AcknowledgeLineErrors \/ ReceiveKey \/ NothingReceived
  BY <1>3, <1>5 DEF CollectLineErrors, AcknowledgeLineErrors, ReceiveKey, NothingReceived, gpioVars
<1>6. CASE Environment \/ UNCHANGED vars
  BY <1>4, <1>6 DEF Environment, ByteArrives, ByteOverruns, LineErrorLatches, Doorbell,
     ConsumerTakes, gpioVars, vars
<1>7. QED
  BY <1>1, <1>2, <1>5, <1>6 DEF Next, UiStep

LEMMA StepInv == UiInv /\ [Next]_vars => UiInv'
<1>1. UiInv => UiTypeOK /\ AcknowledgesCounted
  BY DEF UiInv
<1>2. QED
  BY <1>1, TypesNext, DriversStep, LatchesStep DEF UiInv

(* The counter of mismatches and the one copy of the status register keep  *)
(* their meaning through every interleaving.                               *)
THEOREM UiInvariant == Spec => []UiInv
BY InitInv, StepInv, PTL DEF Spec

(* The driver's debounced level is the stable level of all it has read.    *)
THEOREM DebouncerCorrect == Spec => []DebouncedLevelStable
<1>1. UiInv => DebouncedLevelStable
  BY DEF UiInv
<1>2. QED
  BY <1>1, UiInvariant, PTL

(* No kind of line error escapes its counter, and none is counted twice.   *)
THEOREM NoLineErrorMissed == Spec => []LineErrorsNoticed
<1>1. UiInv => LineErrorsNoticed
  BY DEF UiInv
<1>2. QED
  BY <1>1, UiInvariant, PTL

-----------------------------------------------------------------------------
(* Presses                                                                 *)

(* What the scans have read debounces to one level.                        *)
LEMMA StableLevelUnique ==
  ASSUME NEW read, NEW n \in Nat, NEW one, NEW other,
         StableLevel(read, n, one), StableLevel(read, n, other)
  PROVE  one = other
<1>1. CASE \A k \in 1 .. n : ~StableAt(read, k)
  <2>1. one = read[1] /\ other = read[1]
    BY <1>1 DEF StableLevel
  <2>2. QED
    BY <2>1
<1>2. CASE ~(\A k \in 1 .. n : ~StableAt(read, k))
  <2>1. PICK m \in 1 .. n : /\ StableAt(read, m) /\ one = read[m]
                            /\ \A k \in m + 1 .. n : ~StableAt(read, k)
    BY <1>2 DEF StableLevel
  <2>2. PICK l \in 1 .. n : /\ StableAt(read, l) /\ other = read[l]
                            /\ \A k \in l + 1 .. n : ~StableAt(read, k)
    BY <1>2 DEF StableLevel
  <2>3. m = l \/ m \in l + 1 .. n \/ l \in m + 1 .. n
    OBVIOUS
  <2>4. QED
    BY <2>1, <2>2, <2>3
<1>3. QED
  BY <1>1, <1>2

(* One more scan does not change what was read and stable before it.       *)
LEMMA StableLevelBefore ==
  ASSUME NEW read \in Seq(BOOLEAN), NEW raw \in BOOLEAN, NEW n \in 1 .. Len(read), NEW level
  PROVE  StableLevel(Append(read, raw), n, level) <=> StableLevel(read, n, level)
<1> DEFINE later == Append(read, raw)
<1>1. \A k \in 1 .. n : k \in 1 .. Len(read)
  OBVIOUS
<1>2. \A k \in 1 .. n : later[k] = read[k]
  OBVIOUS
<1>3. \A k \in 1 .. n : StableAt(later, k) <=> StableAt(read, k)
  BY <1>1, StableBefore
<1>4. 1 \in 1 .. n /\ n \in Nat
  OBVIOUS
<1> SUFFICES StableLevel(later, n, level) <=> StableLevel(read, n, level)
  OBVIOUS
<1> HIDE DEF later
<1>5. \A m \in 1 .. n : \A k \in m + 1 .. n : k \in 1 .. n
  BY <1>4
<1>6. (\A k \in 1 .. n : ~StableAt(later, k)) <=> (\A k \in 1 .. n : ~StableAt(read, k))
  BY <1>3
<1>7. ASSUME NEW m \in 1 .. n
      PROVE  /\ StableAt(later, m) <=> StableAt(read, m)
             /\ later[m] = read[m]
             /\ (\A k \in m + 1 .. n : ~StableAt(later, k))
                  <=> (\A k \in m + 1 .. n : ~StableAt(read, k))
  BY <1>2, <1>3, <1>5
<1>8. later[1] = read[1]
  BY <1>2, <1>4
<1>9. QED
  BY <1>6, <1>7, <1>8, Zenon DEF StableLevel

(* One more scan adds the press it debounces to, and takes none away.      *)
LEMMA ScanAddsPress ==
  ASSUME NEW read \in Seq(BOOLEAN), Len(read) >= 1, NEW raw \in BOOLEAN,
         NEW before \in BOOLEAN, StableLevel(read, Len(read), before),
         NEW after \in BOOLEAN, StableLevel(Append(read, raw), Len(read) + 1, after)
  PROVE  PressScans(Append(read, raw))
           = PressScans(read) \cup (IF after /\ ~before THEN {Len(read) + 1} ELSE {})
<1> DEFINE n == Len(read)
           later == Append(read, raw)
<1>1. n \in Nat /\ n >= 1 /\ Len(later) = n + 1
  OBVIOUS
<1>2. \A k \in 1 .. n : \A level : StableLevel(later, k, level) <=> StableLevel(read, k, level)
  BY StableLevelBefore
<1>3. \A level : StableLevel(read, n, level) => level = before
  BY <1>1, StableLevelUnique
<1>4. \A level : StableLevel(later, n + 1, level) => level = after
  BY <1>1, StableLevelUnique
<1>5. StableLevel(read, n, before) /\ StableLevel(later, n + 1, after)
  OBVIOUS
<1> SUFFICES PressScans(later)
               = PressScans(read) \cup (IF after /\ ~before THEN {n + 1} ELSE {})
  OBVIOUS
<1>6. n = Len(read)
  OBVIOUS
<1> HIDE DEF n, later
<1>7. \A k : k \in 2 .. n => k \in 1 .. n /\ k - 1 \in 1 .. n /\ k \in 2 .. n + 1 /\ k # n + 1
  BY <1>1
<1>8. \A k : k \in 2 .. n + 1 => k \in 2 .. n \/ k = n + 1
  BY <1>1
<1>9. ASSUME NEW k
      PROVE  k \in PressScans(later) <=>
               k \in PressScans(read) \/ (after /\ ~before /\ k = n + 1)
  <2>1. CASE k \in 2 .. n
    <3>1. k \in 1 .. n /\ k - 1 \in 1 .. n /\ k \in 2 .. n + 1 /\ k # n + 1
      BY <1>7, <2>1
    <3>2. /\ StableLevel(later, k, TRUE) <=> StableLevel(read, k, TRUE)
          /\ StableLevel(later, k - 1, FALSE) <=> StableLevel(read, k - 1, FALSE)
      BY <1>2, <3>1
    <3>3. QED
      BY <1>1, <1>6, <2>1, <3>1, <3>2 DEF PressScans
  <2>2. CASE k = n + 1
    <3>1. k \notin 2 .. n /\ k \in 2 .. n + 1 /\ k - 1 = n /\ n \in 1 .. n
      BY <1>1, <2>2
    <3>2. StableLevel(later, k, TRUE) <=> after
      BY <1>4, <1>5, <2>2
    <3>3. StableLevel(later, n, FALSE) <=> ~before
      BY <1>2, <1>3, <1>5, <3>1
    <3>4. QED
      BY <1>1, <1>6, <2>2, <3>1, <3>2, <3>3 DEF PressScans
  <2>3. CASE k \notin 2 .. n /\ k # n + 1
    BY <1>1, <1>6, <1>8, <2>3 DEF PressScans
  <2>4. QED
    BY <2>1, <2>2, <2>3
<1>10. QED
  BY <1>9

LEMMA PressScansFinite ==
  ASSUME NEW read \in Seq(BOOLEAN)
  PROVE  IsFiniteSet(PressScans(read)) /\ Cardinality(PressScans(read)) \in Nat
<1>1. IsFiniteSet(2 .. Len(read))
  BY FS_Interval
<1>2. PressScans(read) \subseteq 2 .. Len(read)
  BY DEF PressScans
<1>3. QED
  BY <1>1, <1>2, FS_Subset, FS_CardinalityType

LEMMA ScanCountsPress ==
  ASSUME NEW read \in Seq(BOOLEAN), Len(read) >= 1, NEW raw \in BOOLEAN,
         NEW before \in BOOLEAN, StableLevel(read, Len(read), before),
         NEW after \in BOOLEAN, StableLevel(Append(read, raw), Len(read) + 1, after)
  PROVE  Cardinality(PressScans(Append(read, raw)))
           = Cardinality(PressScans(read)) + IF after /\ ~before THEN 1 ELSE 0
<1>1. IsFiniteSet(PressScans(read)) /\ Cardinality(PressScans(read)) \in Nat
  BY PressScansFinite
<1>2. Len(read) + 1 \notin PressScans(read)
  <2>1. Len(read) + 1 \notin 2 .. Len(read)
    OBVIOUS
  <2>2. QED
    BY <2>1 DEF PressScans
<1>3. PressScans(Append(read, raw))
        = PressScans(read) \cup (IF after /\ ~before THEN {Len(read) + 1} ELSE {})
  BY ScanAddsPress
<1>4. CASE after /\ ~before
  <2>1. PressScans(Append(read, raw)) = PressScans(read) \cup {Len(read) + 1}
    BY <1>3, <1>4
  <2>2. QED
    BY <1>1, <1>2, <1>4, <2>1, FS_AddElement
<1>5. CASE ~(after /\ ~before)
  <2>1. PressScans(Append(read, raw)) = PressScans(read)
    BY <1>3, <1>5
  <2>2. QED
    BY <1>1, <1>5, <2>1
<1>6. QED
  BY <1>4, <1>5

(* Taking a press counts for the button it is of.                          *)
LEMMA TakeCounts ==
  ASSUME NEW b \in Button, NEW c \in Button, taken \in Seq(Button), taken' = Append(taken, c)
  PROVE  /\ Cardinality(Takes(b)) \in Nat
         /\ Cardinality(Takes(b)') = Cardinality(Takes(b)) + IF b = c THEN 1 ELSE 0
<1>1. IsFiniteSet(1 .. Len(taken)) /\ Takes(b) \subseteq 1 .. Len(taken)
  BY FS_Interval DEF Takes
<1>2. IsFiniteSet(Takes(b)) /\ Cardinality(Takes(b)) \in Nat
  BY <1>1, FS_Subset, FS_CardinalityType
<1>3. /\ Len(taken') = Len(taken) + 1 /\ taken'[Len(taken) + 1] = c
      /\ \A i \in 1 .. Len(taken) : taken'[i] = taken[i]
  OBVIOUS
<1>4. Len(taken) + 1 \notin Takes(b)
  <2>1. Len(taken) + 1 \notin 1 .. Len(taken)
    OBVIOUS
  <2>2. QED
    BY <2>1 DEF Takes
<1>5. Takes(b)' = Takes(b) \cup (IF b = c THEN {Len(taken) + 1} ELSE {})
  <2>1. Takes(b)' = {i \in 1 .. Len(taken) + 1 : taken'[i] = b}
    BY <1>3 DEF Takes
  <2>2. \A i : i \in 1 .. Len(taken) + 1 <=> i \in 1 .. Len(taken) \/ i = Len(taken) + 1
    OBVIOUS
  <2>3. Len(taken) + 1 \notin 1 .. Len(taken)
    OBVIOUS
  <2>4. QED
    BY <1>3, <2>1, <2>2, <2>3 DEF Takes
<1>6. CASE b = c
  <2>1. Takes(b)' = Takes(b) \cup {Len(taken) + 1}
    BY <1>5, <1>6
  <2>2. QED
    BY <1>2, <1>4, <1>6, <2>1, FS_AddElement
<1>7. CASE b # c
  <2>1. Takes(b)' = Takes(b)
    BY <1>5, <1>7
  <2>2. QED
    BY <1>2, <1>7, <2>1
<1>8. QED
  BY <1>6, <1>7

LEMMA InitInputs == Init => EveryInputAccounted
<1> SUFFICES ASSUME Init PROVE EveryInputAccounted
  OBVIOUS
<1>1. ASSUME NEW b \in Button
      PROVE  Presses(b) = Cardinality(Takes(b)) + IF press_latched[b] THEN 1 ELSE 0
  <2>1. Len(levels[b]) = 1 /\ taken = <<>> /\ ~press_latched[b]
    BY <1>1 DEF Init
  <2>2. PressScans(levels[b]) = {}
    BY <2>1 DEF PressScans
  <2>3. Takes(b) = {}
    BY <2>1 DEF Takes
  <2>4. QED
    BY <2>1, <2>2, <2>3, FS_EmptySet DEF Presses
<1>2. MessagesCounted
  BY DEF Init, MessagesCounted
<1>3. QED
  BY <1>1, <1>2 DEF EveryInputAccounted, PressesTakenOnce

(* A scan latches exactly the presses it debounces to.                     *)
LEMMA ScanLatchesPresses ==
  ASSUME UiInv, UiInv', PressesTakenOnce, Scan
  PROVE  PressesTakenOnce'
<1>1. PICK raw \in [Button -> BOOLEAN] :
         /\ gpio_drv_btn_scan(raw)
         /\ levels' = [c \in Button |-> Append(levels[c], raw[c])]
  BY DEF Scan
<1> SUFFICES ASSUME NEW b \in Button
             PROVE  Presses(b)' = Cardinality(Takes(b)') + IF press_latched'[b] THEN 1 ELSE 0
  BY DEF PressesTakenOnce
<1>2. /\ levels[b] \in Seq(BOOLEAN) /\ levels'[b] = Append(levels[b], raw[b])
      /\ is_down[b] \in BOOLEAN /\ is_down'[b] \in BOOLEAN /\ raw[b] \in BOOLEAN
  BY <1>1 DEF UiInv, UiTypeOK, GpioTypeOK
<1>3. Len(levels[b]) >= 1
  <2>1. mismatch_scans[b] \in Nat /\ Len(levels[b]) - mismatch_scans[b] >= 1
    BY UiAssumption DEF UiInv, UiTypeOK, GpioTypeOK, MismatchesCounted
  <2>2. QED
    BY <1>2, <2>1
<1>4. StableLevel(levels[b], Len(levels[b]), is_down[b])
  BY DEF UiInv, DebouncedLevelStable
<1>5. StableLevel(Append(levels[b], raw[b]), Len(levels[b]) + 1, is_down'[b])
  <2>1. StableLevel(levels'[b], Len(levels'[b]), is_down'[b])
    BY DEF UiInv, DebouncedLevelStable
  <2>2. QED
    BY <1>2, <2>1
<1>6. Presses(b)' = Presses(b) + IF is_down'[b] /\ ~is_down[b] THEN 1 ELSE 0
  BY <1>2, <1>3, <1>4, <1>5, ScanCountsPress DEF Presses
<1>7. ~press_latched[b]
  BY DEF Scan, UiInv, LatchedAhead
<1>8. press_latched'[b] <=> is_down'[b] /\ ~is_down[b]
  BY <1>1, <1>2, <1>7 DEF gpio_drv_btn_scan, PressEdge, Flips
<1>9. UNCHANGED taken
  BY DEF Scan
<1>10. Takes(b)' = Takes(b)
  BY <1>9 DEF Takes
<1>11. Presses(b) = Cardinality(Takes(b))
  <2>1. Cardinality(Takes(b)) \in Nat
    <3>1. IsFiniteSet(1 .. Len(taken)) /\ Takes(b) \subseteq 1 .. Len(taken)
      BY FS_Interval DEF Takes, UiInv, UiTypeOK, GpioTypeOK
    <3>2. QED
      BY <3>1, FS_Subset, FS_CardinalityType
  <2>2. QED
    BY <1>7, <2>1 DEF PressesTakenOnce
<1>12. Presses(b) \in Nat
  BY <1>2, PressScansFinite DEF Presses
<1>13. QED
  BY <1>6, <1>8, <1>10, <1>11, <1>12

(* The task takes a latched press, and clears its latch.                   *)
LEMMA TakeClearsLatch ==
  ASSUME UiInv, PressesTakenOnce, gpio_drv_btn_take_press
  PROVE  PressesTakenOnce'
<1> SUFFICES ASSUME NEW b \in Button
             PROVE  Presses(b)' = Cardinality(Takes(b)') + IF press_latched'[b] THEN 1 ELSE 0
  BY DEF PressesTakenOnce
<1>1. /\ press_latched \in [Button -> BOOLEAN] /\ taken \in Seq(Button) /\ btn \in Button
  BY DEF UiInv, UiTypeOK, GpioTypeOK, TaskTypeOK
<1>2. UNCHANGED levels
  BY DEF gpio_drv_btn_take_press, history
<1>3. Presses(b)' = Presses(b)
  BY <1>2 DEF Presses
<1>4. Presses(b) = Cardinality(Takes(b)) + IF press_latched[b] THEN 1 ELSE 0
  BY DEF PressesTakenOnce
<1>5. press_latched'[b] <=> press_latched[b] /\ b # btn
  BY <1>1 DEF gpio_drv_btn_take_press
<1>6. CASE press_latched[btn]
  <2>1. taken' = Append(taken, btn)
    BY <1>6 DEF gpio_drv_btn_take_press
  <2>2. /\ Cardinality(Takes(b)) \in Nat
        /\ Cardinality(Takes(b)') = Cardinality(Takes(b)) + IF b = btn THEN 1 ELSE 0
    BY <1>1, <2>1, TakeCounts
  <2>3. QED
    BY <1>3, <1>4, <1>5, <1>6, <2>2
<1>7. CASE ~press_latched[btn]
  <2>1. UNCHANGED taken
    BY <1>7 DEF gpio_drv_btn_take_press
  <2>2. Takes(b)' = Takes(b)
    BY <2>1 DEF Takes
  <2>3. press_latched'[b] <=> press_latched[b]
    BY <1>5, <1>7
  <2>4. QED
    BY <1>3, <1>4, <2>2, <2>3
<1>8. QED
  BY <1>6, <1>7

(* A message is in the queue or in the count of those dropped.             *)
LEMMA SendCounts ==
  ASSUME ui_send, sent \in Nat, s_dropped_msgs \in Nat
  PROVE  sent' + s_dropped_msgs' = sent + s_dropped_msgs + 1
BY DEF ui_send, DropMessage

LEMMA MessagesStep ==
  ASSUME UiInv, MessagesCounted, [Next]_vars
  PROVE  MessagesCounted'
<1>1. /\ sent \in Nat /\ s_dropped_msgs \in Nat /\ commands \in Nat /\ taken \in Seq(Button)
      /\ btn \in Button
  BY DEF UiInv, UiTypeOK, GpioTypeOK, TaskTypeOK
<1>2. sent + s_dropped_msgs = commands + Len(taken) /\ Len(taken) \in Nat
  BY <1>1 DEF MessagesCounted
<1>3. CASE gpio_drv_btn_take_press /\ press_latched[btn]
  <2>1. ui_send /\ taken' = Append(taken, btn) /\ commands' = commands
    BY <1>3 DEF gpio_drv_btn_take_press, history
  <2>2. Len(taken') = Len(taken) + 1
    BY <1>1, <2>1
  <2>3. sent' + s_dropped_msgs' = sent + s_dropped_msgs + 1
    BY <1>1, <2>1, SendCounts
  <2>4. QED
    BY <1>1, <1>2, <2>1, <2>2, <2>3 DEF MessagesCounted
<1>4. CASE ReceiveKey /\ Head(rx_fifo) = "command"
  <2>1. ui_send /\ commands' = commands + 1 /\ taken' = taken
    BY <1>4 DEF ReceiveKey, ui_handle_key, gpioVars
  <2>2. sent' + s_dropped_msgs' = sent + s_dropped_msgs + 1
    BY <1>1, <2>1, SendCounts
  <2>3. QED
    BY <1>1, <1>2, <2>1, <2>2 DEF MessagesCounted
<1>5. CASE UNCHANGED <<sent, s_dropped_msgs, commands, taken>>
  BY <1>2, <1>5 DEF MessagesCounted
<1>6. CASE ReceiveKey /\ Head(rx_fifo) # "command"
  BY <1>1, <1>5, <1>6 DEF ReceiveKey, ui_handle_key, gpioVars
<1>7. CASE gpio_drv_btn_take_press /\ ~press_latched[btn]
  BY <1>5, <1>7 DEF gpio_drv_btn_take_press, history
<1>8. CASE Scan \/ CollectLineErrors \/ AcknowledgeLineErrors \/ NothingReceived
  BY <1>5, <1>8 DEF Scan, CollectLineErrors, AcknowledgeLineErrors, NothingReceived,
     gpioVars, history
<1>9. CASE Environment \/ UNCHANGED vars
  BY <1>5, <1>9 DEF Environment, ByteArrives, ByteOverruns, LineErrorLatches, Doorbell,
     ConsumerTakes, gpioVars, history, vars
<1>10. QED
  BY <1>3, <1>4, <1>6, <1>7, <1>8, <1>9 DEF Next, UiStep

LEMMA PressesStep ==
  ASSUME UiInv, UiInv', PressesTakenOnce, [Next]_vars
  PROVE  PressesTakenOnce'
<1>1. CASE Scan
  BY <1>1, ScanLatchesPresses
<1>2. CASE gpio_drv_btn_take_press
  BY <1>2, TakeClearsLatch
<1>3. CASE UNCHANGED <<press_latched, taken, levels>>
  BY <1>3 DEF PressesTakenOnce, Presses, Takes
<1>4. CASE CollectLineErrors \/ AcknowledgeLineErrors \/ ReceiveKey \/ NothingReceived
  BY <1>3, <1>4 DEF CollectLineErrors, AcknowledgeLineErrors, ReceiveKey, NothingReceived,
     gpioVars, history
<1>5. CASE Environment \/ UNCHANGED vars
  BY <1>3, <1>5 DEF Environment, ByteArrives, ByteOverruns, LineErrorLatches, Doorbell,
     ConsumerTakes, gpioVars, history, vars
<1>6. QED
  BY <1>1, <1>2, <1>4, <1>5 DEF Next, UiStep

LEMMA InputsStep == EveryInputAccounted /\ UiInv /\ UiInv' /\ [Next]_vars => EveryInputAccounted'
BY PressesStep, MessagesStep DEF EveryInputAccounted

(* Between two of the task's rounds no press is missed and none is seen    *)
(* twice, and every one of them, and every command typed, is a message     *)
(* that the queue took or that was counted as dropped.                     *)
THEOREM NoInputMissed == Spec => []EveryInputAccounted
BY InitInputs, InputsStep, UiInvariant, PTL DEF Spec

-----------------------------------------------------------------------------
(* The scans in time                                                       *)

LEMMA ClockConstants ==
  /\ DebounceScans \in Nat \ {0} /\ ScanPeriod \in Nat \ {0} /\ MaxLate \in Nat
BY UiAssumption, ClockAssumption

LEMMA TimedStep == [TimedNext]_timedVars => [Next]_vars
<1> SUFFICES ASSUME TimedNext \/ UNCHANGED timedVars PROVE Next \/ UNCHANGED vars
  OBVIOUS
<1>1. CASE TimedScan
  BY <1>1 DEF TimedScan, Next, UiStep
<1>2. CASE Untimed
  BY <1>2 DEF Untimed, Next, UiStep
<1>3. CASE PinChanges \/ Tick \/ UNCHANGED timedVars
  BY <1>3 DEF PinChanges, Tick, timedVars
<1>4. QED
  BY <1>1, <1>2, <1>3 DEF TimedNext

(* Whatever holds of the UI task without a clock holds of it in time.      *)
THEOREM ClockKeepsUi == TimedSpec => Spec
<1>1. TimedInit => Init
  BY DEF TimedInit
<1>2. QED
  BY <1>1, TimedStep, PTL DEF TimedSpec, Spec

(* What a scan does to one button: it reads the pin.                       *)
LEMMA TimedScanReads ==
  ASSUME GpioTypeOK, ClockTypeOK, TimedScan, NEW b \in Button
  PROVE  /\ overdue \in 0 .. MaxLate /\ overdue' = overdue - ScanPeriod
         /\ pad'[b] = pad[b] /\ held'[b] = held[b]
         /\ differing'[b] = IF mismatch_scans'[b] <= 1 THEN 0 ELSE differing[b]
         /\ \/ pad[b] = is_down[b] /\ is_down'[b] = is_down[b] /\ mismatch_scans'[b] = 0
            \/ /\ pad[b] # is_down[b] /\ mismatch_scans[b] = DebounceScans - 1
               /\ is_down'[b] = pad[b] /\ mismatch_scans'[b] = 0
            \/ /\ pad[b] # is_down[b] /\ mismatch_scans[b] + 1 < DebounceScans
               /\ is_down'[b] = is_down[b] /\ mismatch_scans'[b] = mismatch_scans[b] + 1
<1>1. PICK raw \in [Button -> BOOLEAN] :
         /\ gpio_drv_btn_scan(raw)
         /\ levels' = [c \in Button |-> Append(levels[c], raw[c])]
  BY DEF TimedScan, Scan
<1>2. raw[b] = pad[b]
  <2>1. levels[b] \in Seq(BOOLEAN) /\ raw[b] \in BOOLEAN /\ pad[b] \in BOOLEAN
    BY DEF GpioTypeOK, ClockTypeOK
  <2>2. Append(levels[b], raw[b]) = Append(levels[b], pad[b])
    BY <1>1 DEF TimedScan
  <2>3. /\ Append(levels[b], raw[b])[Len(levels[b]) + 1] = raw[b]
        /\ Append(levels[b], pad[b])[Len(levels[b]) + 1] = pad[b]
    BY <2>1
  <2>4. QED
    BY <2>2, <2>3
<1>3. /\ is_down'[b] = IF Flips(b, raw) THEN raw[b] ELSE is_down[b]
      /\ mismatch_scans'[b] = IF raw[b] = is_down[b] THEN 0
                              ELSE IF Flips(b, raw) THEN 0 ELSE mismatch_scans[b] + 1
  BY <1>1 DEF gpio_drv_btn_scan, RestartCount
<1>4. mismatch_scans[b] \in 0 .. DebounceScans - 1
  BY DEF GpioTypeOK
<1>5. Flips(b, raw) <=> pad[b] # is_down[b] /\ mismatch_scans[b] + 1 >= DebounceScans
  BY <1>2 DEF Flips
<1>6. overdue \in 0 .. MaxLate /\ overdue' = overdue - ScanPeriod
  BY ClockConstants DEF TimedScan, NextRelease, ClockTypeOK
<1>7. /\ pad'[b] = pad[b] /\ held'[b] = held[b]
      /\ differing'[b] = IF mismatch_scans'[b] <= 1 THEN 0 ELSE differing[b]
  BY DEF TimedScan
<1>8. QED
  BY <1>2, <1>3, <1>4, <1>5, <1>6, <1>7, ClockConstants

LEMMA TimedScanKeeps ==
  ASSUME GpioTypeOK, ClockInv, TimedScan
  PROVE  ClockInv'
<1>1. ClockTypeOK /\ ScansEven /\ ChangesSeen
  BY DEF ClockInv
<1>2. ClockTypeOK'
  <2>1. overdue \in 0 .. MaxLate /\ overdue' = overdue - ScanPeriod
    BY <1>1, ClockConstants DEF TimedScan, NextRelease, ClockTypeOK
  <2>2. overdue' \in -ScanPeriod .. MaxLate
    BY <2>1, ClockConstants
  <2>3. QED
    BY <1>1, <2>2 DEF TimedScan, ClockTypeOK
<1> SUFFICES ASSUME NEW b \in Button
             PROVE  /\ mismatch_scans'[b] > 0 =>
                         LET until == mismatch_scans'[b] * ScanPeriod + overdue'
                         IN  until - MaxLate <= differing'[b] /\ differing'[b] <= until
                    /\ pad'[b] # is_down'[b] =>
                         held'[b] <= (mismatch_scans'[b] + 1) * ScanPeriod + overdue'
  BY <1>2 DEF ClockInv, ScansEven, ChangesSeen
<1> DEFINE m == mismatch_scans[b]
           span == m * ScanPeriod
<1>3. /\ m \in Nat /\ held[b] \in Nat /\ differing[b] \in Nat /\ span \in Nat
      /\ (m + 1) * ScanPeriod = span + ScanPeriod
      /\ (m + 2) * ScanPeriod = span + ScanPeriod + ScanPeriod
      /\ 1 * ScanPeriod = ScanPeriod
  BY <1>1, ClockConstants DEF GpioTypeOK, ClockTypeOK
<1>4. /\ m > 0 => span + overdue - MaxLate <= differing[b] /\ differing[b] <= span + overdue
      /\ m = 0 => span = 0
      /\ pad[b] # is_down[b] => held[b] <= span + ScanPeriod + overdue
  <2>1. m > 0 => span + overdue - MaxLate <= differing[b] /\ differing[b] <= span + overdue
    BY <1>1, <1>3, ClockConstants DEF ScansEven, ClockTypeOK
  <2>2. m = 0 => span = 0
    BY ClockConstants
  <2>3. pad[b] # is_down[b] => held[b] <= (m + 1) * ScanPeriod + overdue
    BY <1>1 DEF ChangesSeen
  <2>4. QED
    BY <1>3, <2>1, <2>2, <2>3
<1>5. /\ overdue \in 0 .. MaxLate /\ overdue' = overdue - ScanPeriod
      /\ pad'[b] = pad[b] /\ held'[b] = held[b]
      /\ differing'[b] = IF mismatch_scans'[b] <= 1 THEN 0 ELSE differing[b]
  BY <1>1, TimedScanReads
<1>6. \/ mismatch_scans'[b] = 0 /\ pad'[b] = is_down'[b]
      \/ /\ pad[b] # is_down[b] /\ mismatch_scans'[b] = m + 1
  BY <1>1, TimedScanReads
<1> HIDE DEF m, span
<1>7. CASE mismatch_scans'[b] = 0 /\ pad'[b] = is_down'[b]
  BY <1>7
<1>8. CASE pad[b] # is_down[b] /\ mismatch_scans'[b] = m + 1
  <2>1. (mismatch_scans'[b] + 1) * ScanPeriod = span + ScanPeriod + ScanPeriod
    BY <1>3, <1>8
  <2>2. mismatch_scans'[b] * ScanPeriod = span + ScanPeriod
    BY <1>3, <1>8
  <2>3. QED
    BY <1>3, <1>4, <1>5, <1>8, <2>1, <2>2, ClockConstants
<1>9. QED
  BY <1>6, <1>7, <1>8

LEMMA ClockStep == ClockInv /\ UiInv /\ UiInv' /\ [TimedNext]_timedVars => ClockInv'
<1> SUFFICES ASSUME ClockInv, GpioTypeOK, TimedNext \/ UNCHANGED timedVars PROVE ClockInv'
  BY DEF UiInv, UiTypeOK
<1>0. ClockTypeOK /\ ScansEven /\ ChangesSeen
  BY DEF ClockInv
<1>00. \A b \in Button : mismatch_scans[b] \in Nat /\ held[b] \in Nat /\ differing[b] \in Nat
  BY <1>0, ClockConstants DEF GpioTypeOK, ClockTypeOK
<1>000. overdue \in Int /\ \A b \in Button : /\ mismatch_scans[b] * ScanPeriod \in Int
                                             /\ (mismatch_scans[b] + 1) * ScanPeriod \in Nat
  BY <1>0, <1>00, ClockConstants DEF ClockTypeOK
<1>1. CASE TimedScan
  BY <1>1, TimedScanKeeps
<1>2. CASE Untimed \/ UNCHANGED timedVars
  <2>1. UNCHANGED <<clockVars, is_down, mismatch_scans>>
    BY <1>2 DEF Untimed, timedVars, vars, gpio_drv_btn_take_press, CollectLineErrors,
       AcknowledgeLineErrors, ReceiveKey, NothingReceived, Environment, ByteArrives,
       ByteOverruns, LineErrorLatches, Doorbell, ConsumerTakes, gpioVars
  <2>2. QED
    BY <1>0, <2>1 DEF ClockInv, ClockTypeOK, ScansEven, ChangesSeen, clockVars
<1>3. CASE PinChanges
  <2>1. PICK c \in Button :
           pad' = [pad EXCEPT ![c] = ~@] /\ held' = [held EXCEPT ![c] = 0]
    BY <1>3 DEF PinChanges
  <2>2. UNCHANGED <<is_down, mismatch_scans, overdue, differing>>
    BY <1>3 DEF PinChanges, vars
  <2>3. ClockTypeOK'
    BY <1>0, <2>1, <2>2 DEF ClockTypeOK
  <2>4. ScansEven'
    BY <1>0, <2>2 DEF ScansEven
  <2>5. ASSUME NEW b \in Button, pad'[b] # is_down'[b]
        PROVE  held'[b] <= (mismatch_scans'[b] + 1) * ScanPeriod + overdue'
    <3>1. CASE b = c
      <4>1. held'[b] = 0
        BY <1>0, <2>1, <3>1 DEF ClockTypeOK
      <4>2. (mismatch_scans[b] + 1) * ScanPeriod >= ScanPeriod
        BY <1>00, ClockConstants
      <4>3. overdue >= -ScanPeriod
        BY <1>0, ClockConstants DEF ClockTypeOK
      <4>4. QED
        BY <1>000, <2>2, <4>1, <4>2, <4>3, ClockConstants
    <3>2. CASE b # c
      BY <1>0, <2>1, <2>2, <2>5, <3>2 DEF ChangesSeen, ClockTypeOK
    <3>3. QED
      BY <3>1, <3>2
  <2>6. QED
    BY <2>3, <2>4, <2>5 DEF ClockInv, ChangesSeen
<1>4. CASE Tick
  <2>1. /\ UNCHANGED <<is_down, mismatch_scans, pad>>
        /\ overdue < MaxLate /\ overdue' = overdue + 1
        /\ \A b \in Button :
             /\ held'[b] = held[b] + 1
             /\ differing'[b] = IF mismatch_scans[b] = 0 THEN 0 ELSE differing[b] + 1
    BY <1>4 DEF Tick, vars
  <2>2. ClockTypeOK'
    BY <1>0, <1>4, ClockConstants DEF ClockTypeOK, Tick
  <2>3. ASSUME NEW b \in Button, mismatch_scans'[b] > 0
        PROVE  LET until == mismatch_scans'[b] * ScanPeriod + overdue'
               IN  until - MaxLate <= differing'[b] /\ differing'[b] <= until
    BY <1>0, <1>00, <1>000, <2>1, <2>3, ClockConstants DEF ScansEven
  <2>4. ASSUME NEW b \in Button, pad'[b] # is_down'[b]
        PROVE  held'[b] <= (mismatch_scans'[b] + 1) * ScanPeriod + overdue'
    BY <1>0, <1>00, <1>000, <2>1, <2>4, ClockConstants DEF ChangesSeen
  <2>5. QED
    BY <2>2, <2>3, <2>4 DEF ClockInv, ScansEven, ChangesSeen
<1>5. QED
  BY <1>1, <1>2, <1>3, <1>4 DEF TimedNext

LEMMA TimedInitInv == TimedInit => ClockInv
<1> SUFFICES ASSUME TimedInit PROVE ClockInv
  OBVIOUS
<1>1. /\ overdue = -ScanPeriod /\ pad \in [Button -> BOOLEAN]
      /\ held = [b \in Button |-> 0] /\ differing = [b \in Button |-> 0]
      /\ mismatch_scans = [b \in Button |-> 0]
  BY DEF TimedInit, Init
<1>2. ClockTypeOK
  BY <1>1, ClockConstants DEF ClockTypeOK
<1>3. ScansEven
  BY <1>1 DEF ScansEven
<1>4. ChangesSeen
  BY <1>1, ClockConstants DEF ChangesSeen
<1>5. QED
  BY <1>2, <1>3, <1>4 DEF ClockInv

(* The scans that count towards a flip are one period apart, and a pin     *)
(* that differs from the debounced level has changed since they began.     *)
THEOREM ClockInvariant == TimedSpec => [](UiInv /\ ClockInv)
<1>1. TimedSpec => []UiInv
  BY ClockKeepsUi, UiInvariant, PTL
<1>2. QED
  BY <1>1, TimedInitInv, ClockStep, PTL DEF TimedSpec

(* A level held for DebounceScans periods and the lateness of one scan is  *)
(* the debounced one, however late the scans of gpio_drv_btn_scan are and  *)
(* however they bunch: no press that long is missed.                       *)
THEOREM HeldIsSeen == TimedSpec => []HeldLevelSeen
<1>1. UiInv /\ ClockInv => HeldLevelSeen
  <2> SUFFICES ASSUME UiInv, ClockInv, NEW b \in Button, pad[b] # is_down[b]
               PROVE  held[b] <= DebounceScans * ScanPeriod + MaxLate
    BY DEF HeldLevelSeen
  <2>1. /\ mismatch_scans[b] \in 0 .. DebounceScans - 1
        /\ overdue \in -ScanPeriod .. MaxLate /\ held[b] \in Nat
    BY DEF UiInv, UiTypeOK, GpioTypeOK, ClockInv, ClockTypeOK
  <2>2. held[b] <= (mismatch_scans[b] + 1) * ScanPeriod + overdue
    BY DEF ClockInv, ChangesSeen
  <2>3. /\ (mismatch_scans[b] + 1) * ScanPeriod <= DebounceScans * ScanPeriod
        /\ (mismatch_scans[b] + 1) * ScanPeriod \in Nat /\ DebounceScans * ScanPeriod \in Nat
    BY <2>1, ClockConstants
  <2>4. QED
    BY <2>1, <2>2, <2>3, ClockConstants
<1>2. QED
  BY <1>1, ClockInvariant, PTL

(* A level that flips has differed for the time of the scans it takes, one *)
(* period less than their number, but for how late a scan can be.          *)
THEOREM FlipsAreInTime == TimedSpec => FlipsInTime
<1>1. UiInv /\ ClockInv /\ [TimedNext]_timedVars =>
        [\A b \in Button : is_down'[b] # is_down[b] =>
           LET even == (DebounceScans - 1) * ScanPeriod
           IN  even - MaxLate <= FlipSpan(b) /\ FlipSpan(b) <= even + MaxLate]_timedVars
  <2> SUFFICES ASSUME UiInv, ClockInv, TimedNext, NEW b \in Button, is_down'[b] # is_down[b]
               PROVE  /\ (DebounceScans - 1) * ScanPeriod - MaxLate <= FlipSpan(b)
                      /\ FlipSpan(b) <= (DebounceScans - 1) * ScanPeriod + MaxLate
    OBVIOUS
  <2>1. TimedScan
    BY DEF TimedNext, Untimed, PinChanges, Tick, vars, gpio_drv_btn_take_press,
       CollectLineErrors, AcknowledgeLineErrors, ReceiveKey, NothingReceived, Environment,
       ByteArrives, ByteOverruns, LineErrorLatches, Doorbell, ConsumerTakes, gpioVars
  <2>2. /\ mismatch_scans[b] = DebounceScans - 1 /\ overdue \in 0 .. MaxLate
        /\ differing[b] \in Nat
    BY <2>1, TimedScanReads DEF UiInv, UiTypeOK, ClockInv, ClockTypeOK
  <2> DEFINE even == (DebounceScans - 1) * ScanPeriod
  <2>3. even \in Nat /\ (DebounceScans = 1 => even = 0)
    BY ClockConstants
  <2>4. DebounceScans # 1 => even + overdue - MaxLate <= differing[b] /\ differing[b] <= even + overdue
    BY <2>2, ClockConstants DEF ClockInv, ScansEven
  <2> HIDE DEF even
  <2>5. FlipSpan(b) = IF DebounceScans = 1 THEN 0 ELSE differing[b]
    BY <2>2, ClockConstants DEF FlipSpan
  <2>6. even - MaxLate <= FlipSpan(b) /\ FlipSpan(b) <= even + MaxLate
    BY <2>2, <2>3, <2>4, <2>5, ClockConstants
  <2>7. QED
    BY <2>6 DEF even
<1>2. QED
  BY <1>1, ClockInvariant, PTL DEF TimedSpec, FlipsInTime
=============================================================================
