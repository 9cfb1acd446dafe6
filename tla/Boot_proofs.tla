----------------------------- MODULE Boot_proofs -----------------------------
(***************************************************************************)
(* Proofs about Boot, for every number of buttons: whatever resets the     *)
(* board or restarts the program, and wherever, the banner tells why the   *)
(* program runs, the SLCR is locked again, nothing an earlier run left     *)
(* behind is mistaken, and every failure is shown.                         *)
(***************************************************************************)
EXTENDS Boot, TLAPS

-----------------------------------------------------------------------------
(* The order of main(), as numbers.                                        *)

LEMMA StepsCounted == Len(BootSteps) = 14
BY DEF BootSteps

LEMMA Places ==
  ASSUME NEW s \in 1 .. 14
  PROVE  /\ BootSteps[s] = "capture" <=> s = 1
         /\ BootSteps[s] = "clear" <=> s = 2
         /\ BootSteps[s] = "gpio" <=> s = 3
         /\ BootSteps[s] = "pullup" <=> s = 4
         /\ BootSteps[s] = "uart" <=> s = 5
         /\ BootSteps[s] = "uptime" <=> s = 6
         /\ BootSteps[s] = "xadc" <=> s = 7
         /\ BootSteps[s] = "log" <=> s = 8
         /\ BootSteps[s] = "wdt" <=> s = 9
         /\ BootSteps[s] = "tasks" <=> s = 10
         /\ BootSteps[s] = "start" <=> s = 11
         /\ BootSteps[s] = "scheduler" <=> s = 12
         /\ BootSteps[s] = "timer" <=> s = 13
         /\ BootSteps[s] = "running" <=> s = 14
BY DEF BootSteps

LEMMA PlacesPassed ==
  ASSUME NEW s \in 1 .. 14
  PROVE  /\ (\E i \in 1 .. s - 1 : BootSteps[i] = "clear") <=> s > 2
         /\ (\E i \in 1 .. s - 1 : BootSteps[i] = "gpio") <=> s > 3
         /\ (\E i \in 1 .. s - 1 : BootSteps[i] = "uart") <=> s > 5
         /\ (\E i \in 1 .. s - 1 : BootSteps[i] = "wdt") <=> s > 9
         /\ (\E i \in 1 .. s - 1 : BootSteps[i] = "scheduler") <=> s > 12
         /\ (\E i \in 1 .. s - 1 : BootSteps[i] = "timer") <=> s > 13
<1>1. \A i : i \in 1 .. s - 1 <=> i \in 1 .. 14 /\ i < s
  OBVIOUS
<1>2. QED
  BY <1>1, Places

(* What has been passed, before and after a step.                          *)
LEMMA PassedNow ==
  ASSUME stage \in 1 .. 14
  PROVE  /\ Passed("clear") <=> stage > 2
         /\ Passed("gpio") <=> stage > 3
         /\ Passed("uart") <=> stage > 5
         /\ Passed("wdt") <=> stage > 9
         /\ Passed("scheduler") <=> stage > 12
         /\ Passed("timer") <=> stage > 13
BY PlacesPassed DEF Passed

LEMMA PassedThen ==
  ASSUME stage' \in 1 .. 14
  PROVE  /\ Passed("clear")' <=> stage' > 2
         /\ Passed("gpio")' <=> stage' > 3
         /\ Passed("uart")' <=> stage' > 5
         /\ Passed("wdt")' <=> stage' > 9
         /\ Passed("scheduler")' <=> stage' > 12
         /\ Passed("timer")' <=> stage' > 13
BY PlacesPassed DEF Passed

-----------------------------------------------------------------------------
(* The invariant, step by step                                             *)

LEMMA InitKeeps == Init => BootInv
<1> SUFFICES ASSUME Init PROVE BootInv
  OBVIOUS
<1>1. stage \in 1 .. 14 /\ stage = 1
  BY DEF Init
<1>2. BootTypeOK
  <2>1. ReasonBits[3] = "POR" /\ 3 \in DOMAIN ReasonBits
    BY DEF ReasonBits
  <2>2. "POR" \in Reason
    BY <2>1 DEF Reason
  <2>3. stage \in 1 .. Len(BootSteps) /\ btn \in 1 .. ButtonCount
    BY <1>1, StepsCounted, BootAssumption DEF Init
  <2>4. QED
    BY <2>2, <2>3 DEF Init, BootTypeOK
<1>3. FlagsKnown /\ StartedInOrder
  BY <1>1, PassedNow DEF Init, FlagsKnown, StartedInOrder, TickKept, Captured
<1>4. SlcrLocked /\ LockRemembered
  BY DEF Init, SlcrLocked, LockRemembered
<1>5. QED
  BY <1>2, <1>3, <1>4 DEF BootInv

(* A program that starts again, after a reset or by a debugger.            *)
LEMMA StartKeeps ==
  ASSUME BootInv, ProgramStarts,
         reason' \subseteq Reason, since' \subseteq Reason, reason' = since',
         restarted' \in BOOLEAN, slcr_locked' \in BOOLEAN,
         swdt_runs' \in BOOLEAN, ttc_owner' \in {"none", "kernel", "sampling"},
         ~restarted' => slcr_locked' /\ ~swdt_runs' /\ ttc_owner' = "none"
  PROVE  BootInv'
<1>1. stage' \in 1 .. 14 /\ stage' = 1
  BY DEF ProgramStarts
<1>2. BootTypeOK'
  <2>1. stage' \in 1 .. Len(BootSteps) /\ btn' \in 1 .. ButtonCount
    BY <1>1, StepsCounted, BootAssumption DEF ProgramStarts
  <2>2. timer_works \in BOOLEAN /\ tick_on_ttc \in BOOLEAN
    BY DEF BootInv, BootTypeOK
  <2>3. QED
    BY <2>1, <2>2 DEF ProgramStarts, BootTypeOK
<1>3. FlagsKnown' /\ StartedInOrder'
  BY <1>1, PassedThen DEF ProgramStarts, FlagsKnown, StartedInOrder, TickKept, Captured
<1>4. SlcrLocked' /\ LockRemembered'
  BY DEF ProgramStarts, SlcrLocked, LockRemembered
<1>5. QED
  BY <1>2, <1>3, <1>4 DEF BootInv

LEMMA ResetKeeps ==
  ASSUME BootInv, NEW kind \in Reason, Reset(kind)
  PROVE  BootInv'
<1>1. reason \subseteq Reason /\ since \subseteq Reason
  BY DEF BootInv, BootTypeOK
<1>2. reason = IF Captured THEN {} ELSE since
  BY DEF BootInv, FlagsKnown
<1>3. reason' \subseteq Reason /\ since' \subseteq Reason /\ reason' = since'
  BY <1>1, <1>2 DEF Reset
<1>4. QED
  BY <1>3, StartKeeps DEF Reset

LEMMA RestartKeeps ==
  ASSUME BootInv, Restart
  PROVE  BootInv'
<1>1. /\ reason \subseteq Reason /\ since \subseteq Reason
      /\ slcr_locked \in BOOLEAN /\ swdt_runs \in BOOLEAN
      /\ ttc_owner \in {"none", "kernel", "sampling"}
  BY DEF BootInv, BootTypeOK
<1>2. reason = IF Captured THEN {} ELSE since
  BY DEF BootInv, FlagsKnown
<1>3. reason' \subseteq Reason /\ since' \subseteq Reason /\ reason' = since'
  BY <1>1, <1>2 DEF Restart
<1>4. QED
  BY <1>1, <1>3, StartKeeps DEF Restart

(* The three steps of slcr_modify.                                         *)
LEMMA InCall ==
  ASSUME BootInv, slcr # "idle"
  PROVE  board = "up" /\ stage \in 1 .. 14 /\ stage \in {2, 4}
BY Places, StepsCounted DEF BootInv, BootTypeOK, ModifiesSlcr, At

LEMMA UnlockKeeps ==
  ASSUME BootInv, SlcrUnlock
  PROVE  BootInv'
<1>1. BootTypeOK'
  BY DEF SlcrUnlock, ModifiesSlcr, At, BootInv, BootTypeOK, shown, statics, history
<1>2. UNCHANGED <<stage, reason, since>> /\ slcr = "idle" /\ slcr' = "open"
  BY DEF SlcrUnlock, history
<1>3. Captured' <=> Captured
  BY <1>2 DEF Captured, Passed
<1>4. FlagsKnown'
  BY <1>2, <1>3 DEF BootInv, FlagsKnown
<1>5. SlcrLocked' /\ LockRemembered'
  BY DEF SlcrUnlock, BootInv, SlcrLocked, LockRemembered, history
<1>6. StartedInOrder'
  BY DEF SlcrUnlock, BootInv, StartedInOrder, TickKept, Passed, statics, history
<1>7. QED
  BY <1>1, <1>4, <1>5, <1>6 DEF BootInv

LEMMA WriteKeeps ==
  ASSUME BootInv, SlcrWrite
  PROVE  BootInv'
<1>1. BootTypeOK'
  BY DEF SlcrWrite, ModifiesSlcr, At, BootInv, BootTypeOK, shown, statics, history
<1>2. /\ UNCHANGED <<stage, board, since>> /\ slcr = "open" /\ slcr' = "written" /\ ~slcr_locked
      /\ reason' = IF At("clear") THEN {} ELSE reason
  BY DEF SlcrWrite, BootInv, LockRemembered, history, shown
<1>3. Captured'
  BY <1>2 DEF Captured
<1>4. ~At("clear") => Captured
  BY <1>2, InCall, Places, PassedNow DEF Captured, At
<1>5. FlagsKnown'
  BY <1>2, <1>3, <1>4 DEF BootInv, FlagsKnown
<1>6. SlcrLocked' /\ LockRemembered'
  BY DEF SlcrWrite, BootInv, SlcrLocked, LockRemembered, history
<1>7. StartedInOrder'
  BY DEF SlcrWrite, BootInv, StartedInOrder, TickKept, Passed, statics, history
<1>8. QED
  BY <1>1, <1>5, <1>6, <1>7 DEF BootInv

LEMMA RelockKeeps ==
  ASSUME BootInv, SlcrRelock
  PROVE  BootInv'
<1>1. /\ slcr = "written" /\ slcr' = "idle" /\ slcr_locked' = was_locked
      /\ UNCHANGED <<reason, swdt_runs, ttc_owner, timer_works, tick_on_ttc, was_locked,
                     statics, shown, history>>
      /\ stage \in {2, 4} /\ board = "up"
      /\ \/ stage' = stage /\ btn < ButtonCount /\ btn' = btn + 1 /\ stage = 4
         \/ stage' = stage + 1 /\ btn' = btn
  BY InCall, Places DEF SlcrRelock, SlcrReturns, Advance, At
<1>2. stage' \in 1 .. 14
  BY <1>1
<1>3. BootTypeOK'
  <2>1. btn' \in 1 .. ButtonCount
    BY <1>1, BootAssumption DEF BootInv, BootTypeOK
  <2>2. QED
    BY <1>1, <1>2, <2>1, StepsCounted DEF BootInv, BootTypeOK, shown, statics, history
<1>4. Captured /\ Captured'
  BY <1>1, <1>2, PassedThen DEF Captured
<1>5. FlagsKnown'
  BY <1>1, <1>4 DEF BootInv, FlagsKnown
<1>6. SlcrLocked' /\ LockRemembered'
  BY <1>1 DEF BootInv, SlcrLocked, LockRemembered, history
<1>7. StartedInOrder'
  BY <1>1, <1>2, PassedNow, PassedThen DEF BootInv, StartedInOrder, TickKept, statics, history
<1>8. QED
  BY <1>3, <1>5, <1>6, <1>7 DEF BootInv

(* The steps of main() and of the tasks: one that succeeds goes on to the  *)
(* next, one that fails stays where it is.                                 *)
GoesOn == Advance /\ stage \in 1 .. 13 /\ stage # 2

Stays == stage' = stage /\ board' \in {"parked", "dark"} /\ UNCHANGED history
           /\ said' \in {"nothing", "waiting", "halted"} /\ ld4' \in {"off", "steady", "flashing"}

LEMMA FaultStays == fault_halt => Stays
BY DEF fault_halt, Stays

LEMMA OutsideCall ==
  ASSUME BootInv, NEW step, At(step), step \notin {"clear", "pullup"}
  PROVE  slcr = "idle" /\ stage \in 1 .. 14 /\ stage # 2
<1>1. stage \in 1 .. 14
  BY StepsCounted DEF BootInv, BootTypeOK
<1>2. BootSteps[stage] = step
  BY DEF At
<1>3. ~ModifiesSlcr /\ stage # 2
  BY <1>1, <1>2, Places DEF ModifiesSlcr, At
<1>4. QED
  BY <1>1, <1>3 DEF BootInv, BootTypeOK

LEMMA StepKeeps ==
  ASSUME BootInv, slcr = "idle", GoesOn \/ Stays,
         UNCHANGED <<reason, slcr_locked, timer_works, tick_on_ttc, slcrCall>>,
         s_cause' \in Reason \cup {"UNKNOWN"},
         {s_gpio_ready', s_uart_ready', s_wdt_ready', s_wdt_running'} \subseteq BOOLEAN,
         swdt_runs' \in BOOLEAN, ttc_owner' \in {"none", "kernel", "sampling"}, StartedInOrder'
  PROVE  BootInv'
<1>1. stage \in 1 .. 14 /\ UNCHANGED <<since, restarted, reason, slcr, btn, was_locked, slcr_locked>>
  BY StepsCounted DEF BootInv, BootTypeOK, GoesOn, Stays, Advance, history, slcrCall
<1>2. stage' \in 1 .. 14 /\ (stage' > 2 <=> stage > 2)
  BY <1>1 DEF GoesOn, Stays, Advance
<1>3. BootTypeOK'
  <2>1. /\ board' \in {"up", "parked", "dark"} /\ said' \in {"nothing", "waiting", "halted"}
        /\ ld4' \in {"off", "steady", "flashing"}
        /\ board' = "up" => said' = "nothing" /\ ld4' = "off"
    BY DEF BootInv, BootTypeOK, GoesOn, Stays, Advance, shown
  <2>2. QED
    BY <1>1, <1>2, <2>1, StepsCounted DEF BootInv, BootTypeOK
<1>4. FlagsKnown'
  <2>1. Captured' <=> Captured
    BY <1>1, <1>2, PassedNow, PassedThen DEF Captured
  <2>2. QED
    BY <1>1, <2>1 DEF BootInv, FlagsKnown
<1>5. SlcrLocked' /\ LockRemembered'
  BY <1>1 DEF BootInv, SlcrLocked, LockRemembered
<1>6. QED
  BY <1>3, <1>4, <1>5 DEF BootInv

(* A step that changes no driver's state only has to have initialised what *)
(* it passes.                                                              *)
LEMMA StepInOrder ==
  ASSUME BootInv, GoesOn \/ Stays,
         UNCHANGED <<s_gpio_ready, s_uart_ready, s_wdt_ready, s_wdt_running, swdt_runs,
                     ttc_owner, tick_on_ttc>>,
         stage \notin {3, 5}, stage \in {12, 13} => Stays
  PROVE  StartedInOrder'
<1>1. stage \in 1 .. 14 /\ restarted' = restarted
  BY StepsCounted DEF BootInv, BootTypeOK, GoesOn, Stays, Advance, history
<1>2. /\ stage' \in 1 .. 14
      /\ stage' = stage \/ (stage' = stage + 1 /\ stage \notin {12, 13})
  BY <1>1 DEF GoesOn, Stays, Advance
<1>3. QED
  BY <1>1, <1>2, PassedNow, PassedThen DEF BootInv, StartedInOrder, TickKept

LEMMA CaptureKeeps ==
  ASSUME BootInv, reset_cause_capture
  PROVE  BootInv'
<1>1. slcr = "idle" /\ stage = 1
  BY OutsideCall, Places DEF reset_cause_capture, At
<1>2. GoesOn
  BY <1>1 DEF reset_cause_capture, GoesOn
<1>3. s_cause' \in Reason \cup {"UNKNOWN"}
  BY DEF reset_cause_capture, Reason
<1>4. UNCHANGED <<hardware, slcrCall, s_gpio_ready, s_uart_ready, s_wdt_ready, s_wdt_running>>
  BY DEF reset_cause_capture
<1>5. StartedInOrder'
  BY <1>1, <1>2, <1>4, StepInOrder DEF hardware
<1>6. QED
  BY <1>1, <1>2, <1>3, <1>4, <1>5, StepKeeps DEF hardware, BootInv, BootTypeOK

LEMMA GpioKeeps ==
  ASSUME BootInv, gpio_drv_init
  PROVE  BootInv'
<1>1. slcr = "idle" /\ stage = 3
  BY OutsideCall, Places DEF gpio_drv_init, At
<1>2. /\ UNCHANGED <<hardware, slcrCall, s_cause, s_uart_ready, s_wdt_ready, s_wdt_running>>
      /\ \/ s_gpio_ready' = TRUE /\ GoesOn
         \/ UNCHANGED s_gpio_ready /\ Stays
  BY <1>1 DEF gpio_drv_init, GoesOn, Stays, BootInv, BootTypeOK
<1>3. /\ restarted' = restarted /\ stage' \in 1 .. 14 /\ stage' \in {3, 4}
      /\ stage' = 4 => s_gpio_ready'
  BY <1>1, <1>2 DEF GoesOn, Stays, Advance, history
<1>4. StartedInOrder'
  BY <1>1, <1>2, <1>3, PassedNow, PassedThen DEF BootInv, StartedInOrder, TickKept, hardware
<1>5. QED
  BY <1>1, <1>2, <1>4, StepKeeps DEF hardware, BootInv, BootTypeOK

LEMMA UartKeeps ==
  ASSUME BootInv, uart_drv_init
  PROVE  BootInv'
<1>1. slcr = "idle" /\ stage = 5
  BY OutsideCall, Places DEF uart_drv_init, At
<1>2. /\ UNCHANGED <<hardware, slcrCall, s_cause, s_gpio_ready, s_wdt_ready, s_wdt_running>>
      /\ \/ s_uart_ready' = TRUE /\ GoesOn
         \/ UNCHANGED s_uart_ready /\ Stays
  BY <1>1, FaultStays DEF uart_drv_init, GoesOn
<1>3. /\ restarted' = restarted /\ stage' \in 1 .. 14 /\ stage' \in {5, 6}
      /\ stage' = 6 => s_uart_ready'
  BY <1>1, <1>2 DEF GoesOn, Stays, Advance, history
<1>4. StartedInOrder'
  BY <1>1, <1>2, <1>3, PassedNow, PassedThen DEF BootInv, StartedInOrder, TickKept, hardware
<1>5. QED
  BY <1>1, <1>2, <1>4, StepKeeps DEF hardware, BootInv, BootTypeOK

LEMMA InitOrHaltKeeps ==
  ASSUME BootInv, slcr = "idle", stage \in 1 .. 13, stage \notin {2, 3, 5, 12, 13}, Advance \/ Stays,
         UNCHANGED <<hardware, slcrCall, statics>>
  PROVE  BootInv'
<1>1. GoesOn \/ Stays
  BY DEF GoesOn
<1>2. StartedInOrder'
  BY <1>1, StepInOrder DEF statics, hardware
<1>3. QED
  BY <1>1, <1>2, StepKeeps DEF hardware, statics, BootInv, BootTypeOK

LEMMA WdtInitKeeps ==
  ASSUME BootInv, wdt_drv_init
  PROVE  BootInv'
<1>1. slcr = "idle" /\ stage = 9
  BY OutsideCall, Places DEF wdt_drv_init, At
<1>2. /\ UNCHANGED <<reason, slcr_locked, ttc_owner, timer_works, tick_on_ttc, slcrCall, s_cause,
                     s_gpio_ready, s_uart_ready, s_wdt_running>>
      /\ \/ s_wdt_ready' = TRUE /\ swdt_runs' = FALSE /\ GoesOn
         \/ UNCHANGED s_wdt_ready /\ swdt_runs' \in {swdt_runs, FALSE} /\ Stays
  <2>1. /\ UNCHANGED <<reason, slcr_locked, ttc_owner, timer_works, tick_on_ttc, slcrCall, s_cause,
                       s_gpio_ready, s_uart_ready, s_wdt_running>>
        /\ \/ s_wdt_ready' = TRUE /\ swdt_runs' = FALSE /\ Advance
           \/ swdt_runs' \in {swdt_runs, FALSE} /\ fault_halt /\ UNCHANGED s_wdt_ready
    BY Zenon DEF wdt_drv_init
  <2>2. Advance => GoesOn
    BY <1>1 DEF GoesOn
  <2>3. QED
    BY <2>1, <2>2, FaultStays, Zenon
<1>3. /\ restarted' = restarted /\ stage' \in 1 .. 14 /\ stage' \in {9, 10}
      /\ s_wdt_ready' => s_wdt_ready \/ stage' = 10
      /\ s_wdt_ready => s_wdt_ready'
      /\ swdt_runs' => swdt_runs
  <2>1. CASE s_wdt_ready' = TRUE /\ swdt_runs' = FALSE /\ GoesOn
    BY <1>1, <2>1 DEF GoesOn, Advance, history
  <2>2. CASE UNCHANGED s_wdt_ready /\ swdt_runs' \in {swdt_runs, FALSE} /\ Stays
    <3>1. swdt_runs' => swdt_runs
      BY <2>2, Zenon
    <3>2. QED
      BY <1>1, <2>2, <3>1 DEF Stays, history
  <2>3. QED
    BY <1>2, <2>1, <2>2, Zenon
<1>4. StartedInOrder'
  BY <1>1, <1>2, <1>3, PassedNow, PassedThen DEF BootInv, StartedInOrder, TickKept
<1>5. QED
  BY <1>1, <1>2, <1>4, StepKeeps DEF BootInv, BootTypeOK

LEMMA WdtStartKeeps ==
  ASSUME BootInv, wdt_drv_start
  PROVE  BootInv'
<1>1. slcr = "idle" /\ stage = 11
  BY OutsideCall, Places DEF wdt_drv_start, At
<1>2. /\ UNCHANGED <<reason, slcr_locked, ttc_owner, timer_works, tick_on_ttc, slcrCall, s_cause,
                     s_gpio_ready, s_uart_ready, s_wdt_ready>>
      /\ GoesOn
      /\ \/ s_wdt_ready /\ s_wdt_running' = TRUE /\ swdt_runs' = TRUE
         \/ ~s_wdt_ready /\ UNCHANGED <<swdt_runs, s_wdt_running>>
  BY <1>1 DEF wdt_drv_start, GoesOn
<1>3. restarted' = restarted /\ stage' \in 1 .. 14 /\ stage' = 12
  BY <1>1, <1>2 DEF GoesOn, Advance, history
<1>4. StartedInOrder'
  BY <1>1, <1>2, <1>3, PassedNow, PassedThen DEF BootInv, StartedInOrder, TickKept
<1>5. QED
  BY <1>1, <1>2, <1>4, StepKeeps DEF BootInv, BootTypeOK

LEMMA SchedulerKeeps ==
  ASSUME BootInv, vTaskStartScheduler
  PROVE  BootInv'
<1>1. slcr = "idle" /\ stage = 12
  BY OutsideCall, Places DEF vTaskStartScheduler, At
<1>2. /\ UNCHANGED <<reason, slcr_locked, swdt_runs, timer_works, tick_on_ttc, slcrCall, statics>>
      /\ \/ ttc_owner' = (IF tick_on_ttc THEN "kernel" ELSE ttc_owner) /\ GoesOn
         \/ UNCHANGED ttc_owner /\ Stays
  BY <1>1, FaultStays DEF vTaskStartScheduler, GoesOn
<1>3. /\ restarted' = restarted /\ stage' \in 1 .. 14 /\ stage' \in {12, 13}
      /\ (stage' = 13 /\ tick_on_ttc) => ttc_owner' = "kernel"
      /\ ~tick_on_ttc => UNCHANGED ttc_owner
  BY <1>1, <1>2 DEF GoesOn, Stays, Advance, history
<1>4. StartedInOrder'
  BY <1>1, <1>2, <1>3, PassedNow, PassedThen DEF BootInv, StartedInOrder, TickKept, statics
<1>5. QED
  BY <1>1, <1>2, <1>4, StepKeeps DEF statics, BootInv, BootTypeOK

LEMMA SamplingKeeps ==
  ASSUME BootInv, StartSampling
  PROVE  BootInv'
<1>1. slcr = "idle" /\ stage = 13
  BY OutsideCall, Places DEF StartSampling, At
<1>2. /\ UNCHANGED <<reason, slcr_locked, swdt_runs, timer_works, tick_on_ttc, slcrCall, statics>>
      /\ \/ ttc_owner' = "sampling" /\ ttc_owner = "none" /\ GoesOn
         \/ UNCHANGED ttc_owner /\ Stays
  BY <1>1, FaultStays DEF StartSampling, CounterBusy, GoesOn
<1>3. /\ restarted' = restarted /\ stage' \in 1 .. 14 /\ stage' \in {13, 14}
      /\ stage' = 13 => UNCHANGED ttc_owner
      /\ stage' = 14 => ttc_owner = "none"
  BY <1>1, <1>2 DEF GoesOn, Stays, Advance, history
<1>4. StartedInOrder'
  <2>1. tick_on_ttc => ttc_owner = "kernel"
    BY <1>1, PassedNow DEF BootInv, StartedInOrder, TickKept
  <2>2. QED
    BY <1>1, <1>2, <1>3, <2>1, PassedNow, PassedThen DEF BootInv, StartedInOrder, TickKept, statics
<1>5. QED
  BY <1>1, <1>2, <1>4, StepKeeps DEF statics, BootInv, BootTypeOK

LEMMA FaultKeeps ==
  ASSUME BootInv, TaskFaults
  PROVE  BootInv'
<1>1. slcr = "idle" /\ stage \in {13, 14}
  BY OutsideCall, Places DEF TaskFaults, At
<1>2. Stays /\ UNCHANGED <<hardware, slcrCall, statics>>
  BY FaultStays DEF TaskFaults
<1>3. StartedInOrder'
  BY <1>1, <1>2, StepInOrder DEF statics, hardware
<1>4. QED
  BY <1>1, <1>2, <1>3, StepKeeps DEF hardware, statics, BootInv, BootTypeOK

LEMMA MainKeeps ==
  ASSUME BootInv, MainStep
  PROVE  BootInv'
<1>1. CASE reset_cause_capture
  BY <1>1, CaptureKeeps
<1>2. CASE gpio_drv_init
  BY <1>2, GpioKeeps
<1>3. CASE uart_drv_init
  BY <1>3, UartKeeps
<1>4. CASE wdt_drv_init
  BY <1>4, WdtInitKeeps
<1>5. CASE wdt_drv_start
  BY <1>5, WdtStartKeeps
<1>6. CASE uptime_init
  <2>1. slcr = "idle" /\ stage = 6
    BY <1>6, OutsideCall, Places DEF uptime_init, At
  <2>2. (Advance \/ Stays) /\ UNCHANGED <<hardware, slcrCall, statics>>
    BY <1>6, FaultStays DEF uptime_init
  <2>3. QED
    BY <2>1, <2>2, InitOrHaltKeeps
<1>7. ASSUME NEW step \in {"xadc", "log", "tasks"}, InitOrHalt(step)
      PROVE  BootInv'
  <2>1. slcr = "idle" /\ stage \in {7, 8, 10}
    BY <1>7, OutsideCall, Places DEF InitOrHalt, At
  <2>2. (Advance \/ Stays) /\ UNCHANGED <<hardware, slcrCall, statics>>
    BY <1>7, FaultStays DEF InitOrHalt
  <2>3. QED
    BY <2>1, <2>2, InitOrHaltKeeps
<1>8. CASE vTaskStartScheduler
  BY <1>8, SchedulerKeeps
<1>9. QED
  BY <1>1, <1>2, <1>3, <1>4, <1>5, <1>6, <1>7, <1>8
  DEF MainStep, xadc_drv_init, sensor_log_init, tasks_create

LEMMA StutterKeeps == BootInv /\ UNCHANGED vars => BootInv'
BY DEF vars, BootInv, BootTypeOK, FlagsKnown, Captured, Passed, SlcrLocked, LockRemembered,
   StartedInOrder, TickKept, ModifiesSlcr, At

LEMMA ResetKinds == ResetKind \subseteq Reason /\ "SWDT" \in Reason
<1>1. /\ ReasonBits[1] = "SWDT" /\ ReasonBits[3] = "POR" /\ ReasonBits[4] = "SRST"
      /\ ReasonBits[5] = "DBG" /\ ReasonBits[6] = "SLC" /\ DOMAIN ReasonBits = 1 .. 6
  BY DEF ReasonBits
<1>2. QED
  BY <1>1 DEF Reason, ResetKind

(* At any point of main(), after any resets and restarts: the reason bits  *)
(* are those of the resets since they were last cleared, the SLCR is open  *)
(* in slcr_modify only, and what has been passed is initialised.           *)
THEOREM BootInvariant == Spec => []BootInv
<1>1. BootInv /\ [Next]_vars => BootInv'
  BY ResetKeeps, RestartKeeps, UnlockKeeps, WriteKeeps, RelockKeeps, MainKeeps, SamplingKeeps,
     FaultKeeps, StutterKeeps, ResetKinds DEF Next, SwdtResets
<1>2. QED
  BY <1>1, InitKeeps, PTL DEF Spec

(* Between the calls of slcr_modify the SLCR is locked, unless a debugger  *)
(* restarted the program since the last reset.                             *)
THEOREM SlcrIsLocked == Spec => []SlcrLocked
BY BootInvariant, PTL DEF BootInv

-----------------------------------------------------------------------------
(* What the user is told                                                   *)

(* The cause that is told was set when the flags were read, and with it    *)
(* the resets it is about; both stay as long as the program runs.          *)
LEMMA CauseStep == BannerTells /\ BootInv /\ BootInv' /\ [Next]_vars => BannerTells'
<1> SUFFICES ASSUME BannerTells, BootInv, stage' > 1, Next \/ UNCHANGED vars
             PROVE  /\ s_cause' \in (IF since' = {} THEN {"UNKNOWN"} ELSE since')
                    /\ "SWDT" \in since' => s_cause' = "SWDT"
  BY DEF BannerTells
<1>1. ~ProgramStarts
  BY DEF ProgramStarts
<1>2. CASE reset_cause_capture
  <2>1. slcr = "idle" /\ stage \in 1 .. 14 /\ stage = 1
    BY <1>2, OutsideCall, Places DEF reset_cause_capture, At
  <2>2. reason = since
    BY <2>1, PassedNow DEF BootInv, FlagsKnown, Captured
  <2>3. since' = since
    BY <1>2 DEF reset_cause_capture, Advance, history
  <2>4. ReasonBits[1] = "SWDT" /\ DOMAIN ReasonBits = 1 .. 6
    BY DEF ReasonBits
  <2>5. CASE reason = {} /\ s_cause' = "UNKNOWN"
    BY <2>2, <2>3, <2>5
  <2>6. ASSUME NEW i \in DOMAIN ReasonBits, ReasonBits[i] \in reason,
               \A j \in 1 .. i - 1 : ReasonBits[j] \notin reason, s_cause' = ReasonBits[i]
        PROVE  s_cause' \in since /\ ("SWDT" \in since => s_cause' = "SWDT")
    <3>1. "SWDT" \in reason => ~(1 \in 1 .. i - 1)
      BY <2>4, <2>6
    <3>2. ~(1 \in 1 .. i - 1) => i = 1
      BY <2>4
    <3>3. QED
      BY <2>2, <2>4, <2>6, <3>1, <3>2
  <2>7. QED
    BY <1>2, <2>3, <2>5, <2>6 DEF reset_cause_capture
<1>3. CASE UNCHANGED <<s_cause, since>> /\ stage > 1
  BY <1>3 DEF BannerTells
<1>4. CASE SlcrUnlock \/ SlcrWrite \/ SlcrRelock
  <2>1. UNCHANGED <<s_cause, since>>
    BY <1>4 DEF SlcrUnlock, SlcrWrite, SlcrRelock, SlcrReturns, Advance, statics, history
  <2>2. stage > 1
    <3>1. stage \in 1 .. 14 /\ (ModifiesSlcr \/ slcr # "idle")
      BY <1>4, StepsCounted DEF SlcrUnlock, SlcrWrite, SlcrRelock, BootInv, BootTypeOK
    <3>2. QED
      BY <3>1, InCall, Places DEF ModifiesSlcr, At
  <2>3. QED
    BY <1>3, <2>1, <2>2
<1>5. ASSUME NEW step, At(step), step \notin {"capture", "clear", "pullup"},
             Advance \/ fault_halt \/ UNCHANGED history, UNCHANGED s_cause
      PROVE  UNCHANGED <<s_cause, since>> /\ stage > 1
  <2>1. stage \in 1 .. 14 /\ stage # 1
    BY <1>5, OutsideCall, Places DEF At
  <2>2. QED
    BY <1>5, <2>1 DEF Advance, fault_halt, history
<1>6. CASE MainStep /\ ~reset_cause_capture
  BY <1>3, <1>5, <1>6 DEF MainStep, gpio_drv_init, uart_drv_init, uptime_init, InitOrHalt,
     xadc_drv_init, sensor_log_init, tasks_create, vTaskStartScheduler, wdt_drv_init,
     wdt_drv_start, statics
<1>7. CASE StartSampling \/ TaskFaults
  BY <1>3, <1>5, <1>7 DEF StartSampling, TaskFaults, statics
<1>8. CASE UNCHANGED vars
  BY <1>3, <1>8 DEF vars
<1>9. QED
  BY <1>1, <1>2, <1>4, <1>6, <1>7, <1>8 DEF Next, Reset, SwdtResets, Restart

(* However often the board is reset and the program restarted, and in the  *)
(* middle of whatever, the banner and the 'd' command name a reset that    *)
(* happened since the last capture, the watchdog's if it is one of them.   *)
THEOREM BannerIsTrue == Spec => []BannerTells
<1>1. Init => BannerTells
  BY DEF Init, BannerTells
<1>2. QED
  BY <1>1, CauseStep, BootInvariant, PTL DEF Spec

-----------------------------------------------------------------------------
(* What earlier runs leave behind                                          *)

(* A fault tells of the watchdog what its driver's flag says.              *)
LEMMA FaultTellsFlag ==
  ASSUME BootInv, WdtFlagTrue, fault_halt, UNCHANGED swdt_runs
  PROVE  said' = "waiting" => swdt_runs'
<1>1. said' = "waiting" => s_wdt_running
  BY DEF fault_halt
<1>2. s_wdt_running => s_wdt_ready
  BY DEF BootInv, StartedInOrder, TickKept
<1>3. s_wdt_ready /\ s_wdt_running => swdt_runs
  BY DEF WdtFlagTrue
<1>4. QED
  BY <1>1, <1>2, <1>3

LEMMA FlagStep == WdtFlagTrue /\ BootInv /\ [Next]_vars => WdtFlagTrue'
<1> SUFFICES ASSUME WdtFlagTrue, BootInv, Next \/ UNCHANGED vars
             PROVE  WdtFlagTrue'
  OBVIOUS
<1>1. ASSUME ProgramStarts
      PROVE  WdtFlagTrue'
  BY <1>1 DEF ProgramStarts, WdtFlagTrue
<1>2. ASSUME UNCHANGED <<s_wdt_ready, s_wdt_running, swdt_runs, history>>,
             said' = said \/ (said' = "waiting" => swdt_runs')
      PROVE  WdtFlagTrue'
  <2>1. /\ s_wdt_ready => (s_wdt_running <=> swdt_runs)
        /\ said = "waiting" => swdt_runs
    BY DEF WdtFlagTrue
  <2>2. (~restarted /\ ~s_wdt_running) => ~swdt_runs
    BY DEF BootInv, StartedInOrder
  <2>3. QED
    BY <1>2, <2>1, <2>2 DEF WdtFlagTrue, history
<1>3. ASSUME fault_halt, UNCHANGED <<s_wdt_ready, s_wdt_running, swdt_runs>>
      PROVE  WdtFlagTrue'
  BY <1>2, <1>3, FaultTellsFlag DEF fault_halt
<1>4. CASE SlcrUnlock \/ SlcrWrite \/ SlcrRelock
  BY <1>2, <1>4 DEF SlcrUnlock, SlcrWrite, SlcrRelock, SlcrReturns, Advance, statics, shown
<1>5. CASE reset_cause_capture \/ gpio_drv_init
  BY <1>2, <1>5 DEF reset_cause_capture, gpio_drv_init, Advance, hardware, shown
<1>6. CASE uart_drv_init
  BY <1>2, <1>3, <1>6 DEF uart_drv_init, Advance, hardware, shown
<1>7. CASE uptime_init \/ \E step : InitOrHalt(step)
  BY <1>2, <1>3, <1>7 DEF uptime_init, InitOrHalt, Advance, hardware, statics, shown
<1>8. CASE vTaskStartScheduler \/ StartSampling \/ TaskFaults
  BY <1>2, <1>3, <1>8 DEF vTaskStartScheduler, StartSampling, TaskFaults, Advance, hardware, statics, shown
<1>9. CASE wdt_drv_init
  <2>1. stage \in 1 .. 14 /\ stage = 9 /\ said = "nothing"
    BY <1>9, OutsideCall, Places DEF wdt_drv_init, At, BootInv, BootTypeOK
  <2>2. ~s_wdt_ready /\ ~s_wdt_running
    BY <2>1, PassedNow DEF BootInv, StartedInOrder, TickKept
  <2>3. s_wdt_running' = s_wdt_running
    BY <1>9 DEF wdt_drv_init
  <2>4. CASE s_wdt_ready' = TRUE /\ swdt_runs' = FALSE /\ Advance
    BY <2>1, <2>2, <2>3, <2>4 DEF WdtFlagTrue, Advance, shown
  <2>5. CASE fault_halt /\ UNCHANGED s_wdt_ready
    <3>1. said' # "waiting"
      BY <2>2, <2>5 DEF fault_halt
    <3>2. ~s_wdt_ready'
      BY <2>2, <2>5
    <3>3. swdt_runs' => restarted
      BY <1>9, <2>2 DEF wdt_drv_init, BootInv, StartedInOrder
    <3>4. QED
      BY <2>5, <3>1, <3>2, <3>3 DEF WdtFlagTrue, fault_halt, history
  <2>6. QED
    BY <1>9, <2>4, <2>5, Zenon DEF wdt_drv_init
<1>10. CASE wdt_drv_start
  <2>1. said' = "nothing" /\ board' = "up"
    BY <1>10 DEF wdt_drv_start, At, Advance, shown, BootInv, BootTypeOK
  <2>2. s_wdt_ready' = s_wdt_ready
    BY <1>10 DEF wdt_drv_start
  <2>3. CASE s_wdt_ready
    <3>1. swdt_runs' = TRUE /\ s_wdt_running' = TRUE
      BY <1>10, <2>3 DEF wdt_drv_start
    <3>2. QED
      BY <2>1, <3>1 DEF WdtFlagTrue
  <2>4. CASE ~s_wdt_ready
    BY <2>1, <2>2, <2>4 DEF WdtFlagTrue
  <2>5. QED
    BY <2>3, <2>4
<1>11. CASE UNCHANGED vars
  BY <1>2, <1>11 DEF vars, history
<1>12. QED
  BY <1>1, <1>4, <1>5, <1>6, <1>7, <1>8, <1>9, <1>10, <1>11
  DEF Next, MainStep, Reset, SwdtResets, Restart, xadc_drv_init, sensor_log_init, tasks_create

(* What the watchdog driver says of the SWDT, and a fault of the reset to  *)
(* come, is true although a debugger's restart leaves the SWDT running,    *)
(* and a fault before wdt_drv_start leads to no reset but after one. Only  *)
(* a restart, or a build whose tick runs on it, makes sample_timer_init    *)
(* find its counter busy, and a counter of the kernel's is never taken.    *)
THEOREM LeftoversAreKnown == Spec => []LeftoversKnown
<1>1. Init => WdtFlagTrue
  BY DEF Init, WdtFlagTrue
<1>2. BootInv => TimerFoundFree
  <2> SUFFICES ASSUME BootInv, At("timer"), ~restarted, ~tick_on_ttc
               PROVE  ttc_owner = "none"
    BY DEF TimerFoundFree
  <2>1. stage \in 1 .. 14 /\ stage = 13
    BY OutsideCall, Places DEF At
  <2>2. QED
    BY <2>1, PassedNow DEF BootInv, StartedInOrder, TickKept
<1>3. Spec => []WdtFlagTrue
  BY <1>1, FlagStep, BootInvariant, PTL DEF Spec
<1>4. BootInv => TickKept
  BY DEF BootInv, StartedInOrder
<1>5. QED
  BY <1>2, <1>3, <1>4, BootInvariant, PTL DEF LeftoversKnown

-----------------------------------------------------------------------------
(* What a failure shows                                                    *)

LEMMA FaultShows ==
  ASSUME BootInv, NEW step, At(step), fault_halt,
         step \in {"uart", "uptime", "xadc", "log", "wdt", "tasks", "scheduler", "timer", "running"}
  PROVE  FailuresShown'
<1>1. stage \in 1 .. 14 /\ stage' = stage /\ BootSteps[stage] = step
  BY OutsideCall DEF At, fault_halt
<1>2. stage > 4
  BY <1>1, Places
<1>3. s_gpio_ready
  BY <1>1, <1>2, PassedNow DEF BootInv, StartedInOrder, TickKept
<1>4. stage # 5 => s_uart_ready
  BY <1>1, <1>2, PassedNow DEF BootInv, StartedInOrder, TickKept
<1>5. stage = 5 => BootSteps[stage] = "uart"
  BY <1>1, Places
<1>6. board' = "parked" /\ ld4' # "off"
  BY <1>3 DEF fault_halt
<1>7. s_uart_ready => said' # "nothing"
  BY DEF fault_halt
<1>8. QED
  BY <1>1, <1>4, <1>5, <1>6, <1>7 DEF FailuresShown

LEMMA ShownStep == FailuresShown /\ BootInv /\ [Next]_vars => FailuresShown'
<1> SUFFICES ASSUME FailuresShown, BootInv, Next \/ UNCHANGED vars
             PROVE  FailuresShown'
  OBVIOUS
<1>1. ASSUME board' = "up"
      PROVE  FailuresShown'
  BY <1>1 DEF FailuresShown
<1>2. ASSUME UNCHANGED <<stage, shown>>
      PROVE  FailuresShown'
  BY <1>2 DEF FailuresShown, shown
<1>3. ASSUME NEW step, At(step), Advance
      PROVE  FailuresShown'
  BY <1>1, <1>3 DEF At, Advance, shown
<1>4. CASE SlcrUnlock \/ SlcrWrite
  BY <1>2, <1>4 DEF SlcrUnlock, SlcrWrite
<1>5. CASE SlcrRelock
  <2>1. board' = "up"
    BY <1>5, InCall DEF SlcrRelock, SlcrReturns, Advance, shown
  <2>2. QED
    BY <1>1, <2>1
<1>6. CASE reset_cause_capture \/ wdt_drv_start
  BY <1>3, <1>6 DEF reset_cause_capture, wdt_drv_start
<1>7. CASE gpio_drv_init
  BY <1>3, <1>7 DEF gpio_drv_init, FailuresShown, At
<1>8. CASE \/ uart_drv_init \/ uptime_init \/ wdt_drv_init
           \/ vTaskStartScheduler \/ StartSampling \/ TaskFaults
  BY <1>3, <1>8, FaultShows
  DEF uart_drv_init, uptime_init, wdt_drv_init, vTaskStartScheduler, StartSampling, TaskFaults
<1>9. ASSUME NEW step \in {"xadc", "log", "tasks"}, InitOrHalt(step)
      PROVE  FailuresShown'
  BY <1>3, <1>9, FaultShows DEF InitOrHalt
<1>10. CASE UNCHANGED vars
  BY <1>2, <1>10 DEF vars, shown
<1>11. QED
  BY <1>1, <1>4, <1>5, <1>6, <1>7, <1>8, <1>9, <1>10
  DEF Next, MainStep, Reset, SwdtResets, Restart, ProgramStarts, xadc_drv_init,
      sensor_log_init, tasks_create

(* A failure of gpio_drv_init is the only one that shows nothing; any      *)
(* later one lights LD4, and any after uart_drv_init is told, too.         *)
THEOREM FailuresAreShown == Spec => []FailuresShown
<1>1. Init => FailuresShown
  BY DEF Init, FailuresShown
<1>2. QED
  BY <1>1, ShownStep, BootInvariant, PTL DEF Spec
=============================================================================
