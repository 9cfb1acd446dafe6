-------------------------------- MODULE Boot --------------------------------
(***************************************************************************)
(* From a reset to the first sample: main.c, reset_cause.c with slcr.c,    *)
(* the drivers' init functions, sample_timer_init in the producer task,    *)
(* and what fault.c shows when one of them fails.                          *)
(*                                                                         *)
(* The board may be reset at any point, and a debugger may restart the     *)
(* program without a reset (reset_cause.h:16): RAM is initialised again,   *)
(* while the SWDT, the sample counter and the SLCR stay as they are.       *)
(*                                                                         *)
(* After a reset the FSBL hands over with the SWDT stopped and the SLCR    *)
(* write-locked; its own run is left out. APP_WDT_ENABLE is 1. Whether an  *)
(* init function fails is open, save where it depends on the state.        *)
(***************************************************************************)
EXTENDS Integers, Sequences

CONSTANT ButtonCount    \* GPIO_BTN_COUNT

ASSUME BootAssumption == ButtonCount \in Nat \ {0}

VARIABLES
  \* hardware
  reason,       \* reset reason bits of SLCR REBOOT_STATUS
  slcr_locked,  \* SLCR writes are ignored
  swdt_runs,    \* the SWDT counts down to a reset; kicks are left to Watchdog
  ttc_owner,    \* who started the counter of the sample timer, "none" if it stands still
  timer_works,  \* the global timer counts once uptime_init has been called
  tick_on_ttc,  \* the build gives the kernel's tick to the same counter (board_zybo.h:88-96)
  \* the program
  stage,        \* place in BootSteps
  btn,          \* in gpio_drv_init's loop: the button whose pull-up is set
  slcr,         \* how far slcr_modify is: see BootTypeOK
  was_locked,   \* its variable
  s_cause, s_gpio_ready, s_uart_ready, s_wdt_ready, s_wdt_running,
  \* what a user sees after a failure
  board,        \* "up", "parked" by fault_park or "dark" in main()'s endless loop
  said,         \* the last line of fault_park
  ld4,          \* and its LED
  \* history
  since,        \* resets that the program has not yet read and cleared at its start
  restarted     \* a debugger has restarted the program since the last reset

hardware == <<reason, slcr_locked, swdt_runs, ttc_owner, timer_works, tick_on_ttc>>
slcrCall == <<slcr, was_locked, btn>>
statics == <<s_cause, s_gpio_ready, s_uart_ready, s_wdt_ready, s_wdt_running>>
shown == <<board, said, ld4>>
history == <<since, restarted>>
vars == <<reason, slcr_locked, swdt_runs, ttc_owner, timer_works, tick_on_ttc, stage, btn,
          slcr, was_locked, s_cause, s_gpio_ready, s_uart_ready, s_wdt_ready, s_wdt_running,
          board, said, ld4, since, restarted>>

\* bits of REBOOT_STATUS in the order in which reset_cause_capture tests them
ReasonBits == <<"SWDT", "AWDT", "POR", "SRST", "DBG", "SLC">>

Reason == {ReasonBits[i] : i \in DOMAIN ReasonBits}

\* resets this board can have; nothing uses the CPU's private watchdogs (AWDT)
ResetKind == {"POR", "SRST", "DBG", "SLC"}

\* mutant: the ADC is brought up before the console
XadcBeforeUart ==
  <<"capture", "clear", "gpio", "pullup", "xadc", "uart", "uptime", "log", "wdt", "tasks",
    "start", "scheduler", "timer", "running">>

BootSteps ==
  <<"capture", "clear", "gpio", "pullup", "uart", "uptime", "xadc", "log", "wdt", "tasks",
    "start", "scheduler", "timer", "running">>

At(step) == board = "up" /\ BootSteps[stage] = step

Passed(step) == \E i \in 1 .. stage - 1 : BootSteps[i] = step

Advance == stage' = stage + 1 /\ UNCHANGED <<shown, history>>

Init ==
  /\ reason = {"POR"} /\ slcr_locked = TRUE /\ swdt_runs = FALSE /\ ttc_owner = "none"
  /\ timer_works \in BOOLEAN /\ tick_on_ttc \in BOOLEAN
  /\ stage = 1 /\ btn = 1 /\ slcr = "idle" /\ was_locked = FALSE
  /\ s_cause = "UNKNOWN"
  /\ s_gpio_ready = FALSE /\ s_uart_ready = FALSE /\ s_wdt_ready = FALSE /\ s_wdt_running = FALSE
  /\ board = "up" /\ said = "nothing" /\ ld4 = "off"
  /\ since = {"POR"} /\ restarted = FALSE

-----------------------------------------------------------------------------
(* Resets and restarts                                                     *)

\* the program has cleared the flags
Captured == Passed("clear") \/ slcr = "written"

ProgramStarts ==
  /\ stage' = 1 /\ btn' = 1 /\ slcr' = "idle" /\ was_locked' = FALSE
  /\ s_cause' = "UNKNOWN"
  /\ s_gpio_ready' = FALSE /\ s_uart_ready' = FALSE
  /\ s_wdt_ready' = FALSE /\ s_wdt_running' = FALSE
  /\ board' = "up" /\ said' = "nothing" /\ ld4' = "off"
  /\ UNCHANGED <<timer_works, tick_on_ttc>>

\* the reason bits are sticky through everything but a power-on reset
Reset(kind) ==
  /\ reason' = IF kind = "POR" THEN {"POR"} ELSE reason \cup {kind}
  /\ since' = IF kind = "POR" \/ Captured THEN {kind} ELSE since \cup {kind}
  /\ restarted' = FALSE
  /\ slcr_locked' = TRUE /\ swdt_runs' = FALSE /\ ttc_owner' = "none"
  /\ ProgramStarts

SwdtResets == swdt_runs /\ Reset("SWDT")

Restart ==
  /\ since' = IF Captured THEN {} ELSE since
  /\ restarted' = TRUE
  /\ UNCHANGED <<reason, slcr_locked, swdt_runs, ttc_owner>>
  /\ ProgramStarts

-----------------------------------------------------------------------------
(* fault.c                                                                 *)

\* mutant: goes on after the report
FaultReturns ==
  /\ said' = IF ~s_uart_ready THEN "nothing" ELSE IF s_wdt_running THEN "waiting" ELSE "halted"
  /\ stage' = stage + 1
  /\ UNCHANGED <<board, ld4, history>>

\* fault_busy_wait_us never ends if the global timer stands still
fault_halt ==
  /\ board' = "parked"
  /\ said' = IF ~s_uart_ready THEN "nothing" ELSE IF s_wdt_running THEN "waiting" ELSE "halted"
  /\ ld4' = IF ~s_gpio_ready THEN "off" ELSE IF timer_works THEN "flashing" ELSE "steady"
  /\ UNCHANGED <<stage, history>>

-----------------------------------------------------------------------------
(* slcr_modify, called for the reason bits and for each button's pull-up   *)

ModifiesSlcr == At("clear") \/ At("pullup")

\* mutant: the lock is not opened
WritesLocked ==
  /\ ModifiesSlcr /\ slcr = "idle"
  /\ was_locked' = slcr_locked /\ slcr' = "open"
  /\ UNCHANGED <<hardware, stage, btn, statics, shown, history>>

SlcrUnlock ==
  /\ ModifiesSlcr /\ slcr = "idle"
  /\ was_locked' = slcr_locked /\ slcr_locked' = FALSE
  /\ slcr' = "open"
  /\ UNCHANGED <<reason, swdt_runs, ttc_owner, timer_works, tick_on_ttc, stage, btn, statics,
                 shown, history>>

SlcrWrite ==
  /\ slcr = "open"
  /\ reason' = IF At("clear") /\ ~slcr_locked THEN {} ELSE reason
  /\ slcr' = "written"
  /\ UNCHANGED <<slcr_locked, swdt_runs, ttc_owner, timer_works, tick_on_ttc, stage, btn,
                 was_locked, statics, shown, history>>

\* back from slcr_modify: to the next button if gpio_drv_init has one
SlcrReturns ==
  \/ /\ At("pullup") /\ btn < ButtonCount
     /\ btn' = btn + 1 /\ UNCHANGED <<stage, shown, history>>
  \/ /\ At("clear") \/ btn = ButtonCount
     /\ Advance /\ UNCHANGED btn

\* mutant: the lock stays open
LeavesUnlocked ==
  /\ slcr = "written" /\ slcr' = "idle"
  /\ SlcrReturns /\ UNCHANGED <<hardware, was_locked, statics>>

SlcrRelock ==
  /\ slcr = "written"
  /\ slcr_locked' = was_locked
  /\ slcr' = "idle"
  /\ SlcrReturns
  /\ UNCHANGED <<reason, swdt_runs, ttc_owner, timer_works, tick_on_ttc, was_locked, statics>>

-----------------------------------------------------------------------------
(* main()                                                                  *)

reset_cause_capture ==
  /\ At("capture")
  /\ \/ reason = {} /\ s_cause' = "UNKNOWN"
     \/ \E i \in DOMAIN ReasonBits :
          /\ ReasonBits[i] \in reason /\ \A j \in 1 .. i - 1 : ReasonBits[j] \notin reason
          /\ s_cause' = ReasonBits[i]
  /\ Advance
  /\ UNCHANGED <<hardware, slcrCall, s_gpio_ready, s_uart_ready, s_wdt_ready, s_wdt_running>>

gpio_drv_init ==
  /\ At("gpio")
  /\ \/ s_gpio_ready' = TRUE /\ Advance
     \/ board' = "dark" /\ UNCHANGED <<stage, s_gpio_ready, said, ld4, history>>
  /\ UNCHANGED <<hardware, slcrCall, s_cause, s_uart_ready, s_wdt_ready, s_wdt_running>>

uart_drv_init ==
  /\ At("uart")
  /\ \/ s_uart_ready' = TRUE /\ Advance
     \/ fault_halt /\ UNCHANGED s_uart_ready
  /\ UNCHANGED <<hardware, slcrCall, s_cause, s_gpio_ready, s_wdt_ready, s_wdt_running>>

\* and the banner
uptime_init ==
  /\ At("uptime")
  /\ IF timer_works THEN Advance ELSE fault_halt
  /\ UNCHANGED <<hardware, slcrCall, statics>>

InitOrHalt(step) ==
  /\ At(step)
  /\ Advance \/ fault_halt
  /\ UNCHANGED <<hardware, slcrCall, statics>>

xadc_drv_init == InitOrHalt("xadc")

sensor_log_init == InitOrHalt("log")

\* the four task_*_create()
tasks_create == InitOrHalt("tasks")

\* the kernel starts its tick (xiltimer), on whatever counter the build gives it
vTaskStartScheduler ==
  /\ At("scheduler")
  /\ \/ Advance /\ ttc_owner' = IF tick_on_ttc THEN "kernel" ELSE ttc_owner
     \/ fault_halt /\ UNCHANGED ttc_owner
  /\ UNCHANGED <<reason, slcr_locked, swdt_runs, timer_works, tick_on_ttc, slcrCall, statics>>

\* mutant: relies on the FSBL to have stopped the SWDT
StopsNothing ==
  /\ At("wdt")
  /\ \/ s_wdt_ready' = TRUE /\ Advance
     \/ fault_halt /\ UNCHANGED s_wdt_ready
  /\ UNCHANGED <<hardware, slcrCall, s_cause, s_gpio_ready, s_uart_ready, s_wdt_running>>

\* fails before it stops the SWDT, or after that for a timeout out of range
wdt_drv_init ==
  /\ At("wdt")
  /\ \/ s_wdt_ready' = TRUE /\ swdt_runs' = FALSE /\ Advance
     \/ swdt_runs' \in {swdt_runs, FALSE} /\ fault_halt /\ UNCHANGED s_wdt_ready
  /\ UNCHANGED <<reason, slcr_locked, ttc_owner, timer_works, tick_on_ttc, slcrCall, s_cause,
                 s_gpio_ready, s_uart_ready, s_wdt_running>>

wdt_drv_start ==
  /\ At("start")
  /\ IF s_wdt_ready
       THEN swdt_runs' = TRUE /\ s_wdt_running' = TRUE
       ELSE UNCHANGED <<swdt_runs, s_wdt_running>>
  /\ Advance
  /\ UNCHANGED <<reason, slcr_locked, ttc_owner, timer_works, tick_on_ttc, slcrCall, s_cause,
                 s_gpio_ready, s_uart_ready, s_wdt_ready>>

\* mutant: takes the counter over
NeverBusy == FALSE

\* XTtcPs_CfgInitialize: XST_DEVICE_IS_STARTED
CounterBusy == ttc_owner # "none"

\* sample_timer_init, which refuses a counter that is counting, and sample_timer_start
StartSampling ==
  /\ At("timer")
  /\ \/ ~CounterBusy /\ ttc_owner' = "sampling" /\ Advance
     \/ fault_halt /\ UNCHANGED ttc_owner
  /\ UNCHANGED <<reason, slcr_locked, swdt_runs, timer_works, tick_on_ttc, slcrCall, statics>>

\* an assertion, a hook of rtos_hooks.c or an exception
TaskFaults ==
  /\ At("timer") \/ At("running")
  /\ fault_halt
  /\ UNCHANGED <<hardware, slcrCall, statics>>

-----------------------------------------------------------------------------
MainStep ==
  \/ reset_cause_capture \/ gpio_drv_init \/ uart_drv_init \/ uptime_init \/ xadc_drv_init
  \/ sensor_log_init \/ wdt_drv_init \/ tasks_create \/ wdt_drv_start \/ vTaskStartScheduler

Next ==
  \/ \E kind \in ResetKind : Reset(kind)
  \/ SwdtResets \/ Restart
  \/ SlcrUnlock \/ SlcrWrite \/ SlcrRelock
  \/ MainStep \/ StartSampling \/ TaskFaults

Spec == Init /\ [][Next]_vars

-----------------------------------------------------------------------------
BootTypeOK ==
  /\ reason \subseteq Reason /\ since \subseteq Reason
  /\ restarted \in BOOLEAN
  /\ slcr_locked \in BOOLEAN /\ swdt_runs \in BOOLEAN
  /\ ttc_owner \in {"none", "kernel", "sampling"}
  /\ timer_works \in BOOLEAN /\ tick_on_ttc \in BOOLEAN
  /\ stage \in 1 .. Len(BootSteps) /\ btn \in 1 .. ButtonCount
  /\ slcr \in {"idle", "open", "written"} /\ was_locked \in BOOLEAN
  /\ s_cause \in Reason \cup {"UNKNOWN"}
  /\ {s_gpio_ready, s_uart_ready, s_wdt_ready, s_wdt_running} \subseteq BOOLEAN
  /\ board \in {"up", "parked", "dark"} /\ said \in {"nothing", "waiting", "halted"}
  /\ ld4 \in {"off", "steady", "flashing"}
  /\ board = "up" => said = "nothing" /\ ld4 = "off"
  /\ slcr # "idle" => ModifiesSlcr

(* The banner and the 'd' command tell how the program came to start: by   *)
(* none but a reset since it last cleared the flags, by the watchdog if    *)
(* that is among them, and "unknown" after a restart without a reset       *)
(* (reset_cause.h:7-9, the table in the stage's Readme.md). Resets that    *)
(* hit before the flags are cleared are the only ones to be confused.      *)
BannerTells ==
  stage > 1 =>
    /\ s_cause \in (IF since = {} THEN {"UNKNOWN"} ELSE since)
    /\ "SWDT" \in since => s_cause = "SWDT"

(* slcr_modify "puts back whatever lock state it found" (slcr.h:7): the    *)
(* SLCR stays open only if a debugger restarts the program in the middle   *)
(* of a call, and then until the next reset.                               *)
SlcrLocked == slcr = "idle" /\ ~restarted => slcr_locked

(* Once the driver has been initialised, its flag tells what the SWDT      *)
(* does, whatever ran before a restart. So fault_park promises a reset by  *)
(* the watchdog only when there is one to come (fault.c:30-40), and a      *)
(* fault ahead of wdt_drv_start leaves the board halted for the user to    *)
(* see: no reset follows, unless a debugger restarted the program and its  *)
(* wdt_drv_init has not stopped the SWDT of the run before.                *)
WdtFlagTrue ==
  /\ s_wdt_ready => (s_wdt_running <=> swdt_runs)
  /\ said = "waiting" => swdt_runs
  /\ (board # "up" /\ swdt_runs) => s_wdt_running \/ (restarted /\ ~s_wdt_ready)

(* sample_timer_init finds its counter busy only if the build gave it to   *)
(* the kernel, or a run before a debugger's restart has left it counting.  *)
TimerFoundFree == (At("timer") /\ ~restarted /\ ~tick_on_ttc) => ttc_owner = "none"

(* "A clash still fails loudly rather than killing the RTOS tick"          *)
(* (board_zybo.h:95): a counter that the kernel's tick runs on stays the   *)
(* kernel's from the start of the scheduler on, and nothing is sampled.    *)
TickKept == (tick_on_ttc /\ Passed("scheduler")) => ttc_owner = "kernel" /\ ~Passed("timer")

(* Nothing that an earlier run or the kernel has started is mistaken for   *)
(* this program's own, nor stopped by it.                                  *)
LeftoversKnown == WdtFlagTrue /\ TimerFoundFree /\ TickKept

(* "GPIO first so a failure in anything after it can at least be shown on  *)
(* LD4, then the UART so every later failure can be reported by text"      *)
(* (main.c:81).                                                            *)
FailuresShown ==
  /\ board = "dark" => BootSteps[stage] = "gpio"
  /\ board = "parked" => ld4 # "off" /\ (said = "nothing" => BootSteps[stage] = "uart")

-----------------------------------------------------------------------------
(* The inductive invariant behind these.                                   *)

\* the bits tell the resets since the program last cleared them
FlagsKnown == reason = IF Captured THEN {} ELSE since

\* in the middle of a call the SLCR is open, and will be locked at its end
LockRemembered == slcr # "idle" => ~slcr_locked /\ (~restarted => was_locked)

\* what has been passed is initialised, and nothing starts before its time
StartedInOrder ==
  /\ Passed("gpio") => s_gpio_ready
  /\ Passed("uart") => s_uart_ready
  /\ s_wdt_running => s_wdt_ready
  /\ s_wdt_ready => Passed("wdt")
  /\ (~restarted /\ ~s_wdt_running) => ~swdt_runs
  /\ (~restarted /\ ~tick_on_ttc /\ ~Passed("timer")) => ttc_owner = "none"
  /\ TickKept

BootInv == BootTypeOK /\ FlagsKnown /\ SlcrLocked /\ LockRemembered /\ StartedInOrder

-----------------------------------------------------------------------------
(* fault.h:4: "say what went wrong, then park the system with LD4 flashing *)
(* fast".                                                                  *)
FaultFlashes == board = "parked" => ld4 = "flashing"
=============================================================================
