------------------------------ MODULE Watchdog ------------------------------
(***************************************************************************)
(* The supervisor task and the hardware watchdog (SWDT) it kicks:          *)
(* task_watchdog.c, wdt_drv.c, the last steps of main() and fault_park.    *)
(* Each client task checks in by storing the tick count. Every             *)
(* CheckPeriod ticks the supervisor compares the stored ticks with its     *)
(* own, and either kicks or, once a client is late, never kicks again.     *)
(*                                                                         *)
(* Clients are their index in s_clients, which is also the order of their  *)
(* priorities, the highest first. What a client does between two check-ins *)
(* is left open: it may be silent for any time, on its own account or      *)
(* because others use the CPU. The supervisor outranks every client, so    *)
(* none of them takes a step while it is ready. Ticks do pass, up to       *)
(* PassTicks of them from the supervisor's wake-up to the end of its pass, *)
(* and the scheduler starts within StartTicks, or never: these are the     *)
(* assumptions about time.                                                 *)
(*                                                                         *)
(* The statistics (kicks, worst_silence_ms) and the text of the reports    *)
(* are left out. APP_WDT_ENABLE is 1.                                      *)
(***************************************************************************)
EXTENDS Integers

CONSTANTS ClientCount,  \* WDOG_CLIENT_COUNT
          Ui,           \* WDOG_CLIENT_UI: the client whose test hang blocks
          Consumer,     \* WDOG_CLIENT_CONSUMER: the client that runs the tests
          limit_ms,     \* s_clients[].limit_ms
          TickRateHz,   \* configTICK_RATE_HZ
          CheckPeriod,  \* APP_WDT_CHECK_PERIOD_MS, in ticks
          Timeout,      \* of the SWDT, in ticks
          PassTicks,    \* ticks one pass of the supervisor may take
          StartTicks,   \* ticks from wdt_drv_start to the scheduler
          Wrap,         \* values of a TickType_t
          TestCommands  \* APP_WDT_TEST_COMMANDS # 0

Client == 0 .. ClientCount - 1
NoClient == ClientCount

(* main.c:65 checks that there are at least two chances to kick in each    *)
(* timeout. Silences are far below the width of the tick count.            *)
ASSUME WatchdogAssumption ==
  /\ ClientCount \in Nat \ {0}
  /\ Ui \in Client /\ Consumer \in Client
  /\ limit_ms \in [Client -> Nat]
  /\ TickRateHz \in Nat \ {0}
  /\ CheckPeriod \in Nat \ {0} /\ PassTicks \in 0 .. CheckPeriod - 1
  /\ Timeout \in Nat /\ 2 * CheckPeriod < Timeout
  /\ StartTicks \in 0 .. Timeout - CheckPeriod - PassTicks - 1
  /\ TestCommands \in BOOLEAN
  /\ Wrap \in Nat
  /\ \A c \in Client : (limit_ms[c] + 1) * TickRateHz + (CheckPeriod + Timeout) * 1000
                         < Wrap * 1000

VARIABLES
  board,            \* what main() has come to: see BoardTypeOK
  swdt,             \* ticks until the SWDT resets the board, NotStarted before it runs
  tick,             \* xTaskGetTickCount()
  \* the supervisor
  wpc, last_wake, now_tick, kicking, reported,
  \* the clients
  cpc, checkin_tick, last_checkin_tick, hang_requested,
  \* history, true times which no width limits
  pass,             \* ticks since the supervisor's wait ended
  silence,          \* ticks since last_checkin_tick was read from the clock
  register_age,     \* ticks since checkin_tick was
  was_late          \* the clients that at some time were silent beyond their limit

supervisorVars == <<wpc, last_wake, now_tick, kicking, reported>>
clientVars == <<cpc, checkin_tick, last_checkin_tick, hang_requested>>
history == <<pass, silence, register_age, was_late>>
vars == <<board, swdt, tick, wpc, last_wake, now_tick, kicking, reported, cpc, checkin_tick,
          last_checkin_tick, hang_requested, pass, silence, register_age, was_late>>

NotStarted == Timeout + 1

Init ==
  /\ board = "main" /\ swdt = NotStarted /\ tick = 0
  /\ wpc = "delay" /\ last_wake = 0 /\ now_tick = 0 /\ kicking = TRUE /\ reported = NoClient
  /\ cpc = [c \in Client |-> "loop"]
  /\ checkin_tick = [c \in Client |-> 0]
  /\ last_checkin_tick = [c \in Client |-> 0]
  /\ hang_requested = [c \in Client |-> FALSE]
  /\ pass = 0 /\ silence = [c \in Client |-> 0] /\ register_age = [c \in Client |-> 0]
  /\ was_late = {}

-----------------------------------------------------------------------------
(* wdt_drv.c, and the hardware behind it                                   *)

wdt_drv_is_running == swdt # NotStarted

wdt_drv_start == swdt' = Timeout

wdt_drv_kick == IF wdt_drv_is_running THEN swdt' = Timeout ELSE UNCHANGED swdt

\* mutant: the watchdog stops with the kernel
StopsWithKernel ==
  wdt_drv_is_running /\ swdt' = IF board = "halted" THEN swdt ELSE swdt - 1

CountsDown == wdt_drv_is_running /\ swdt' = swdt - 1

-----------------------------------------------------------------------------
(* main(), from wdt_drv_start on                                           *)

StartWatchdog ==
  /\ board = "main"
  /\ wdt_drv_start
  /\ board' = "started"
  /\ UNCHANGED <<tick, supervisorVars, clientVars, history>>

StartScheduler ==
  /\ board = "started" /\ swdt >= Timeout - StartTicks
  /\ board' = "run"
  /\ UNCHANGED <<swdt, tick, supervisorVars, clientVars, history>>

\* fault_halt: before the scheduler, from a hook, or test key 4. Interrupts masked for good
FaultHalt ==
  /\ board \in {"main", "started", "run"}
  /\ board' = "halted"
  /\ UNCHANGED <<swdt, tick, supervisorVars, clientVars, history>>

-----------------------------------------------------------------------------
(* Time. The SWDT counts whatever the CPU does; the tick count needs the   *)
(* scheduler.                                                              *)

wdog_ticks_to_ms(ticks) == (ticks * 1000) \div TickRateHz

\* mutant: the limit itself is already too long
LimitReached(c, ticks) == wdog_ticks_to_ms(ticks) >= limit_ms[c]

TooLong(c, ticks) == wdog_ticks_to_ms(ticks) > limit_ms[c]

\* vTaskDelayUntil blocks until CheckPeriod after last_wake
Delayed == wpc = "delay" /\ (tick - last_wake) % Wrap < CheckPeriod

KernelTick ==
  /\ board = "run" /\ swdt > 0
  /\ CountsDown
  /\ Delayed \/ pass < PassTicks
  /\ tick' = (tick + 1) % Wrap
  /\ pass' = IF Delayed THEN 0 ELSE pass + 1
  /\ silence' = [c \in Client |-> silence[c] + 1]
  /\ register_age' = [c \in Client |-> IF cpc[c] = "store" THEN register_age[c] + 1 ELSE 0]
  /\ was_late' = was_late \cup {c \in Client : wdog_ticks_to_ms(silence'[c]) > limit_ms[c]}
  /\ UNCHANGED <<board, supervisorVars, clientVars>>

TimeWithoutKernel ==
  /\ board \in {"started", "halted"} /\ swdt > 0
  /\ CountsDown
  /\ UNCHANGED <<board, tick, supervisorVars, clientVars, history>>

SwdtReset ==
  /\ swdt = 0 /\ board # "reset"
  /\ board' = "reset"
  /\ UNCHANGED <<swdt, tick, supervisorVars, clientVars, history>>

\* .data and .bss are initialised again, and wdt_drv_init stops the SWDT. Without
\* a SWDT that runs, a halted board is reset by hand
Reboot ==
  /\ board = "reset" \/ (board = "halted" /\ ~wdt_drv_is_running)
  /\ board' = "main" /\ swdt' = NotStarted /\ tick' = 0
  /\ wpc' = "delay" /\ last_wake' = 0 /\ now_tick' = 0 /\ kicking' = TRUE
  /\ reported' = NoClient
  /\ cpc' = [c \in Client |-> "loop"]
  /\ checkin_tick' = [c \in Client |-> 0]
  /\ last_checkin_tick' = [c \in Client |-> 0]
  /\ hang_requested' = [c \in Client |-> FALSE]
  /\ pass' = 0 /\ silence' = [c \in Client |-> 0] /\ register_age' = [c \in Client |-> 0]
  /\ was_late' = {}

-----------------------------------------------------------------------------
(* wdog_task                                                               *)

WakeUp ==
  /\ wpc = "delay" /\ ~Delayed
  /\ last_wake' = (last_wake + CheckPeriod) % Wrap
  /\ wpc' = "read"
  /\ UNCHANGED <<board, swdt, tick, now_tick, kicking, reported, clientVars, history>>

ReadTick ==
  /\ wpc = "read"
  /\ now_tick' = tick
  /\ wpc' = "check"
  /\ UNCHANGED <<board, swdt, tick, last_wake, kicking, reported, clientVars, history>>

\* mutant: the difference is not taken modulo the width of a TickType_t
SilenceUnwrapped(c) == now_tick - last_checkin_tick[c]

SilenceSeen(c) == (now_tick - last_checkin_tick[c]) % Wrap

Late == {c \in Client : TooLong(c, SilenceSeen(c))}

\* late_client: the first one in the table
LateClient(c) == c \in Late /\ \A d \in Late : c <= d

\* mutant: a client that recovered is forgiven
Forgiving == TRUE

StillKicking == kicking

AfterStopping == wpc = "check" /\ ~StillKicking /\ UNCHANGED <<swdt, kicking, reported>>

KickIfAllInTime ==
  /\ wpc = "check" /\ StillKicking /\ Late = {}
  /\ wdt_drv_kick
  /\ UNCHANGED <<kicking, reported>>

wdog_report_late ==
  /\ wpc = "check" /\ StillKicking
  /\ kicking' = FALSE
  /\ \E c \in Client : LateClient(c) /\ reported' = c
  /\ UNCHANGED swdt

Check ==
  /\ AfterStopping \/ KickIfAllInTime \/ wdog_report_late
  /\ wpc' = "delay" /\ now_tick' = 0 /\ pass' = 0
  /\ UNCHANGED <<board, tick, last_wake, clientVars, silence, register_age, was_late>>

-----------------------------------------------------------------------------
(* The clients                                                             *)

\* mutant: the supervisor has no priority over the clients
ClientsMayRun == TRUE

SupervisorWaits == Delayed

\* a test hang spins, except in the ui, which suspends itself
CanRun(c) ==
  /\ board = "run" /\ SupervisorWaits
  /\ \A d \in Client : (d < c /\ cpc[d] = "hung") => d = Ui

CheckinHangs(c) ==
  /\ cpc[c] = "loop" /\ hang_requested[c]
  /\ cpc' = [cpc EXCEPT ![c] = "hung"]
  /\ UNCHANGED <<board, swdt, tick, supervisorVars, checkin_tick, last_checkin_tick,
                 hang_requested, history>>

CheckinReadTick(c) ==
  /\ cpc[c] = "loop" /\ ~hang_requested[c]
  /\ checkin_tick' = [checkin_tick EXCEPT ![c] = tick]
  /\ register_age' = [register_age EXCEPT ![c] = 0]
  /\ cpc' = [cpc EXCEPT ![c] = "store"]
  /\ UNCHANGED <<board, swdt, tick, supervisorVars, last_checkin_tick, hang_requested,
                 pass, silence, was_late>>

CheckinStore(c) ==
  /\ cpc[c] = "store"
  /\ last_checkin_tick' = [last_checkin_tick EXCEPT ![c] = checkin_tick[c]]
  /\ silence' = [silence EXCEPT ![c] = register_age[c]]
  /\ register_age' = [register_age EXCEPT ![c] = 0]
  /\ checkin_tick' = [checkin_tick EXCEPT ![c] = 0]
  /\ cpc' = [cpc EXCEPT ![c] = "loop"]
  /\ UNCHANGED <<board, swdt, tick, supervisorVars, hang_requested, pass, was_late>>

\* test keys 1 to 3, in the consumer's loop
task_watchdog_inject_hang(c) ==
  /\ TestCommands /\ cpc[Consumer] = "loop"
  /\ hang_requested' = [hang_requested EXCEPT ![c] = TRUE]
  /\ UNCHANGED <<board, swdt, tick, supervisorVars, cpc, checkin_tick, last_checkin_tick,
                 history>>

-----------------------------------------------------------------------------
SupervisorStep == board = "run" /\ (WakeUp \/ ReadTick \/ Check)

TimeStep == KernelTick \/ TimeWithoutKernel \/ SwdtReset

ClientStep ==
  \/ \E c \in Client : CanRun(c) /\ (CheckinHangs(c) \/ CheckinReadTick(c) \/ CheckinStore(c))
  \/ \E c \in Client : CanRun(Consumer) /\ task_watchdog_inject_hang(c)

Next ==
  \/ StartWatchdog \/ StartScheduler \/ FaultHalt \/ Reboot
  \/ SupervisorStep
  \/ TimeStep
  \/ ClientStep

Spec == Init /\ [][Next]_vars

(* Time passes, and the task of the highest priority gets to run.          *)
FairSpec == Spec /\ WF_vars(TimeStep) /\ WF_vars(SupervisorStep)

-----------------------------------------------------------------------------
BoardTypeOK ==
  /\ board \in {"main",     \* before wdt_drv_start
                "started",  \* the SWDT runs, the scheduler not yet
                "run",      \* the scheduler runs
                "halted",   \* interrupts are masked for good
                "reset"}    \* the SWDT has fired
  /\ swdt \in 0 .. NotStarted
  /\ tick \in 0 .. Wrap - 1

SupervisorTypeOK ==
  /\ wpc \in {"delay", "read", "check"}
  /\ last_wake \in 0 .. Wrap - 1 /\ now_tick \in 0 .. Wrap - 1
  /\ kicking \in BOOLEAN
  /\ reported \in Client \cup {NoClient}

ClientTypeOK ==
  /\ cpc \in [Client -> {"loop", "store", "hung"}]
  /\ checkin_tick \in [Client -> 0 .. Wrap - 1]
  /\ last_checkin_tick \in [Client -> 0 .. Wrap - 1]
  /\ hang_requested \in [Client -> BOOLEAN]

HistoryTypeOK ==
  /\ pass \in 0 .. PassTicks
  /\ silence \in [Client -> Nat] /\ register_age \in [Client -> Nat]
  /\ was_late \subseteq Client

WatchdogTypeOK == BoardTypeOK /\ SupervisorTypeOK /\ ClientTypeOK /\ HistoryTypeOK

-----------------------------------------------------------------------------
(* Why the supervisor's differences are right: the ticks that are stored   *)
(* are as old as the history says, also across a wrap, and from the end of *)
(* its wait to the check no client stores a newer one.                     *)

StoredTicksDated ==
  \A c \in Client :
    /\ last_checkin_tick[c] = (tick - silence[c]) % Wrap
    /\ cpc[c] = "store" => checkin_tick[c] = (tick - register_age[c]) % Wrap
    /\ register_age[c] <= silence[c]

PassDated ==
  LET since_wake == (tick - last_wake) % Wrap IN
    /\ Delayed => pass = 0
    /\ (wpc = "delay" /\ ~Delayed) => since_wake = CheckPeriod + pass
    /\ wpc # "delay" => since_wake = pass

NoCheckinInPass ==
  /\ \A c \in Client : pass <= silence[c]
  /\ wpc = "check" => \E lag \in 0 .. pass : now_tick = (tick - lag) % Wrap

LateRemembered ==
  \A c \in Client : wdog_ticks_to_ms(silence[c]) > limit_ms[c] => c \in was_late

WatchdogInv ==
  WatchdogTypeOK /\ StoredTicksDated /\ PassDated /\ NoCheckinInPass /\ LateRemembered

-----------------------------------------------------------------------------
(* No false alarm: the supervisor names only a client that really was      *)
(* silent beyond its limit, whatever the tick count has wrapped to and     *)
(* whenever the client stored the tick it read (task_watchdog.c:108: "No   *)
(* race with the client").                                                 *)
NoFalseAlarm == reported # NoClient => reported \in was_late

(* The board is never reset while every task is on time and the kernel     *)
(* runs: the kicks come early enough from the first one on, which has to   *)
(* cover the start of the scheduler, too.                                  *)
ResetOnlyForAReason == (swdt = 0 /\ board = "run") => was_late # {}

(* A silent client does not outlive its limit by more than the SWDT's      *)
(* timeout and the supervisor's pass: Timeout + PassTicks ago it was not   *)
(* late yet. app_config.h:82 allows a whole check period more.             *)
WasInTime(c, ago) ==
  silence[c] > ago => wdog_ticks_to_ms(silence[c] - ago) <= limit_ms[c]

SilenceEndsInReset == board = "run" => \A c \in Client : WasInTime(c, Timeout + PassTicks)

(* No second chance (Readme.md:67): the first check that falls into a      *)
(* silence beyond its client's limit, as it is when the supervisor wakes   *)
(* up, ends the kicks; one so long that a check must have fallen into it   *)
(* has ended them; and they stay off although the client may check in and  *)
(* be on time from then on. A client that is late and checks in before the *)
(* next check goes unnoticed, as in the code.                              *)
Overdue(c) == ~WasInTime(c, CheckPeriod + PassTicks)

CheckedLate(c) == wpc = "check" /\ wpc' = "delay" /\ ~WasInTime(c, pass)

NoSecondChance ==
  [][(/\ board = "run" /\ board' = "run"
      /\ ~kicking \/ \E c \in Client : Overdue(c) \/ CheckedLate(c))
       => (~kicking' /\ swdt' <= swdt)]_vars

(* A task that hangs, and a kernel that stops once the SWDT runs, end in a *)
(* reset of the board.                                                     *)
HangEndsInReset ==
  ((\E c \in Client : cpc[c] = "hung") \/ (board = "halted" /\ wdt_drv_is_running))
    ~> board = "reset"

-----------------------------------------------------------------------------
(* The inductive invariant behind the bounds on resets and silences. Ticks *)
(* are counted from the wake-up before the last check that is over: every  *)
(* client was in time then, and the SWDT was kicked since. What the SWDT   *)
(* has counted dates the last kick, and there, too, all were in time.      *)
SinceChecked == IF wpc = "delay" THEN (tick - last_wake) % Wrap ELSE CheckPeriod + pass

NothingYet ==
  board \in {"main", "started"} =>
    tick = 0 /\ last_wake = 0 /\ wpc = "delay" /\ silence = [c \in Client |-> 0]

SwdtRuns == board \in {"started", "run"} => wdt_drv_is_running

KickedInTime == (board = "run" /\ kicking) => swdt + StartTicks + SinceChecked >= Timeout

StoppedForAReason == ~kicking => reported # NoClient

CheckedInTime == (board = "run" /\ kicking) => \A c \in Client : WasInTime(c, SinceChecked)

InTimeAtKick ==
  board = "run" => \A c \in Client : WasInTime(c, Timeout - swdt + PassTicks)

KickInv ==
  /\ WatchdogInv
  /\ NothingYet
  /\ SwdtRuns
  /\ KickedInTime
  /\ StoppedForAReason
  /\ CheckedInTime
  /\ InTimeAtKick
=============================================================================
