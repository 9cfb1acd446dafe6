--------------------------- MODULE Watchdog_proofs ---------------------------
(***************************************************************************)
(* Proofs about Watchdog: the supervisor's arithmetic on the wrapping tick *)
(* count is right; it raises no false alarm, the board is not reset        *)
(* without one, and no client's silence outlives the SWDT, for every       *)
(* number of clients and every choice of limits, periods and tick rate.    *)
(***************************************************************************)
EXTENDS Watchdog, ModularArithmetic

(* What the proofs need of the constants.                                  *)
LEMMA TimesOK ==
  /\ Wrap \in Nat \ {0}
  /\ CheckPeriod \in Nat \ {0} /\ Timeout \in Nat /\ PassTicks \in Nat
  /\ PassTicks < CheckPeriod
  /\ 2 * CheckPeriod < Timeout /\ CheckPeriod + Timeout < Wrap
  /\ TickRateHz \in Nat \ {0} /\ limit_ms \in [Client -> Nat]
  /\ ClientCount \in Nat \ {0} /\ Ui \in Client /\ Consumer \in Client
<1>1. (limit_ms[Ui] + 1) * TickRateHz \in Nat
  BY WatchdogAssumption
<1>2. (limit_ms[Ui] + 1) * TickRateHz + (CheckPeriod + Timeout) * 1000 < Wrap * 1000
  BY WatchdogAssumption
<1>3. CheckPeriod + Timeout < Wrap
  BY <1>1, <1>2, WatchdogAssumption
<1>4. QED
  BY <1>3, WatchdogAssumption

(* A remainder of a natural number is no larger than the number.           *)
LEMMA ModNotLarger ==
  ASSUME NEW n \in Nat \ {0}, NEW x \in Nat
  PROVE  x % n <= x
OBVIOUS

(* What is longer in ticks is not shorter in milliseconds.                 *)
LEMMA MsMonotonic ==
  ASSUME NEW a \in Nat, NEW b \in Nat, a <= b
  PROVE  wdog_ticks_to_ms(a) <= wdog_ticks_to_ms(b)
<1> DEFINE x == a * 1000
           y == b * 1000
           p == x \div TickRateHz
           q == y \div TickRateHz
           r == x % TickRateHz
           s == y % TickRateHz
<1>1. TickRateHz \in Nat \ {0} /\ x \in Int /\ y \in Int /\ x <= y
  BY TimesOK
<1> HIDE DEF x, y
<1>2. x = TickRateHz * p + r /\ p \in Int
  BY <1>1, ModDef
<1>3. y = TickRateHz * q + s /\ q \in Int
  BY <1>1, ModDef
<1>4. r \in 0 .. TickRateHz - 1 /\ s \in 0 .. TickRateHz - 1
  BY <1>1, ModRange
<1> HIDE DEF p, q, r, s
<1>5. TickRateHz * p < TickRateHz * q + TickRateHz
  BY <1>1, <1>2, <1>3, <1>4
<1>6. p < q + 1
  BY <1>1, <1>2, <1>3, <1>5
<1>7. QED
  BY <1>2, <1>3, <1>6 DEF wdog_ticks_to_ms, p, q, x, y

-----------------------------------------------------------------------------
(* The invariant holds at power-on, and after every reboot.                *)
AtStart ==
  /\ tick = 0 /\ wpc = "delay" /\ last_wake = 0 /\ pass = 0 /\ reported = NoClient
  /\ cpc = [c \in Client |-> "loop"]
  /\ last_checkin_tick = [c \in Client |-> 0]
  /\ silence = [c \in Client |-> 0] /\ register_age = [c \in Client |-> 0]

LEMMA InvAtStart ==
  AtStart => StoredTicksDated /\ PassDated /\ NoCheckinInPass /\ LateRemembered /\ NoFalseAlarm
<1> USE DEF AtStart
<1>1. (0 - 0) % Wrap = 0
  BY TimesOK, ModSmall
<1>2. AtStart => StoredTicksDated
  BY <1>1 DEF StoredTicksDated
<1>3. AtStart => PassDated
  BY <1>1, TimesOK DEF PassDated, Delayed
<1>4. AtStart => NoCheckinInPass
  BY DEF NoCheckinInPass
<1>5. AtStart => LateRemembered
  <2>1. 0 \div TickRateHz = 0
    BY TimesOK
  <2>2. wdog_ticks_to_ms(0) = 0
    BY <2>1 DEF wdog_ticks_to_ms
  <2>3. QED
    BY <2>2, TimesOK DEF LateRemembered
<1>6. AtStart => NoFalseAlarm
  BY DEF NoFalseAlarm
<1>7. QED
  BY <1>2, <1>3, <1>4, <1>5, <1>6

LEMMA InvAtReboot ==
  ASSUME Reboot
  PROVE  /\ StoredTicksDated' /\ PassDated' /\ NoCheckinInPass' /\ LateRemembered'
         /\ NoFalseAlarm'
<1>1. AtStart'
  BY DEF Reboot, AtStart
<1>2. (AtStart => StoredTicksDated /\ PassDated /\ NoCheckinInPass /\ LateRemembered
                  /\ NoFalseAlarm)'
  BY InvAtStart, PTL
<1>3. QED
  BY <1>1, <1>2

LEMMA TypesAtStart ==
  ASSUME Init
  PROVE  WatchdogTypeOK
<1> USE TimesOK DEF Init
<1>1. BoardTypeOK
  BY DEF BoardTypeOK, NotStarted
<1>2. SupervisorTypeOK
  BY DEF SupervisorTypeOK, NoClient
<1>3. ClientTypeOK
  BY DEF ClientTypeOK
<1>4. HistoryTypeOK
  BY DEF HistoryTypeOK
<1>5. QED
  BY <1>1, <1>2, <1>3, <1>4 DEF WatchdogTypeOK

LEMMA InvInit == Init => WatchdogInv /\ NoFalseAlarm
  BY InvAtStart, TypesAtStart DEF Init, AtStart, WatchdogInv

-----------------------------------------------------------------------------
(* Type correctness is preserved by every step.                            *)
LEMMA TypesPreserved ==
  ASSUME WatchdogTypeOK, [Next]_vars
  PROVE  WatchdogTypeOK'
<1> USE TimesOK DEF WatchdogTypeOK
<1> USE DEF BoardTypeOK, SupervisorTypeOK, ClientTypeOK, HistoryTypeOK, NotStarted, NoClient
<1>1. CASE StartWatchdog
  BY <1>1 DEF StartWatchdog, wdt_drv_start, supervisorVars, clientVars, history
<1>2. CASE StartScheduler
  BY <1>2 DEF StartScheduler, supervisorVars, clientVars, history
<1>3. CASE FaultHalt
  BY <1>3 DEF FaultHalt, supervisorVars, clientVars, history
<1>4. CASE Reboot
  BY <1>4 DEF Reboot
<1>5. CASE SupervisorStep
  <2>1. CASE WakeUp
    <3>1. last_wake + CheckPeriod \in Int
      OBVIOUS
    <3>2. (last_wake + CheckPeriod) % Wrap \in 0 .. Wrap - 1
      BY <3>1, TimesOK, ModRange
    <3>3. QED
      BY <2>1, <3>2 DEF WakeUp, clientVars, history
  <2>2. CASE ReadTick
    BY <2>2 DEF ReadTick, clientVars, history
  <2>3. CASE Check
    <3>1. swdt' \in 0 .. Timeout + 1
      BY <2>3 DEF Check, AfterStopping, KickIfAllInTime, wdog_report_late, wdt_drv_kick
    <3>2. kicking' = kicking \/ kicking' = FALSE
      BY <2>3, Zenon DEF Check, AfterStopping, KickIfAllInTime, wdog_report_late
    <3>3. reported' \in Client \cup {ClientCount}
      BY <2>3 DEF Check, AfterStopping, KickIfAllInTime, wdog_report_late, LateClient
    <3>4. kicking' \in BOOLEAN
      BY <3>2, Zenon
    <3>5. was_late' = was_late /\ wpc' = "delay" /\ now_tick' = 0 /\ pass' = 0
      BY <2>3 DEF Check
    <3>6. UNCHANGED <<board, tick, last_wake, cpc, checkin_tick, last_checkin_tick,
                      hang_requested, silence, register_age>>
      BY <2>3 DEF Check, clientVars
    <3>7. QED
      BY <3>1, <3>3, <3>4, <3>5, <3>6
  <2>4. QED
    BY <1>5, <2>1, <2>2, <2>3 DEF SupervisorStep
<1>6. CASE TimeStep
  <2>1. CASE KernelTick
    <3>1. tick + 1 \in Int
      OBVIOUS
    <3>2. (tick + 1) % Wrap \in 0 .. Wrap - 1
      BY <3>1, TimesOK, ModRange
    <3>3. swdt' \in 0 .. Timeout + 1
      BY <2>1 DEF KernelTick, CountsDown, wdt_drv_is_running
    <3>4. pass' \in 0 .. PassTicks
      BY <2>1 DEF KernelTick
    <3>5. silence' \in [Client -> Nat] /\ register_age' \in [Client -> Nat]
      BY <2>1 DEF KernelTick
    <3>6. QED
      BY <2>1, <3>2, <3>3, <3>4, <3>5 DEF KernelTick, supervisorVars, clientVars
  <2>2. CASE TimeWithoutKernel
    BY <2>2 DEF TimeWithoutKernel, CountsDown, wdt_drv_is_running, supervisorVars, clientVars,
       history
  <2>3. CASE SwdtReset
    BY <2>3 DEF SwdtReset, supervisorVars, clientVars, history
  <2>4. QED
    BY <1>6, <2>1, <2>2, <2>3 DEF TimeStep
<1>7. CASE ClientStep
  <2>1. ASSUME NEW c \in Client, CheckinHangs(c)
        PROVE  WatchdogTypeOK'
    BY <2>1 DEF CheckinHangs, supervisorVars, history
  <2>2. ASSUME NEW c \in Client, CheckinReadTick(c)
        PROVE  WatchdogTypeOK'
    BY <2>2 DEF CheckinReadTick, supervisorVars
  <2>3. ASSUME NEW c \in Client, CheckinStore(c)
        PROVE  WatchdogTypeOK'
    BY <2>3 DEF CheckinStore, supervisorVars
  <2>4. ASSUME NEW c \in Client, task_watchdog_inject_hang(c)
        PROVE  WatchdogTypeOK'
    BY <2>4 DEF task_watchdog_inject_hang, supervisorVars, history
  <2>5. QED
    BY <1>7, <2>1, <2>2, <2>3, <2>4 DEF ClientStep
<1>8. CASE UNCHANGED vars
  BY <1>8 DEF vars
<1>9. QED
  BY <1>1, <1>2, <1>3, <1>4, <1>5, <1>6, <1>7, <1>8 DEF Next

-----------------------------------------------------------------------------
(* The steps that touch neither the clock nor what was read from it.       *)
Quiet == UNCHANGED <<tick, wpc, last_wake, now_tick, reported, cpc, checkin_tick,
                     last_checkin_tick, pass, silence, register_age, was_late>>

LEMMA StepCases ==
  ASSUME [Next]_vars
  PROVE  \/ Reboot \/ KernelTick \/ WakeUp \/ ReadTick \/ Check
         \/ \E c \in Client : CanRun(c) /\ (CheckinHangs(c) \/ CheckinReadTick(c) \/ CheckinStore(c))
         \/ Quiet
<1>1. CASE StartWatchdog \/ StartScheduler \/ FaultHalt
  BY <1>1 DEF StartWatchdog, StartScheduler, FaultHalt, supervisorVars, clientVars, history, Quiet
<1>2. CASE TimeWithoutKernel \/ SwdtReset
  BY <1>2 DEF TimeWithoutKernel, SwdtReset, supervisorVars, clientVars, history, Quiet
<1>3. ASSUME NEW c \in Client, task_watchdog_inject_hang(c)
      PROVE  Quiet
  BY <1>3 DEF task_watchdog_inject_hang, supervisorVars, history, Quiet
<1>4. CASE UNCHANGED vars
  BY <1>4 DEF vars, Quiet
<1>5. QED
  BY <1>1, <1>2, <1>3, <1>4 DEF Next, SupervisorStep, TimeStep, ClientStep

(* The ticks the clients store stay as old as the history says.            *)
LEMMA StoredTicksPreserved ==
  ASSUME WatchdogTypeOK, StoredTicksDated, [Next]_vars
  PROVE  StoredTicksDated'
<1> USE DEF StoredTicksDated
<1>0. /\ Wrap \in Nat \ {0} /\ tick \in 0 .. Wrap - 1
      /\ silence \in [Client -> Nat] /\ register_age \in [Client -> Nat]
      /\ cpc \in [Client -> {"loop", "store", "hung"}]
      /\ checkin_tick \in [Client -> 0 .. Wrap - 1]
      /\ last_checkin_tick \in [Client -> 0 .. Wrap - 1]
  BY TimesOK DEF WatchdogTypeOK, BoardTypeOK, ClientTypeOK, HistoryTypeOK
<1>1. CASE Reboot
  BY <1>1, InvAtReboot
<1>2. CASE KernelTick
  <2>1. /\ tick' = (tick + 1) % Wrap
        /\ UNCHANGED <<cpc, checkin_tick, last_checkin_tick>>
    BY <1>2 DEF KernelTick, clientVars
  <2>2. ASSUME NEW c \in Client
        PROVE  /\ last_checkin_tick'[c] = (tick' - silence'[c]) % Wrap
               /\ cpc'[c] = "store" => checkin_tick'[c] = (tick' - register_age'[c]) % Wrap
               /\ register_age'[c] <= silence'[c]
    <3> DEFINE age == silence[c]
               reg == register_age[c]
    <3>1. silence'[c] = age + 1 /\ age \in Int
      BY <1>0, <1>2 DEF KernelTick
    <3>2. register_age'[c] = (IF cpc[c] = "store" THEN reg + 1 ELSE 0) /\ reg \in Int
      BY <1>0, <1>2 DEF KernelTick
    <3>3. /\ last_checkin_tick[c] = (tick - age) % Wrap
          /\ cpc[c] = "store" => checkin_tick[c] = (tick - reg) % Wrap
          /\ 0 <= age /\ reg <= age
      BY <1>0
    <3> HIDE DEF age, reg
    <3>4. (((tick + 1) % Wrap) - (age + 1)) % Wrap = (tick - age) % Wrap
      BY <1>0, <3>1, ReadingAges
    <3>5. (((tick + 1) % Wrap) - (reg + 1)) % Wrap = (tick - reg) % Wrap
      BY <1>0, <3>2, ReadingAges
    <3>6. register_age'[c] <= silence'[c]
      BY <3>1, <3>2, <3>3
    <3>7. QED
      BY <2>1, <3>1, <3>2, <3>3, <3>4, <3>5, <3>6
  <2>3. QED
    BY <2>2
<1>3. CASE WakeUp \/ ReadTick \/ Check
  BY <1>3 DEF WakeUp, ReadTick, Check, clientVars, history
<1>4. ASSUME NEW c \in Client, CheckinHangs(c)
      PROVE  StoredTicksDated'
  BY <1>0, <1>4 DEF CheckinHangs, supervisorVars, history
<1>5. ASSUME NEW c \in Client, CheckinReadTick(c)
      PROVE  StoredTicksDated'
  <2>1. (tick - 0) % Wrap = tick
    BY <1>0, ModSmall
  <2>2. /\ checkin_tick' = [checkin_tick EXCEPT ![c] = tick]
        /\ register_age' = [register_age EXCEPT ![c] = 0]
        /\ cpc' = [cpc EXCEPT ![c] = "store"]
        /\ UNCHANGED <<tick, silence, last_checkin_tick>>
    BY <1>5 DEF CheckinReadTick
  <2>3. QED
    BY <1>0, <2>1, <2>2
<1>6. ASSUME NEW c \in Client, CheckinStore(c)
      PROVE  StoredTicksDated'
  <2>1. /\ cpc[c] = "store"
        /\ last_checkin_tick' = [last_checkin_tick EXCEPT ![c] = checkin_tick[c]]
        /\ silence' = [silence EXCEPT ![c] = register_age[c]]
        /\ register_age' = [register_age EXCEPT ![c] = 0]
        /\ checkin_tick' = [checkin_tick EXCEPT ![c] = 0]
        /\ cpc' = [cpc EXCEPT ![c] = "loop"]
        /\ tick' = tick
    BY <1>6 DEF CheckinStore
  <2>2. QED
    BY <1>0, <2>1
<1>7. CASE Quiet
  BY <1>7 DEF Quiet
<1>8. QED
  BY <1>1, <1>2, <1>3, <1>4, <1>5, <1>6, <1>7, StepCases

-----------------------------------------------------------------------------
(* The time since the supervisor's last wake-up, a tick later and after    *)
(* the next wake-up.                                                       *)
LEMMA SinceWake ==
  ASSUME NEW n \in Nat \ {0}, NEW t \in Int, NEW w \in Int
  PROVE  /\ (((t + 1) % n) - w) % n = (((t - w) % n) + 1) % n
         /\ \A p \in Int : (t - ((w + p) % n)) % n = (((t - w) % n) - p) % n
<1>1. (((t + 1) % n) - w) % n = (((t - w) % n) + 1) % n
  <2> DEFINE u == t + 1
             v == t - w
             m == 0 - w
             z == u % n
  <2>1. u \in Int /\ v \in Int /\ m \in Int /\ z \in Int
    BY ModRange
  <2>2. z - w = z + m /\ u + m = v + 1
    BY <2>1
  <2> HIDE DEF u, v, m
  <2>3. (z + m) % n = (u + m) % n
    BY <2>1, ModAdd
  <2>4. \A y \in Int : ((v % n) + y) % n = (v + y) % n
    BY <2>1, ModAdd
  <2>5. QED
    BY <2>2, <2>3, <2>4 DEF u, v
<1>2. ASSUME NEW p \in Int
      PROVE  (t - ((w + p) % n)) % n = (((t - w) % n) - p) % n
  <2> DEFINE u == w + p
             v == t - w
             m == 0 - p
             z == v % n
  <2>1. u \in Int /\ v \in Int /\ m \in Int /\ z \in Int
    BY ModRange
  <2>2. z - p = z + m /\ t - u = v + m
    BY <2>1
  <2> HIDE DEF u, v, m
  <2>3. (t - (u % n)) % n = (t - u) % n
    BY <2>1, ModSub
  <2>4. (z + m) % n = (v + m) % n
    BY <2>1, ModAdd
  <2>5. QED
    BY <2>2, <2>3, <2>4 DEF u, v
<1>3. QED
  BY <1>1, <1>2

(* pass counts the ticks from the end of the wait to the end of the pass.  *)
LEMMA PassPreserved ==
  ASSUME WatchdogTypeOK, PassDated, [Next]_vars
  PROVE  PassDated'
<1> DEFINE since == (tick - last_wake) % Wrap
<1>0. /\ Wrap \in Nat \ {0} /\ tick \in Int /\ last_wake \in Int
      /\ pass \in 0 .. PassTicks /\ since \in 0 .. Wrap - 1
      /\ wpc \in {"delay", "read", "check"}
  BY TimesOK, ModRange DEF WatchdogTypeOK, BoardTypeOK, SupervisorTypeOK, HistoryTypeOK
<1>d. /\ wpc = "delay" /\ since < CheckPeriod => pass = 0
      /\ wpc = "delay" /\ ~(since < CheckPeriod) => since = CheckPeriod + pass
      /\ wpc # "delay" => since = pass
  BY DEF PassDated, Delayed
<1>s. SUFFICES /\ wpc' = "delay" /\ since' < CheckPeriod => pass' = 0
               /\ wpc' = "delay" /\ ~(since' < CheckPeriod) => since' = CheckPeriod + pass'
               /\ wpc' # "delay" => since' = pass'
  BY DEF PassDated, Delayed
<1>1. CASE Reboot
  BY <1>1, InvAtReboot DEF PassDated, Delayed
<1>2. CASE KernelTick
  <2>1. /\ wpc' = wpc /\ last_wake' = last_wake /\ tick' = (tick + 1) % Wrap
        /\ wpc = "delay" /\ since < CheckPeriod => pass' = 0
        /\ ~(wpc = "delay" /\ since < CheckPeriod) => pass < PassTicks /\ pass' = pass + 1
    BY <1>2 DEF KernelTick, supervisorVars, Delayed
  <2>2. since' = (since + 1) % Wrap
    BY <1>0, <2>1, SinceWake
  <2> HIDE DEF since
  <2>3. since + 1 \in 0 .. Wrap - 1
    BY <1>0, <1>d, <2>1, TimesOK
  <2>4. (since + 1) % Wrap = since + 1
    BY <1>0, <2>3, ModSmall
  <2>5. QED
    BY <1>0, <1>d, <2>1, <2>2, <2>4, TimesOK
<1>3. CASE WakeUp
  <2>1. /\ wpc = "delay" /\ ~(since < CheckPeriod) /\ wpc' = "read"
        /\ tick' = tick /\ pass' = pass /\ last_wake' = (last_wake + CheckPeriod) % Wrap
    BY <1>3 DEF WakeUp, Delayed, history
  <2>2. CheckPeriod \in Int
    BY TimesOK
  <2>3. since' = (since - CheckPeriod) % Wrap
    BY <1>0, <2>1, <2>2, SinceWake
  <2> HIDE DEF since
  <2>4. since - CheckPeriod = pass /\ pass \in 0 .. Wrap - 1
    BY <1>0, <1>d, <2>1, TimesOK
  <2>5. pass % Wrap = pass
    BY <1>0, <2>4, ModSmall
  <2>6. QED
    BY <2>1, <2>3, <2>4, <2>5
<1>4. CASE ReadTick
  BY <1>4, <1>d DEF ReadTick, history
<1>5. CASE Check
  <2>1. wpc = "check" /\ wpc' = "delay" /\ pass' = 0 /\ since' = since
    BY <1>5 DEF Check, AfterStopping, KickIfAllInTime, wdog_report_late
  <2>2. since < CheckPeriod
    BY <1>0, <1>d, <2>1, TimesOK
  <2>3. QED
    BY <2>1, <2>2
<1>6. ASSUME NEW c \in Client, CheckinHangs(c) \/ CheckinReadTick(c) \/ CheckinStore(c)
      PROVE  UNCHANGED <<tick, last_wake, wpc, pass>>
  BY <1>6 DEF CheckinHangs, CheckinReadTick, CheckinStore, supervisorVars, history
<1>7. CASE Quiet
  BY <1>7, <1>d DEF Quiet
<1>8. QED
  BY <1>d, <1>1, <1>2, <1>3, <1>4, <1>5, <1>6, <1>7, StepCases

-----------------------------------------------------------------------------
(* No client checks in between the end of the supervisor's wait and the    *)
(* end of its pass: every silence is at least as long as the pass so far.  *)
LEMMA NoCheckinPreserved ==
  ASSUME WatchdogTypeOK, PassDated, NoCheckinInPass, [Next]_vars
  PROVE  NoCheckinInPass'
<1> USE DEF NoCheckinInPass
<1>0. /\ Wrap \in Nat \ {0} /\ tick \in 0 .. Wrap - 1
      /\ silence \in [Client -> Nat] /\ register_age \in [Client -> Nat]
      /\ pass \in Nat /\ wpc \in {"delay", "read", "check"}
  BY TimesOK DEF WatchdogTypeOK, BoardTypeOK, SupervisorTypeOK, HistoryTypeOK
<1>1. CASE Reboot
  BY <1>1, InvAtReboot
<1>2. CASE KernelTick
  <2>1. /\ wpc' = wpc /\ now_tick' = now_tick /\ tick' = (tick + 1) % Wrap
        /\ pass' = (IF Delayed THEN 0 ELSE pass + 1)
        /\ silence' = [c \in Client |-> silence[c] + 1]
    BY <1>2 DEF KernelTick, supervisorVars
  <2>2. \A c \in Client : pass' <= silence'[c]
    BY <1>0, <2>1
  <2>3. ASSUME wpc = "check"
        PROVE  \E lag \in 0 .. pass' : now_tick = (tick' - lag) % Wrap
    <3>1. pass' = pass + 1
      BY <2>1, <2>3 DEF Delayed
    <3>2. PICK lag \in 0 .. pass : now_tick = (tick - lag) % Wrap
      BY <2>3
    <3>3. tick \in Int /\ lag \in Int
      BY <1>0
    <3>4. (((tick + 1) % Wrap) - (lag + 1)) % Wrap = (tick - lag) % Wrap
      BY <1>0, <3>3, ReadingAges
    <3>5. lag + 1 \in 0 .. pass'
      BY <1>0, <3>1
    <3>6. now_tick = (tick' - (lag + 1)) % Wrap
      BY <2>1, <3>2, <3>4
    <3>7. QED
      BY <3>5, <3>6
  <2>4. QED
    BY <2>1, <2>2, <2>3
<1>3. CASE WakeUp
  BY <1>3 DEF WakeUp, history
<1>4. CASE ReadTick
  <2>1. (tick - 0) % Wrap = tick /\ 0 \in 0 .. pass
    BY <1>0, ModSmall
  <2>2. now_tick' = tick /\ UNCHANGED <<tick, pass, silence>>
    BY <1>4 DEF ReadTick, history
  <2>3. QED
    BY <2>1, <2>2
<1>5. CASE Check
  <2>1. wpc' = "delay" /\ pass' = 0 /\ silence' = silence
    BY <1>5 DEF Check
  <2>2. QED
    BY <1>0, <2>1
<1>6. ASSUME NEW c \in Client, CheckinHangs(c)
      PROVE  NoCheckinInPass'
  BY <1>6 DEF CheckinHangs, supervisorVars, history
<1>7. ASSUME NEW c \in Client, CheckinReadTick(c)
      PROVE  NoCheckinInPass'
  BY <1>7 DEF CheckinReadTick, supervisorVars
<1>8. ASSUME NEW c \in Client, CanRun(c), CheckinStore(c)
      PROVE  NoCheckinInPass'
  <2>1. pass = 0 /\ wpc = "delay"
    BY <1>8 DEF CanRun, SupervisorWaits, PassDated, Delayed
  <2>2. silence' = [silence EXCEPT ![c] = register_age[c]] /\ pass' = pass /\ wpc' = wpc
    BY <1>8 DEF CheckinStore, supervisorVars
  <2>3. QED
    BY <1>0, <2>1, <2>2
<1>9. CASE Quiet
  BY <1>9 DEF Quiet
<1>10. QED
  BY <1>1, <1>2, <1>3, <1>4, <1>5, <1>6, <1>7, <1>8, <1>9, StepCases

(* Who was ever silent beyond the limit is remembered.                     *)
LEMMA LateRememberedPreserved ==
  ASSUME WatchdogTypeOK, StoredTicksDated, LateRemembered, [Next]_vars
  PROVE  LateRemembered'
<1> USE DEF LateRemembered
<1>0. silence \in [Client -> Nat] /\ register_age \in [Client -> Nat]
      /\ limit_ms \in [Client -> Nat]
  BY TimesOK DEF WatchdogTypeOK, HistoryTypeOK
<1>1. CASE Reboot
  BY <1>1, InvAtReboot
<1>2. CASE KernelTick
  <2>1. was_late' = was_late \cup {c \in Client : wdog_ticks_to_ms(silence'[c]) > limit_ms[c]}
    BY <1>2 DEF KernelTick
  <2>2. QED
    BY <2>1
<1>3. CASE WakeUp \/ ReadTick \/ Check
  BY <1>3 DEF WakeUp, ReadTick, Check, history
<1>4. ASSUME NEW c \in Client, CheckinHangs(c) \/ CheckinReadTick(c)
      PROVE  LateRemembered'
  BY <1>4 DEF CheckinHangs, CheckinReadTick, history
<1>5. ASSUME NEW c \in Client, CheckinStore(c)
      PROVE  LateRemembered'
  <2>1. silence' = [silence EXCEPT ![c] = register_age[c]] /\ was_late' = was_late
    BY <1>5 DEF CheckinStore
  <2>2. register_age[c] <= silence[c] /\ register_age[c] \in Nat /\ silence[c] \in Nat
    BY <1>0 DEF StoredTicksDated
  <2>3. wdog_ticks_to_ms(register_age[c]) <= wdog_ticks_to_ms(silence[c])
    BY <2>2, MsMonotonic
  <2>4. wdog_ticks_to_ms(register_age[c]) \in Int /\ wdog_ticks_to_ms(silence[c]) \in Int
    BY <2>2, TimesOK DEF wdog_ticks_to_ms
  <2>5. wdog_ticks_to_ms(register_age[c]) > limit_ms[c] => c \in was_late
    BY <1>0, <2>3, <2>4
  <2>6. QED
    BY <1>0, <2>1, <2>5
<1>6. CASE Quiet
  BY <1>6 DEF Quiet
<1>7. QED
  BY <1>1, <1>2, <1>3, <1>4, <1>5, <1>6, StepCases

(* The silence the supervisor computes is no longer than the real one.     *)
LEMMA SilenceSeenReal ==
  ASSUME WatchdogInv, wpc = "check", NEW c \in Client
  PROVE  SilenceSeen(c) \in Nat /\ SilenceSeen(c) <= silence[c]
<1> DEFINE age == silence[c]
<1>1. Wrap \in Nat \ {0} /\ tick \in Int /\ age \in Nat /\ pass <= age /\ pass \in Nat
  BY TimesOK DEF WatchdogInv, WatchdogTypeOK, BoardTypeOK, HistoryTypeOK, NoCheckinInPass
<1>2. PICK lag \in 0 .. pass : now_tick = (tick - lag) % Wrap
  BY DEF WatchdogInv, NoCheckinInPass
<1>3. last_checkin_tick[c] = (tick - age) % Wrap
  BY DEF WatchdogInv, StoredTicksDated
<1> HIDE DEF age
<1> DEFINE x == tick - lag
           y == tick - age
           d == age - lag
<1>4. x \in Int /\ y \in Int /\ x - y = d /\ d \in Nat /\ d <= age
  BY <1>1
<1>5. SilenceSeen(c) = ((x % Wrap) - (y % Wrap)) % Wrap
  BY <1>2, <1>3 DEF SilenceSeen
<1> HIDE DEF x, y, d
<1>6. ((x % Wrap) - (y % Wrap)) % Wrap = d % Wrap
  BY <1>1, <1>4, DifferenceOfReadings
<1>7. d \in Int
  BY <1>4
<1>8. d % Wrap \in 0 .. Wrap - 1
  BY <1>1, <1>7, ModRange
<1>9. d % Wrap <= d
  BY <1>1, <1>4, ModNotLarger
<1>10. QED
  BY <1>1, <1>4, <1>5, <1>6, <1>8, <1>9 DEF age

(* A client that looks late to the supervisor has been late.               *)
LEMMA AlarmIsReal ==
  ASSUME WatchdogInv, NoFalseAlarm, [Next]_vars
  PROVE  NoFalseAlarm'
<1> USE DEF NoFalseAlarm
<1>1. CASE Reboot
  BY <1>1, InvAtReboot
<1>2. CASE KernelTick
  BY <1>2 DEF KernelTick, supervisorVars
<1>3. CASE WakeUp \/ ReadTick
  BY <1>3 DEF WakeUp, ReadTick, history
<1>4. CASE Check
  <2>1. was_late' = was_late /\ wpc = "check"
    BY <1>4 DEF Check, AfterStopping, KickIfAllInTime, wdog_report_late
  <2>2. CASE reported' = reported
    BY <2>1, <2>2
  <2>3. CASE wdog_report_late
    <3>1. PICK c \in Client : LateClient(c) /\ reported' = c
      BY <2>3 DEF wdog_report_late
    <3>2. wdog_ticks_to_ms(SilenceSeen(c)) > limit_ms[c]
      BY <3>1 DEF LateClient, Late, TooLong
    <3>3. silence[c] \in Nat /\ limit_ms[c] \in Nat
      BY TimesOK DEF WatchdogInv, WatchdogTypeOK, HistoryTypeOK
    <3>4. SilenceSeen(c) \in Nat /\ SilenceSeen(c) <= silence[c]
      BY <2>1, SilenceSeenReal
    <3>5. wdog_ticks_to_ms(SilenceSeen(c)) <= wdog_ticks_to_ms(silence[c])
      BY <3>3, <3>4, MsMonotonic
    <3>6. /\ wdog_ticks_to_ms(SilenceSeen(c)) \in Int
          /\ wdog_ticks_to_ms(silence[c]) \in Int
      BY <3>3, <3>4, TimesOK DEF wdog_ticks_to_ms
    <3>7. wdog_ticks_to_ms(silence[c]) > limit_ms[c]
      BY <3>2, <3>3, <3>5, <3>6
    <3>8. c \in was_late
      BY <3>7 DEF WatchdogInv, LateRemembered
    <3>9. QED
      BY <2>1, <3>1, <3>8
  <2>4. QED
    BY <1>4, <2>2, <2>3 DEF Check, AfterStopping, KickIfAllInTime
<1>5. ASSUME NEW c \in Client, CheckinHangs(c) \/ CheckinReadTick(c) \/ CheckinStore(c)
      PROVE  NoFalseAlarm'
  BY <1>5 DEF CheckinHangs, CheckinReadTick, CheckinStore, supervisorVars, history
<1>6. CASE Quiet
  BY <1>6 DEF Quiet
<1>7. QED
  BY <1>1, <1>2, <1>3, <1>4, <1>5, <1>6, StepCases

-----------------------------------------------------------------------------
LEMMA InvNext == WatchdogInv /\ [Next]_vars => WatchdogInv'
  BY TypesPreserved, StoredTicksPreserved, PassPreserved, NoCheckinPreserved,
     LateRememberedPreserved DEF WatchdogInv

(* The invariant, and with it the types, hold in every reachable state.    *)
THEOREM WatchdogInvariant == Spec => []WatchdogInv
BY InvInit, InvNext, PTL DEF Spec

(* The supervisor never stops kicking because of a client that was always  *)
(* within its limit: for any number of clients, any limits and periods,    *)
(* any tick rate, and however often the tick count wraps.                  *)
THEOREM AlarmsReal == Spec => []NoFalseAlarm
<1>1. Init => NoFalseAlarm
  BY InvInit
<1>2. WatchdogInv /\ NoFalseAlarm /\ [Next]_vars => NoFalseAlarm'
  BY AlarmIsReal
<1>3. QED
  BY <1>1, <1>2, WatchdogInvariant, PTL DEF Spec

-----------------------------------------------------------------------------
(* Resets and silences: KickInv is inductive.                              *)

LEMMA MsBound ==
  ASSUME NEW x \in Nat, NEW l \in Nat, wdog_ticks_to_ms(x) <= l
  PROVE  x * 1000 < (l + 1) * TickRateHz
<1> DEFINE y == x * 1000
           q == y \div TickRateHz
           r == y % TickRateHz
<1>1. TickRateHz \in Nat \ {0} /\ y \in Int
  BY TimesOK
<1> HIDE DEF y
<1>2. y = TickRateHz * q + r /\ q \in Int
  BY <1>1, ModDef
<1>3. r \in 0 .. TickRateHz - 1
  BY <1>1, ModRange
<1>4. q <= l
  BY DEF q, y, wdog_ticks_to_ms
<1> HIDE DEF q, r
<1>5. TickRateHz * q <= TickRateHz * l
  BY <1>1, <1>2, <1>4
<1>6. (l + 1) * TickRateHz = TickRateHz * l + TickRateHz
  BY <1>1
<1>7. TickRateHz * q \in Int /\ TickRateHz * l \in Int
  BY <1>1, <1>2
<1>8. y < (l + 1) * TickRateHz
  BY <1>1, <1>2, <1>3, <1>5, <1>6, <1>7
<1>9. QED
  BY <1>8 DEF y

(* Who was in time stays so as time goes on, and when it checks in.        *)
LEMMA StaysInTime ==
  ASSUME NEW l \in Nat, NEW s \in Nat, NEW a \in Int, NEW t \in Nat, NEW b \in Int,
         t - b <= s - a,
         s > a => wdog_ticks_to_ms(s - a) <= l
  PROVE  t > b => wdog_ticks_to_ms(t - b) <= l
<1> SUFFICES ASSUME t > b
             PROVE  wdog_ticks_to_ms(t - b) <= l
  OBVIOUS
<1> DEFINE x == t - b
           y == s - a
<1>1. x \in Nat /\ y \in Nat /\ x <= y /\ s > a
  OBVIOUS
<1>2. wdog_ticks_to_ms(y) <= l
  BY <1>1
<1> HIDE DEF x, y
<1>3. wdog_ticks_to_ms(x) <= wdog_ticks_to_ms(y)
  BY <1>1, MsMonotonic
<1>4. wdog_ticks_to_ms(x) \in Int /\ wdog_ticks_to_ms(y) \in Int
  BY <1>1, TimesOK DEF wdog_ticks_to_ms
<1>5. wdog_ticks_to_ms(x) <= l
  BY <1>2, <1>3, <1>4
<1>6. QED
  BY <1>5 DEF x

(* The time since the wake-up before the last check.                       *)
LEMMA SinceCheckedBounds ==
  ASSUME WatchdogInv
  PROVE  /\ SinceChecked \in 0 .. CheckPeriod + PassTicks
         /\ wpc = "delay" /\ Delayed => SinceChecked < CheckPeriod
         /\ wpc # "delay" \/ ~Delayed => SinceChecked = CheckPeriod + pass
<1> DEFINE since == (tick - last_wake) % Wrap
<1>1. /\ tick \in Int /\ last_wake \in Int /\ pass \in 0 .. PassTicks
      /\ wpc \in {"delay", "read", "check"}
  BY TimesOK DEF WatchdogInv, WatchdogTypeOK, BoardTypeOK, SupervisorTypeOK, HistoryTypeOK
<1>2. since \in 0 .. Wrap - 1
  BY <1>1, TimesOK, ModRange
<1>3. Delayed <=> wpc = "delay" /\ since < CheckPeriod
  BY DEF Delayed
<1>4. wpc = "delay" /\ ~Delayed => since = CheckPeriod + pass
  BY DEF WatchdogInv, PassDated
<1>5. SinceChecked = IF wpc = "delay" THEN since ELSE CheckPeriod + pass
  BY DEF SinceChecked
<1> HIDE DEF since
<1>6. QED
  BY <1>1, <1>2, <1>3, <1>4, <1>5, TimesOK

LEMMA TickCounted ==
  ASSUME WatchdogInv, KernelTick
  PROVE  SinceChecked' = SinceChecked + 1
<1> DEFINE since == (tick - last_wake) % Wrap
<1>1. /\ tick \in Int /\ last_wake \in Int /\ pass \in 0 .. PassTicks
      /\ Wrap \in Nat \ {0}
  BY TimesOK DEF WatchdogInv, WatchdogTypeOK, BoardTypeOK, SupervisorTypeOK, HistoryTypeOK
<1>2. /\ wpc' = wpc /\ last_wake' = last_wake /\ tick' = (tick + 1) % Wrap
      /\ ~Delayed => pass' = pass + 1
  BY DEF KernelTick, supervisorVars
<1>3. SinceChecked \in 0 .. CheckPeriod + PassTicks
  BY SinceCheckedBounds
<1>4. CASE wpc = "delay"
  <2>1. SinceChecked = since /\ SinceChecked' = since'
    BY <1>2, <1>4 DEF SinceChecked
  <2>2. since' = (since + 1) % Wrap
    BY <1>1, <1>2, SinceWake
  <2> HIDE DEF since
  <2>3. since + 1 \in 0 .. Wrap - 1
    BY <1>3, <2>1, TimesOK
  <2>4. (since + 1) % Wrap = since + 1
    BY <1>1, <2>3, ModSmall
  <2>5. QED
    BY <2>1, <2>2, <2>4
<1>5. CASE wpc # "delay"
  <2>1. ~Delayed
    BY <1>5 DEF Delayed
  <2>2. SinceChecked = CheckPeriod + pass /\ SinceChecked' = CheckPeriod + pass'
    BY <1>2, <1>5 DEF SinceChecked
  <2>3. QED
    BY <1>1, <1>2, <2>1, <2>2, TimesOK
<1>6. QED
  BY <1>4, <1>5

(* A client that was in time at the last check is not silent for so long   *)
(* that the tick count wraps: the supervisor sees its silence as it is,    *)
(* but for the ticks since it read the clock.                              *)
LEMMA SilenceSeenExact ==
  ASSUME WatchdogInv, wpc = "check", NEW c \in Client, WasInTime(c, SinceChecked)
  PROVE  SilenceSeen(c) \in Nat /\ silence[c] - pass <= SilenceSeen(c)
<1> DEFINE age == silence[c]
           a == CheckPeriod + pass
<1>1. Wrap \in Nat \ {0} /\ tick \in Int /\ age \in Nat /\ pass <= age /\ pass \in 0 .. PassTicks
      /\ limit_ms[c] \in Nat
  BY TimesOK DEF WatchdogInv, WatchdogTypeOK, BoardTypeOK, HistoryTypeOK, NoCheckinInPass
<1>2. PICK lag \in 0 .. pass : now_tick = (tick - lag) % Wrap
  BY DEF WatchdogInv, NoCheckinInPass
<1>3. last_checkin_tick[c] = (tick - age) % Wrap
  BY DEF WatchdogInv, StoredTicksDated
<1>4. a \in Nat /\ a < CheckPeriod + Timeout /\ SinceChecked = a
  BY <1>1, TimesOK DEF SinceChecked
<1>5. age < Wrap
  <2>1. CASE age <= a
    BY <1>1, <1>4, <2>1, TimesOK
  <2>2. CASE age > a
    <3> DEFINE x == age - a
               room == (limit_ms[c] + 1) * TickRateHz
    <3>1. wdog_ticks_to_ms(x) <= limit_ms[c] /\ x \in Nat
      BY <1>1, <1>4, <2>2 DEF WasInTime
    <3> HIDE DEF x
    <3>2. x * 1000 < room
      BY <1>1, <3>1, MsBound
    <3>3. room + (CheckPeriod + Timeout) * 1000 < Wrap * 1000 /\ room \in Nat
      BY <1>1, WatchdogAssumption
    <3> HIDE DEF room, a, age
    <3>4. x = age - a
      BY DEF x
    <3>5. QED
      BY <1>1, <1>4, <3>1, <3>2, <3>3, <3>4, TimesOK
  <2>3. QED
    BY <1>1, <1>4, <2>1, <2>2
<1> HIDE DEF age, a
<1> DEFINE u == tick - lag
           v == tick - age
           d == age - lag
<1>6. u \in Int /\ v \in Int /\ u - v = d /\ d \in 0 .. Wrap - 1 /\ age - pass <= d
  BY <1>1, <1>5
<1>7. SilenceSeen(c) = ((u % Wrap) - (v % Wrap)) % Wrap
  BY <1>2, <1>3 DEF SilenceSeen
<1> HIDE DEF u, v, d
<1>8. ((u % Wrap) - (v % Wrap)) % Wrap = d % Wrap
  BY <1>1, <1>6, DifferenceOfReadings
<1>9. d % Wrap = d
  BY <1>1, <1>6, ModSmall
<1>10. QED
  BY <1>1, <1>6, <1>7, <1>8, <1>9 DEF age

-----------------------------------------------------------------------------
(* The steps, by what they do to the SWDT and to what the bounds count.    *)
Counted == <<swdt, tick, wpc, last_wake, kicking, reported, pass, silence>>

LEMMA KickCases ==
  ASSUME [Next]_vars
  PROVE  \/ Reboot \/ StartWatchdog \/ StartScheduler \/ TimeWithoutKernel
         \/ board' \in {"halted", "reset"} /\ UNCHANGED Counted
         \/ board = "run" /\ board' = "run" /\ (KernelTick \/ WakeUp \/ ReadTick \/ Check)
         \/ board = "run" /\ board' = "run" /\ \E c \in Client : CheckinStore(c)
         \/ board' = board /\ UNCHANGED Counted
<1> USE DEF Counted
<1>1. CASE FaultHalt \/ SwdtReset
  BY <1>1 DEF FaultHalt, SwdtReset, supervisorVars, clientVars, history
<1>2. CASE SupervisorStep
  BY <1>2 DEF SupervisorStep, WakeUp, ReadTick, Check
<1>3. CASE KernelTick
  BY <1>3 DEF KernelTick
<1>4. ASSUME NEW c \in Client, CanRun(c), CheckinHangs(c) \/ CheckinReadTick(c) \/ CheckinStore(c)
      PROVE  \/ board = "run" /\ board' = "run" /\ CheckinStore(c)
             \/ board' = board /\ UNCHANGED Counted
  BY <1>4 DEF CanRun, CheckinHangs, CheckinReadTick, CheckinStore, supervisorVars, history
<1>5. ASSUME NEW c \in Client, task_watchdog_inject_hang(c)
      PROVE  board' = board /\ UNCHANGED Counted
  BY <1>5 DEF task_watchdog_inject_hang, supervisorVars, history
<1>6. CASE UNCHANGED vars
  BY <1>6 DEF vars
<1>7. CASE ClientStep
  BY <1>4, <1>5, <1>7 DEF ClientStep
<1>8. QED
  BY <1>1, <1>2, <1>3, <1>6, <1>7 DEF Next, TimeStep

LEMMA NothingYetPreserved ==
  ASSUME NothingYet, [Next]_vars
  PROVE  NothingYet'
<1> USE DEF NothingYet
<1>1. CASE Reboot
  BY <1>1 DEF Reboot
<1>2. CASE StartWatchdog \/ StartScheduler \/ TimeWithoutKernel
  BY <1>2 DEF StartWatchdog, StartScheduler, TimeWithoutKernel, supervisorVars, history
<1>3. CASE board' = board /\ UNCHANGED Counted
  BY <1>3 DEF Counted
<1>4. QED
  BY <1>1, <1>2, <1>3, KickCases

LEMMA SwdtRunsPreserved ==
  ASSUME WatchdogTypeOK, SwdtRuns, [Next]_vars
  PROVE  SwdtRuns'
<1> USE TimesOK DEF SwdtRuns, wdt_drv_is_running, NotStarted
<1>0. swdt \in 0 .. NotStarted
  BY DEF WatchdogTypeOK, BoardTypeOK
<1>1. CASE Reboot
  BY <1>1 DEF Reboot
<1>2. CASE StartWatchdog \/ StartScheduler \/ TimeWithoutKernel
  BY <1>0, <1>2 DEF StartWatchdog, wdt_drv_start, StartScheduler, TimeWithoutKernel, CountsDown
<1>3. CASE board = "run" /\ board' = "run" /\ (KernelTick \/ WakeUp \/ ReadTick \/ Check)
  BY <1>0, <1>3 DEF KernelTick, CountsDown, WakeUp, ReadTick, Check, AfterStopping,
     KickIfAllInTime, wdt_drv_kick, wdog_report_late
<1>4. CASE board = "run" /\ board' = "run" /\ \E c \in Client : CheckinStore(c)
  BY <1>4 DEF CheckinStore
<1>5. CASE board' = board /\ UNCHANGED Counted
  BY <1>5 DEF Counted
<1>6. QED
  BY <1>1, <1>2, <1>3, <1>4, <1>5, KickCases

LEMMA StoppedPreserved ==
  ASSUME StoppedForAReason, [Next]_vars
  PROVE  StoppedForAReason'
<1> USE DEF StoppedForAReason
<1>1. CASE Reboot
  BY <1>1 DEF Reboot
<1>2. CASE StartWatchdog \/ StartScheduler \/ TimeWithoutKernel
  BY <1>2 DEF StartWatchdog, StartScheduler, TimeWithoutKernel, supervisorVars
<1>3. CASE KernelTick \/ WakeUp \/ ReadTick
  BY <1>3 DEF KernelTick, WakeUp, ReadTick, supervisorVars
<1>4. CASE Check
  <2>1. CASE wdog_report_late
    <3>1. reported' \in Client
      BY <2>1 DEF wdog_report_late
    <3>2. NoClient \notin Client
      BY TimesOK DEF NoClient, Client
    <3>3. QED
      BY <3>1, <3>2
  <2>2. QED
    BY <1>4, <2>1 DEF Check, AfterStopping, KickIfAllInTime
<1>5. ASSUME NEW c \in Client, CheckinStore(c)
      PROVE  StoppedForAReason'
  BY <1>5 DEF CheckinStore, supervisorVars
<1>6. CASE UNCHANGED Counted
  BY <1>6 DEF Counted
<1>7. QED
  BY <1>1, <1>2, <1>3, <1>4, <1>5, <1>6, KickCases

(* The scheduler starts with nothing counted yet.                          *)
LEMMA AtSchedulerStart ==
  ASSUME WatchdogInv, NothingYet, SwdtRuns, StartScheduler
  PROVE  /\ SinceChecked' = 0 /\ swdt' \in 0 .. Timeout
         /\ swdt' >= Timeout - StartTicks /\ silence' = [c \in Client |-> 0]
<1>1. (0 - 0) % Wrap = 0
  BY TimesOK, ModSmall
<1>2. tick = 0 /\ last_wake = 0 /\ wpc = "delay" /\ silence = [c \in Client |-> 0]
  BY DEF NothingYet, StartScheduler
<1>3. /\ UNCHANGED <<tick, last_wake, wpc, silence, swdt>>
      /\ swdt >= Timeout - StartTicks /\ board = "started"
  BY DEF StartScheduler, supervisorVars, history
<1>4. swdt \in 0 .. Timeout + 1 /\ swdt # Timeout + 1
  BY <1>3, TimesOK DEF WatchdogInv, WatchdogTypeOK, BoardTypeOK, SwdtRuns, wdt_drv_is_running,
     NotStarted
<1>5. QED
  BY <1>1, <1>2, <1>3, <1>4, TimesOK DEF SinceChecked

(* What a check in time leaves behind: the wake-up before it is now what   *)
(* ticks are counted from.                                                 *)
LEMMA AtCheck ==
  ASSUME WatchdogInv, Check
  PROVE  /\ wpc = "check" /\ SinceChecked' = pass /\ SinceChecked = CheckPeriod + pass
         /\ silence' = silence
         /\ kicking' => KickIfAllInTime
<1>1. wpc = "check" /\ wpc' = "delay" /\ UNCHANGED <<tick, last_wake, silence>>
  BY DEF Check, AfterStopping, KickIfAllInTime, wdog_report_late
<1>2. (tick - last_wake) % Wrap = pass
  BY <1>1 DEF WatchdogInv, PassDated
<1>3. SinceChecked' = pass /\ SinceChecked = CheckPeriod + pass
  BY <1>1, <1>2 DEF SinceChecked
<1>4. kicking' => KickIfAllInTime
  BY DEF Check, AfterStopping, StillKicking, wdog_report_late
<1>5. QED
  BY <1>1, <1>3, <1>4

LEMMA KickedInTimePreserved ==
  ASSUME KickInv, [Next]_vars
  PROVE  KickedInTime'
<1> USE DEF KickedInTime
<1>0. /\ WatchdogInv /\ NothingYet /\ SwdtRuns /\ swdt \in 0 .. Timeout + 1
      /\ StartTicks \in Nat /\ Timeout \in Nat /\ pass \in Nat
  BY WatchdogAssumption DEF KickInv, WatchdogInv, WatchdogTypeOK, BoardTypeOK, HistoryTypeOK,
     NotStarted
<1>1. SinceChecked \in Nat
  BY <1>0, SinceCheckedBounds, TimesOK
<1>2. (board = "run" /\ kicking) => swdt + StartTicks + SinceChecked >= Timeout
  BY DEF KickInv
<1>3. CASE Reboot \/ StartWatchdog \/ TimeWithoutKernel
  BY <1>3 DEF Reboot, StartWatchdog, TimeWithoutKernel
<1>4. CASE StartScheduler
  <2>1. SinceChecked' = 0 /\ swdt' \in 0 .. Timeout /\ swdt' >= Timeout - StartTicks
    BY <1>0, <1>4, AtSchedulerStart
  <2> DEFINE w == swdt'
             z == SinceChecked'
  <2>2. z = 0 /\ w \in Int /\ w >= Timeout - StartTicks
    BY <1>0, <2>1
  <2> HIDE DEF w, z
  <2>3. w + StartTicks + z >= Timeout
    BY <1>0, <2>2
  <2>4. QED
    BY <2>3 DEF w, z
<1>5. CASE board = "run" /\ KernelTick
  <2>1. swdt' = swdt - 1 /\ kicking' = kicking
    BY <1>5 DEF KernelTick, CountsDown, supervisorVars
  <2>2. SinceChecked' = SinceChecked + 1
    BY <1>0, <1>5, TickCounted
  <2>3. QED
    BY <1>0, <1>1, <1>2, <1>5, <2>1, <2>2
<1>6. CASE board = "run" /\ (WakeUp \/ ReadTick)
  <2>1. SinceChecked = CheckPeriod + pass
    BY <1>0, <1>6, SinceCheckedBounds DEF WakeUp, ReadTick
  <2>2. wpc' # "delay" /\ pass' = pass /\ swdt' = swdt /\ kicking' = kicking
    BY <1>6 DEF WakeUp, ReadTick, history
  <2>3. SinceChecked' = SinceChecked
    BY <2>1, <2>2 DEF SinceChecked
  <2>4. QED
    BY <1>2, <1>6, <2>2, <2>3
<1>7. CASE board = "run" /\ Check
  <2>1. SinceChecked' = pass /\ (kicking' => KickIfAllInTime)
    BY <1>0, <1>7, AtCheck
  <2>2. KickIfAllInTime => swdt' = Timeout
    BY <1>0, <1>7 DEF KickIfAllInTime, wdt_drv_kick, SwdtRuns
  <2>3. QED
    BY <1>0, <2>1, <2>2
<1>8. ASSUME NEW c \in Client, board = "run", CheckinStore(c)
      PROVE  KickedInTime'
  <2>1. UNCHANGED <<swdt, kicking, tick, last_wake, wpc, pass>>
    BY <1>8 DEF CheckinStore, supervisorVars
  <2>2. QED
    BY <1>2, <1>8, <2>1 DEF SinceChecked
<1>9. CASE UNCHANGED Counted /\ (board' \in {"halted", "reset"} \/ board' = board)
  BY <1>2, <1>9 DEF Counted, SinceChecked
<1>10. QED
  BY <1>3, <1>4, <1>5, <1>6, <1>7, <1>8, <1>9, KickCases

(* Both bounds on silences grow with the silences: all but the check keep  *)
(* them as they are.                                                       *)
LEMMA SilencesGrow ==
  ASSUME WatchdogInv, SwdtRuns, [Next]_vars, board = "run", board' = "run", ~Check,
         NEW c \in Client
  PROVE  /\ silence[c] \in Nat /\ silence'[c] \in Nat /\ limit_ms[c] \in Nat
         /\ SinceChecked \in Nat /\ SinceChecked' \in Nat
         /\ swdt \in 0 .. Timeout /\ swdt' \in Int
         /\ silence'[c] - SinceChecked' <= silence[c] - SinceChecked
         /\ silence'[c] + swdt' <= silence[c] + swdt
         /\ kicking' = kicking
<1>0. /\ silence \in [Client -> Nat] /\ register_age \in [Client -> Nat] /\ pass \in Nat
      /\ swdt \in 0 .. Timeout + 1 /\ swdt # Timeout + 1 /\ register_age[c] <= silence[c]
      /\ limit_ms[c] \in Nat /\ Timeout \in Nat
  BY TimesOK DEF WatchdogInv, WatchdogTypeOK, BoardTypeOK, HistoryTypeOK, NotStarted,
     SwdtRuns, wdt_drv_is_running, StoredTicksDated
<1>1. SinceChecked \in Nat
  BY SinceCheckedBounds, TimesOK
<1>2. CASE KernelTick
  <2>1. swdt' = swdt - 1 /\ kicking' = kicking /\ silence'[c] = silence[c] + 1
    BY <1>0, <1>2 DEF KernelTick, CountsDown, supervisorVars
  <2>2. SinceChecked' = SinceChecked + 1
    BY <1>2, TickCounted
  <2>3. QED
    BY <1>0, <1>1, <2>1, <2>2
<1>3. CASE WakeUp \/ ReadTick
  <2>1. SinceChecked = CheckPeriod + pass
    BY <1>3, SinceCheckedBounds DEF WakeUp, ReadTick
  <2>2. wpc' # "delay" /\ UNCHANGED <<pass, swdt, kicking, silence>>
    BY <1>3 DEF WakeUp, ReadTick, history
  <2>3. SinceChecked' = SinceChecked
    BY <2>1, <2>2 DEF SinceChecked
  <2>4. QED
    BY <1>0, <1>1, <2>2, <2>3
<1>4. ASSUME NEW d \in Client, CheckinStore(d)
      PROVE  /\ UNCHANGED <<swdt, kicking, tick, last_wake, wpc, pass>>
             /\ silence'[c] = silence[c] \/ silence'[c] = register_age[c]
  BY <1>0, <1>4 DEF CheckinStore, supervisorVars
<1>5. CASE \E d \in Client : CheckinStore(d)
  <2>1. /\ UNCHANGED <<swdt, kicking, SinceChecked>>
        /\ silence'[c] = silence[c] \/ silence'[c] = register_age[c]
    BY <1>4, <1>5 DEF SinceChecked
  <2>2. QED
    BY <1>0, <1>1, <2>1
<1>6. CASE UNCHANGED Counted
  BY <1>0, <1>1, <1>6 DEF Counted, SinceChecked
<1>7. QED
  BY <1>2, <1>3, <1>5, <1>6, KickCases DEF Reboot, StartWatchdog, StartScheduler,
     TimeWithoutKernel

LEMMA CheckedInTimePreserved ==
  ASSUME KickInv, [Next]_vars
  PROVE  CheckedInTime'
<1>0. WatchdogInv /\ NothingYet /\ SwdtRuns
  BY DEF KickInv
<1> SUFFICES ASSUME board' = "run", kicking', NEW c \in Client
             PROVE  WasInTime(c, SinceChecked)'
  BY DEF CheckedInTime
<1>1. CASE StartScheduler
  <2>1. SinceChecked' = 0 /\ silence'[c] = 0
    BY <1>0, <1>1, AtSchedulerStart
  <2>2. QED
    BY <2>1 DEF WasInTime
<1>2. CASE board = "run" /\ Check
  <2>1. /\ wpc = "check" /\ SinceChecked' = pass /\ SinceChecked = CheckPeriod + pass
        /\ silence' = silence /\ KickIfAllInTime
    BY <1>0, <1>2, AtCheck
  <2>2. WasInTime(c, SinceChecked)
    BY <1>2, <2>1 DEF KickInv, CheckedInTime, KickIfAllInTime, StillKicking
  <2>3. SilenceSeen(c) \in Nat /\ silence[c] - pass <= SilenceSeen(c)
    BY <1>0, <2>1, <2>2, SilenceSeenExact
  <2>4. ~(wdog_ticks_to_ms(SilenceSeen(c)) > limit_ms[c])
    BY <2>1 DEF KickIfAllInTime, Late, TooLong
  <2>5. silence[c] \in Nat /\ pass \in Nat /\ limit_ms[c] \in Nat
    BY <1>0, TimesOK DEF WatchdogInv, WatchdogTypeOK, HistoryTypeOK
  <2>6. wdog_ticks_to_ms(SilenceSeen(c)) \in Int
    BY <2>3, TimesOK DEF wdog_ticks_to_ms
  <2>7. ASSUME silence[c] > pass
        PROVE  wdog_ticks_to_ms(silence[c] - pass) <= limit_ms[c]
    <3> DEFINE x == silence[c] - pass
               y == SilenceSeen(c)
    <3>1. x \in Nat /\ y \in Nat /\ x <= y
      BY <2>3, <2>5, <2>7
    <3>2. wdog_ticks_to_ms(y) \in Int /\ ~(wdog_ticks_to_ms(y) > limit_ms[c])
      BY <2>4, <2>6
    <3> HIDE DEF x, y
    <3>3. wdog_ticks_to_ms(x) <= wdog_ticks_to_ms(y)
      BY <3>1, MsMonotonic
    <3>4. wdog_ticks_to_ms(x) \in Int
      BY <3>1, TimesOK DEF wdog_ticks_to_ms
    <3>5. wdog_ticks_to_ms(x) <= limit_ms[c]
      BY <2>5, <3>2, <3>3, <3>4
    <3>6. QED
      BY <3>5 DEF x
  <2>8. QED
    BY <2>1, <2>7 DEF WasInTime
<1>3. CASE board = "run" /\ ~Check
  <2>1. /\ silence[c] \in Nat /\ silence'[c] \in Nat /\ limit_ms[c] \in Nat
        /\ SinceChecked \in Nat /\ SinceChecked' \in Nat
        /\ silence'[c] - SinceChecked' <= silence[c] - SinceChecked
        /\ kicking' = kicking
    BY <1>0, <1>3, SilencesGrow
  <2>2. silence[c] > SinceChecked => wdog_ticks_to_ms(silence[c] - SinceChecked) <= limit_ms[c]
    BY <1>3, <2>1 DEF KickInv, CheckedInTime, WasInTime
  <2> DEFINE s == silence[c]
             t == silence'[c]
             a == SinceChecked
             b == SinceChecked'
  <2>3. /\ s \in Nat /\ t \in Nat /\ a \in Int /\ b \in Int /\ t - b <= s - a
        /\ s > a => wdog_ticks_to_ms(s - a) <= limit_ms[c]
    BY <2>1, <2>2
  <2> HIDE DEF s, t, a, b
  <2>4. t > b => wdog_ticks_to_ms(t - b) <= limit_ms[c]
    BY <2>1, <2>3, StaysInTime
  <2>5. QED
    BY <2>4 DEF WasInTime, t, b
<1>4. QED
  <2>1. board = "run" \/ StartScheduler
    BY KickCases DEF Reboot, StartWatchdog, TimeWithoutKernel
  <2>2. QED
    BY <1>1, <1>2, <1>3, <2>1

LEMMA InTimeAtKickPreserved ==
  ASSUME KickInv, CheckedInTime', [Next]_vars
  PROVE  InTimeAtKick'
<1>0. WatchdogInv /\ NothingYet /\ SwdtRuns /\ PassTicks \in Nat /\ Timeout \in Nat
  BY TimesOK DEF KickInv
<1> SUFFICES ASSUME board' = "run", NEW c \in Client
             PROVE  WasInTime(c, Timeout - swdt + PassTicks)'
  BY DEF InTimeAtKick
<1>c. Timeout' = Timeout /\ PassTicks' = PassTicks /\ limit_ms' = limit_ms
  OBVIOUS
<1>1. CASE StartScheduler
  <2>1. swdt' \in 0 .. Timeout /\ silence'[c] = 0
    BY <1>0, <1>1, AtSchedulerStart
  <2> DEFINE t == silence'[c]
             b == Timeout - swdt' + PassTicks
             w == swdt'
  <2>2. t = 0 /\ w \in 0 .. Timeout
    BY <2>1
  <2> HIDE DEF t, w
  <2>3. Timeout - w + PassTicks \in Nat
    BY <1>0, <2>2
  <2>4. b \in Nat
    BY <2>3 DEF w
  <2> HIDE DEF b
  <2>5. ~(t > b)
    BY <2>2, <2>4
  <2>6. QED
    BY <2>5 DEF WasInTime, t, b
<1>2. CASE board = "run" /\ ~Check
  <2> DEFINE s == silence[c]
             t == silence'[c]
             a == Timeout - swdt + PassTicks
             b == Timeout - swdt' + PassTicks
  <2>1. /\ s \in Nat /\ t \in Nat /\ limit_ms[c] \in Nat
        /\ swdt \in 0 .. Timeout /\ swdt' \in Int /\ t + swdt' <= s + swdt
    BY <1>0, <1>2, SilencesGrow
  <2>2. s > a => wdog_ticks_to_ms(s - a) <= limit_ms[c]
    BY <1>2 DEF KickInv, InTimeAtKick, WasInTime
  <2>3. a \in Int /\ b \in Int /\ t - b <= s - a
    BY <1>0, <2>1
  <2> HIDE DEF s, t, a, b
  <2>4. t > b => wdog_ticks_to_ms(t - b) <= limit_ms[c]
    BY <2>1, <2>2, <2>3, StaysInTime
  <2>5. QED
    BY <2>4 DEF WasInTime, t, b
<1>3. CASE board = "run" /\ Check
  <2>1. /\ SinceChecked' = pass /\ silence' = silence /\ (kicking' => KickIfAllInTime)
    BY <1>0, <1>3, AtCheck
  <2>2. CASE kicking'
    <3> DEFINE s == silence[c]
               b == Timeout - swdt' + PassTicks
    <3>1. swdt' = Timeout
      BY <1>0, <1>3, <2>1, <2>2 DEF KickIfAllInTime, wdt_drv_kick, SwdtRuns
    <3>2. s > pass => wdog_ticks_to_ms(s - pass) <= limit_ms[c]
      BY <2>1, <2>2 DEF CheckedInTime, WasInTime
    <3>3. s \in Nat /\ pass \in 0 .. PassTicks /\ pass \in Int /\ limit_ms[c] \in Nat
      BY <1>0, TimesOK DEF WatchdogInv, WatchdogTypeOK, HistoryTypeOK
    <3>4. b \in Int /\ s - b <= s - pass
      BY <1>0, <3>1, <3>3
    <3> HIDE DEF s, b
    <3>5. s > b => wdog_ticks_to_ms(s - b) <= limit_ms[c]
      BY <3>2, <3>3, <3>4, StaysInTime
    <3>6. QED
      BY <2>1, <3>5 DEF WasInTime, s, b
  <2>3. CASE ~kicking'
    <3>1. swdt' = swdt
      BY <1>3, <2>3 DEF Check, AfterStopping, KickIfAllInTime, StillKicking, wdog_report_late
    <3>2. QED
      BY <1>3, <2>1, <3>1 DEF KickInv, InTimeAtKick, WasInTime
  <2>4. QED
    BY <2>2, <2>3
<1>4. QED
  <2>1. board = "run" \/ StartScheduler
    BY KickCases DEF Reboot, StartWatchdog, TimeWithoutKernel
  <2>2. QED
    BY <1>1, <1>2, <1>3, <2>1

LEMMA KickInit == Init => KickInv
<1> SUFFICES ASSUME Init
             PROVE  KickInv
  OBVIOUS
<1>1. WatchdogInv
  BY InvInit
<1>2. NothingYet /\ SwdtRuns /\ KickedInTime /\ StoppedForAReason /\ CheckedInTime /\ InTimeAtKick
  BY DEF Init, NothingYet, SwdtRuns, KickedInTime, StoppedForAReason, CheckedInTime, InTimeAtKick
<1>3. QED
  BY <1>1, <1>2 DEF KickInv

LEMMA KickNext == KickInv /\ [Next]_vars => KickInv'
<1> SUFFICES ASSUME KickInv, [Next]_vars
             PROVE  KickInv'
  OBVIOUS
<1>1. WatchdogInv' /\ NothingYet' /\ SwdtRuns' /\ StoppedForAReason'
  BY InvNext, NothingYetPreserved, SwdtRunsPreserved, StoppedPreserved DEF KickInv, WatchdogInv
<1>2. KickedInTime' /\ CheckedInTime'
  BY KickedInTimePreserved, CheckedInTimePreserved
<1>3. InTimeAtKick'
  BY <1>2, InTimeAtKickPreserved
<1>4. QED
  BY <1>1, <1>2, <1>3 DEF KickInv

LEMMA KickInvariant == Spec => []KickInv
BY KickInit, KickNext, PTL DEF Spec

(* No reset while the kernel runs and every task is on time, for any tick  *)
(* rate, periods and limits: what is left of the SWDT covers the time to   *)
(* the next check, and only a report of a late client ends the kicks.      *)
THEOREM ResetsHaveAReason == Spec => []ResetOnlyForAReason
<1>1. KickInv /\ NoFalseAlarm => ResetOnlyForAReason
  <2> SUFFICES ASSUME KickInv, NoFalseAlarm, swdt = 0, board = "run"
               PROVE  was_late # {}
    BY DEF ResetOnlyForAReason
  <2>1. SinceChecked \in 0 .. CheckPeriod + PassTicks
    BY SinceCheckedBounds DEF KickInv
  <2>2. StartTicks \in 0 .. Timeout - CheckPeriod - PassTicks - 1
    BY WatchdogAssumption
  <2>3. ~(0 + StartTicks + SinceChecked >= Timeout)
    BY <2>1, <2>2, TimesOK
  <2>4. ~kicking
    BY <2>3 DEF KickInv, KickedInTime
  <2>5. reported \in was_late
    BY <2>4 DEF KickInv, StoppedForAReason, NoFalseAlarm
  <2>6. QED
    BY <2>5
<1>2. QED
  BY <1>1, KickInvariant, AlarmsReal, PTL

(* A silent task is not survived: beyond its limit by more than the SWDT's *)
(* timeout and one pass of the supervisor, the board has been reset.       *)
THEOREM SilencesEnd == Spec => []SilenceEndsInReset
<1>1. KickInv => SilenceEndsInReset
  <2> SUFFICES ASSUME KickInv, board = "run", NEW c \in Client
               PROVE  WasInTime(c, Timeout + PassTicks)
    BY DEF SilenceEndsInReset
  <2> DEFINE s == silence[c]
             a == Timeout - swdt + PassTicks
             b == Timeout + PassTicks
  <2>1. /\ s \in Nat /\ limit_ms[c] \in Nat /\ swdt \in Nat
        /\ a \in Int /\ b \in Int /\ s - b <= s - a
    BY TimesOK DEF KickInv, WatchdogInv, WatchdogTypeOK, BoardTypeOK, HistoryTypeOK, NotStarted
  <2>2. s > a => wdog_ticks_to_ms(s - a) <= limit_ms[c]
    BY DEF KickInv, InTimeAtKick, WasInTime
  <2> HIDE DEF s, a, b
  <2>3. s > b => wdog_ticks_to_ms(s - b) <= limit_ms[c]
    BY <2>1, <2>2, StaysInTime
  <2>4. QED
    BY <2>3 DEF WasInTime, s, b
<1>2. QED
  BY <1>1, KickInvariant, PTL

(* While the supervisor still kicks, no client is overdue.                 *)
LEMMA KickingInTime ==
  ASSUME KickInv, board = "run", kicking, NEW c \in Client
  PROVE  ~Overdue(c)
<1> DEFINE s == silence[c]
           a == SinceChecked
           b == CheckPeriod + PassTicks
<1>1. s \in Nat /\ limit_ms[c] \in Nat
  BY TimesOK DEF KickInv, WatchdogInv, WatchdogTypeOK, HistoryTypeOK
<1>2. a \in 0 .. b /\ b \in Nat
  BY SinceCheckedBounds, TimesOK DEF KickInv
<1>3. s > a => wdog_ticks_to_ms(s - a) <= limit_ms[c]
  BY DEF KickInv, CheckedInTime, WasInTime
<1> HIDE DEF s, a, b
<1>4. a \in Int /\ b \in Int /\ s - b <= s - a
  BY <1>1, <1>2
<1>5. s > b => wdog_ticks_to_ms(s - b) <= limit_ms[c]
  BY <1>1, <1>3, <1>4, StaysInTime
<1>6. QED
  BY <1>5 DEF Overdue, WasInTime, s, b

(* The check that falls into a silence that is too long ends the kicks.    *)
LEMMA LateIsSeen ==
  ASSUME KickInv, [Next]_vars, board = "run", board' = "run", NEW c \in Client, CheckedLate(c)
  PROVE  ~kicking' /\ swdt' <= swdt
<1>1. Check
  BY KickCases DEF CheckedLate, KernelTick, supervisorVars, WakeUp, ReadTick, CheckinStore,
     Counted, Reboot, StartWatchdog, StartScheduler, TimeWithoutKernel
<1>2. SinceChecked' = pass /\ silence' = silence
  BY <1>1, AtCheck DEF KickInv
<1>3. ~kicking'
  <2> SUFFICES ASSUME kicking' PROVE FALSE
    OBVIOUS
  <2>1. WasInTime(c, SinceChecked)'
    BY CheckedInTimePreserved DEF CheckedInTime
  <2>2. WasInTime(c, pass)
    BY <1>2, <2>1 DEF WasInTime
  <2>3. QED
    BY <2>2 DEF CheckedLate
<1>4. swdt \in Nat
  BY TimesOK DEF KickInv, WatchdogInv, WatchdogTypeOK, BoardTypeOK, NotStarted
<1>5. swdt' = swdt
  BY <1>1, <1>3 DEF Check, AfterStopping, KickIfAllInTime, StillKicking, wdog_report_late
<1>6. QED
  BY <1>3, <1>4, <1>5

(* Once a check has fallen into a silence that was too long, the SWDT is   *)
(* never kicked again before the reset, whatever the clients do.           *)
THEOREM NoKickAfterSilence == Spec => NoSecondChance
<1>1. ASSUME KickInv, [Next]_vars, board = "run", board' = "run", ~kicking
      PROVE  ~kicking' /\ swdt' <= swdt
  <2>1. swdt \in Nat
    BY <1>1, TimesOK DEF KickInv, WatchdogInv, WatchdogTypeOK, BoardTypeOK, NotStarted
  <2>2. CASE KernelTick
    BY <2>1, <2>2, <1>1 DEF KernelTick, CountsDown, supervisorVars
  <2>3. CASE WakeUp \/ ReadTick
    BY <2>1, <2>3, <1>1 DEF WakeUp, ReadTick
  <2>4. CASE Check
    <3>1. UNCHANGED <<swdt, kicking>>
      BY <2>4, <1>1 DEF Check, AfterStopping, KickIfAllInTime, wdog_report_late, StillKicking
    <3>2. QED
      BY <2>1, <3>1, <1>1
  <2>5. ASSUME NEW c \in Client, CheckinStore(c)
        PROVE  ~kicking' /\ swdt' <= swdt
    BY <2>1, <2>5, <1>1 DEF CheckinStore, supervisorVars
  <2>6. CASE UNCHANGED Counted
    BY <2>1, <2>6, <1>1 DEF Counted
  <2>7. QED
    BY <1>1, <2>2, <2>3, <2>4, <2>5, <2>6, KickCases DEF Reboot, StartWatchdog, StartScheduler,
       TimeWithoutKernel
<1>2. KickInv /\ [Next]_vars =>
        [(/\ board = "run" /\ board' = "run"
          /\ ~kicking \/ \E c \in Client : Overdue(c) \/ CheckedLate(c))
           => (~kicking' /\ swdt' <= swdt)]_vars
  BY <1>1, KickingInTime, LateIsSeen
<1>3. QED
  BY <1>2, KickInvariant, PTL DEF Spec, NoSecondChance
=============================================================================
