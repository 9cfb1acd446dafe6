# Zybo RTOS sensor aggregator: a TLA+ model, checked and proved

The firmware (`sw/stage4_watchdog/src`) samples the Zynq's XADC from a timer
interrupt, keeps the samples in a ring buffer in DDR, streams them over a UART,
takes commands from buttons and a terminal, and supervises its own tasks with
the hardware watchdog. It runs under FreeRTOS on one core with four tasks of
fixed priorities (`config/app_config.h`): watchdog 5, producer 4, UI 2,
consumer 1.

Paths below are relative to `src/sw/stage4_watchdog/src` unless they start with
another directory.

## 1. The system

| part | state it keeps | operations | interacts with |
|---|---|---|---|
| ring buffer `datalog/ring_buffer.c` | storage, free-running `head`/`tail`, `overwritten`, high-water mark, `has_newest` | init, push, pop, peek_newest, count | called by the sensor log only |
| sensor log `datalog/sensor_log.c` | one ring, one FreeRTOS mutex, longest hold time | write, read, peek_newest, get_stats, each with a bounded wait | producer writes, consumer reads |
| producer `tasks/task_producer.c` | `seq`, `doorbell_pending`, statistics | tick callback (ISR), one loop pass per tick, get_stats | log, consumer's queue, watchdog |
| consumer `tasks/task_consumer.c` | message queue, `drain_paused`, `received`, `lost`, ... | receive, handle, drain, stall check | log, console, watchdog |
| UI `tasks/task_ui.c` | dropped-message count | scan buttons, read the UART, send commands | consumer's queue, gpio, uart, watchdog |
| supervisor `tasks/task_watchdog.c` | per client: last check-in, worst silence, test hang | periodic check, kick, check-in, hang injection | all tasks, SWDT |
| watchdog driver `drivers/wdt_drv.c` | running flag, restart value | init, start, kick | SWDT |
| gpio, uart, timer, xadc, slcr drivers | debounce state; error counters; registers | scan/take_press; put/get char; start/stop; read | UI, console, producer |
| system `system/*.c`, `main.c` | reset cause, console buffer, uptime base | boot, fault halt, formatting | everything |

What is hard here: preemption at any point between two kernel calls; a mutex
with priority inheritance; edge-triggered doorbells over a bounded queue that
is never waited on; ticks arriving faster than they are handled; timeouts of
every wait; counters that wrap; statistics that are derived from one another
while both move; a status register that latches between its read and its clear;
and hardware that outlives the program (SWDT, sample counter, reset flags).

What makes each part correct:

* ring buffer: it is a bounded FIFO that drops its oldest record, across any
  number of counter wraps;
* log, producer, consumer, UI together (the *sample path*): no wake-up is lost,
  every sample and every tick is accounted for, records arrive in order and at
  most once, the counts that are printed together agree, the producer's wait
  for the mutex is not stretched by the UI;
* stall check: a warning is true, comes once a stall and is never missing;
* supervisor: a hung task ends in a reset within a bound, a healthy system never;
* UI: the debounced level is the level of the last stable stretch, every press
  and key is delivered once or counted as dropped, no line error is overlooked,
  and the debounce time is kept, or missed by a known amount, when scans are late;
* console: an alarm and a fault's text come out whole, whatever they interrupt;
* numbers: readings, their text, times and the SWDT's setting are as accurate as
  their comments promise, at every edge of their types;
* boot: the banner tells why the program started, a failure is shown with what
  is up by then, nothing a previous run left behind is taken for this run's.

## 2. Modules

| module | what it is |
|---|---|
| `DropOldestQueue` | abstract specification: what the ring promises, and what `tests/host/test_ring_buffer.c` compares it with |
| `SampleStream` | abstract specification: what the tasks, the mutex and the log together promise about the samples |
| `RingBuffer` | `ring_buffer.c`: state, and one operator per function |
| `RingBufferCalls` | the ring with one call per step; refinement mapping to `DropOldestQueue` |
| `SampleFlow` | ISR, producer, log with mutex, queue, consumer and UI under the scheduler; extends `RingBuffer`; refinement mapping to `SampleStream` |
| `Watchdog` | supervisor, check-ins, test hangs and SWDT on a tick clock that wraps |
| `Ui` | the UI task with the debouncer and the UART receiver |
| `UiClock` | `Ui` with the kernel's tick, `vTaskDelayUntil` and pins that change at any time |
| `Console` | the three writers of the UART's TX FIFO |
| `Boot` | from a reset to the first sample, with resets, debugger restarts and failing initialisations |
| `Stall` | the consumer's stall check against the producer's sample count, on a tick clock that wraps |
| `Conversions` | the computations on numbers, in integers of a given width |
| `MCRingBuffer`, `MCSampleFlow`, `MCWatchdog`, `MCUi`, `MCConsole`, `MCBoot`, `MCStall`, `MCConversions` | instances for TLC |
| `ModularArithmetic` | lemmas about remainders |
| `SampleFlow_proofs` | the theorems about the ring and its refinement, and, from what each ring operation does to fill level, types and contents, those about the sample path |
| `Ui_proofs` | the theorems about `Ui` and `UiClock` |
| `Stall_proofs`, `Watchdog_proofs`, `Console_proofs`, `Boot_proofs`, `Conversions_proofs` | the theorems about the module of that name |

Operators and variables carry the names of the functions and variables they
translate. `PROJECT.json` maps each to its lines.

### RingBuffer

The counters are kept modulo `Wrap` (2^32 in the program) and a record's slot
is `(counter % Wrap) % Capacity`. The code masks with `capacity - 1`;
`ring_buffer_init` accepts powers of two up to 2^31 only, for which masking is
that remainder and `Capacity` divides `Wrap` with a quotient of at least two.
`RBAssumption` states just this divisibility; that the accepted capacities are
the ones that have it is `MaskIsRemainder` in `Conversions`, which is proved. A pop is two named steps, copy
(`records_out`) and release (`ReleaseOldest`), so that `SampleFlow` can let
other tasks in between if the mutex does not keep them out.

### SampleFlow

A step is a kernel call, a critical section, or an access to state another task
touches. `ppc` and `cpc` say where the producer and the consumer are:

    producer  wait -> lock -> test -> push -> unlock -> (ring ->) stats -> wait
    consumer  recv -> depth -> handle -> drain                  doorbell, switches
                               handle -> lookLock -> look -> report -> drain   REPORT
                               handle -> count -> lookLock -> look -> drain    STATS
              drain -> lock -> copy -> release -> unlock -> process -> lock | recv

The scheduler is the guard `CanRun(t)`: no task that is ready has a higher
effective priority, where the holder of the mutex inherits the priority of its
waiters (FreeRTOS, modelled from the calls the code makes). Interrupts
(`TimerTick`) and the arrival of a key press (`UiScan`) are not subject to it.

Time is not modelled: a timeout is a step that may be taken whenever what is
waited for is missing. For the mutex this covers the bring-up build with
`APP_TEST_LOG_HOLD_US`, where the lock is held longer than the producer waits.

Commands are four: the pause switch, the ones that show the newest record
(REPORT, PRINT_NEWEST), the diagnostics, and the rest. `shown` is what such a
command has put on the screen already when it reads the next count: the newest
record, while the producer's statistics are still to come, or the number of
writes the producer counted, while the log's are. Left out, because no property
depends on it: layout, LEDs, sensor values, time and min/max statistics,
`doorbell_retries`, the UI's `s_dropped_msgs`, the check-ins and the stall check
(`Stall`).

From outside, all this is a stream of samples: `SampleStream` has one row of
numbers and four steps, take, arrive, make room, give up the newest. Under way are
the consumer's batch, the log's records and the sample in the producer's hands
(`UnderWay`); while a batch is copied but not released it counts as part of the
log (`Unprocessed`). `ImplementsSampleStream` is checked and proved. It holds
across wraps, and it says where a sample may be given up: the one older than the
`Capacity` newest, when the producer writes to a full log, or the newest itself.

The components below share nothing with the sample path but the CPU, the
consumer's queue and the check-ins. Each has a module of its own, in which the
other tasks are left as open as the code leaves them.

### Watchdog

`tick` is the kernel's tick count modulo `Wrap` (2^32); `swdt` the ticks until
the hardware resets the board. The supervisor's pass is `WakeUp` (the return of
`vTaskDelayUntil`), `ReadTick` and `Check` (the loop over the clients, the kick
or the report); a check-in is `CheckinReadTick` and `CheckinStore`, between
which the supervisor may preempt the client. What a client does between two
check-ins is open: it may be silent for any time. `pass`, `silence`,
`register_age` and `was_late` are history in true, unwrapped time.

Two assumptions about time are made: from its wake-up to the end of its pass at
most `PassTicks` ticks go by (it has the highest priority and `PassTicks` is
less than its period), and the scheduler starts within `StartTicks` of
`wdt_drv_start`, or never. The bound that is checked, limit + timeout + pass,
is tighter than the one of `config/app_config.h:78-83`.

### Stall

`consumer_check_stall` is `ReadTick`, `task_producer_sample_count` and `Decide` (`NoteProgress`,
`Warn` or `NothingNew`), and the producer, which outranks the consumer, may take a
sample between any two of them. When it does is open. Ticks and sample count
wrap; `silence`, `progress_age` and `quiet` are history in true time. Two bounds
are assumed: the consumer is back at its check within `LoopTicks` (else the
supervisor resets the board), and a check takes at most `ReadTicks`. A sample
taken between the two reads is dated too early by up to `ReadTicks`, which is
the slack in `WarningsTrue`. The sample count must not come round between two
checks, which with 2^32 samples it does not.

### Ui

A pass of the UI task is `Scan`, one `gpio_drv_btn_take_press` per button, and
then `CollectLineErrors`, `AcknowledgeLineErrors`, `ReceiveKey` until the FIFO
is empty. Bytes and line errors come at any time; the read of the interrupt
status register and its write-one-to-clear are two steps. Buttons are read as
any level in each scan. `DebouncedLevelStable` compares the driver's counter
with a reference definition over all levels read so far, which are kept as
history (`levels`), and so are the buttons whose presses were taken (`taken`).
A press is a scan that debounces to a press by the same reference definition
(`PressScans`): `EveryInputAccounted` counts those scans against the presses
taken and the latch, and the messages against both kinds of input.

The debouncer is seeded with whatever the pads show. With either wiring of
`config/board_zybo.h` a pad that has not settled reads as pressed, so that a
wrong seed is corrected by a release, which is no event (`gpio_drv.c:89-95`).

Scans carry no time in `Ui`; `UiClock` adds it. `overdue` is how long ago
`last_wake` and the period released the next scan: `vTaskDelayUntil` moves the
release by one period, whenever the task got to run (`NextRelease`), so that a task
kept from running catches up with scans that follow one another without a wait.
Pins change at any tick; what the task does between two scans takes whatever time
passes, and the only bound is that no scan is more than `MaxLate` ticks late.
`TimedSpec` implements `Ui`'s `Spec` (`ClockKeepsUi`). That a scan is late does not
add up (`FlipsInTime`): the scans that flip a level span one period less than their
number, 20 ms in the program, up to one lateness either way. So a pulse shorter than
20 ms less that lateness is never a press, and whatever is held for the header's
30 ms (`drivers/gpio_drv.h:8`) and that lateness is seen (`HeldLevelSeen`).

### Console

A byte is its writer and its place in the writer's text. `SeeRoom` is the spin
on TXFULL, `WriteFifo` the write. While the supervisor's alarm or the fault
handler is at it, the consumer stands still, possibly between the two. The
output is all that was written and not lost, on the wire or not: `TextAt` says
where in it a writer's text stands.

### Boot

`BootSteps` is the order of `main()`, `stage` the place in it. `slcr_modify` is
three steps (unlock, write, relock), since a reset or a debugger may hit in
between, and `gpio_drv_init` calls it for every button (`btn`); every other step is
one initialisation, which succeeds or ends in `fault_halt` (`gpio_drv_init` in a
silent loop). `Reset` and `Restart` may come at any point; the first leaves the
reset flags only, the second all hardware, and both give the program fresh statics.
Whether the global timer counts (`timer_works`), and whether the kernel's tick runs
on the counter of the sample timer (`tick_on_ttc`, the clash that
`config/board_zybo.h:88-96` describes), is chosen once, as both depend on the BSP's
configuration.

`ttc_owner` is who started that counter. `sample_timer_init` refuses it if it counts
(`CounterBusy`): `LeftoversKnown` says that only a debugger's restart or such a build
brings that about (`TimerFoundFree`), and that in such a build the kernel keeps its
counter, so that the clash ends in a fault and not in a dead tick (`TickKept`).
Of the SWDT it says, besides what the driver's flag means, that a fault ahead of
`wdt_drv_start` is followed by no reset, unless a debugger has restarted the program
(`WdtFlagTrue`).

### Conversions

An action is one call: any of the given inputs, and its result. The computations
are those of the C code, with `% Wrap32` or `% Wrap64` where a result of that
width is formed, and division that cuts off where C does. `fn`, `arg` and
`result` hold the last call, which is what the properties look at. The widths,
the scales of the XADC, the dividers and the clocks are constants;
`WidthAssumption` states the three claims of the code that its products fit, for
which the values of the program are well inside; `BinaryAssumption`, that an
unsigned type has a power of two values; `ResolutionAssumption`, that a code of the
temperature is worth more than 11 milli-degrees, where the code's comment says 0.12
degrees. Loops and masks are recursive functions: of a number's digits, and of bits
(`And`).

## 3. Runs

| run | instance | what it shows |
|---|---|---|
| `ring_buffer` | 4 slots, counters modulo 8, 3 records, no bound on calls | every call sequence is one of the abstract queue; the state space is finite because the counters wrap |
| `flow` | 2 slots, counters modulo 8, batches of 1, 2 batches per pass, queue of 1, 3 ticks, 2 keys, the real priorities | no lost wake-up, accounting of samples and ticks, order, losses, printed counts that agree, bounded inversion; with fairness, records are drained without any timeout firing |
| `stall` | warning after 4 ticks, a check at least every 3 ticks, 1 tick between its reads, ticks modulo 9, samples modulo 3 | warnings are true, once a stall, never missing |
| `watchdog` | 2 clients with limits of 2 and 3, check period 2, timeout 5, passes of up to 1 tick, ticks modulo 12, test hangs, fairness | no false alarm, no reset without a reason, no silence beyond the bound, no second chance; a hang of any task, or of the kernel, ends in a reset |
| `ui` | `UiClock`: 1 button, 3 equal scans to flip, one every tick, up to 1 tick late, 5 scans, pins that change at any tick, queue of 1, FIFO of 1, 2 bytes, 1 error of each kind | the debouncer; no level held long enough is overlooked, none flips too early, also when late scans bunch; every input delivered, counted as dropped or latched; line errors noticed, none twice |
| `console` | FIFO of 2, texts of 4, 3 and 3 bytes | who may lose or split what |
| `boot` | 2 buttons, no bounds | banner, SLCR lock, watchdog flag after a restart, sample timer after a restart or on the kernel's counter, failures shown |
| `numbers` | 18 and 24 bits for 32 and 64, 5-bit codes with the XADC's LSB, inputs around zero, around each rounding edge and at both ends of the types | each conversion is as accurate as promised |
| `queue_peak`, `lost_when_drained` | as `flow`, with 4 ticks | violations: see findings |
| `no_byte_lost` | as `console` | violation: see findings |
| `fault_flashes` | as `boot` | violation: see findings |

The bounds: two slots with three ticks overflow the ring while draining is
paused, or while the consumer is between copy and release, and leave a sample to
be dropped on a timeout or missed; a queue of one makes every doorbell compete
with a command; batches of one make every non-empty log longer than a batch.
What wraps, wraps in `ring_buffer`, `stall` and `watchdog`; for the counters of
`flow` the theorems cover it. `MaxTimeouts` bounds the two timeout counters; the
timeouts that count nothing are unbounded.

The tick count of `watchdog` wraps after 12 ticks, while a run goes on without
bound: the state space is finite because every age is limited by the reset
that follows. `Wrap` is little more than the assumption on silences asks for.
In `ui` a scan that is a whole period late and the next one come back to back, and
five scans at three to a flip hold a press, or the release of a button held through
reset, with a bounce before it. Two bytes overrun the FIFO; two errors of one kind
between two polls, more presses and more buttons, which share no state, are left to
the theorems. An alarm longer than the FIFO leaves it full at its last byte,
whatever the consumer has put there before. `boot` is complete but for the number of
buttons, two as in the program; the theorems are about any number. In `numbers` every
function sees both sides of each of its branches and the largest and smallest value
of its type; that narrower integers are no different is what the theorems show for
each of them.

Fairness (`FairSpec`): weak fairness of each task's own steps while the
scheduler lets it run. That is what a fixed-priority scheduler gives when the
higher-priority tasks go idle, as they do here between ticks. No timeout and no
interrupt is fair, so `LogDrains` does not lean on the consumer's 250 ms poll.
For `HangEndsInReset`: time passes (`TimeStep`), and the supervisor, of highest
priority, gets to run when it is ready; no client step is fair.

### Findings

* `queue_depth_peak` can be one more than the queue's length
  (`tasks/task_consumer.c:505`). The depth is "messages still waiting, plus the
  one just taken", but the UI, of higher priority, may have filled the slot in
  between. The diagnostics then print "peak 17 / 16".
* "once the backlog is drained: lost == overwritten + drops"
  (`tasks/task_consumer.c:329`) holds only if the newest sample was not dropped:
  `lost` is computed from the last record received. What does hold, and is
  checked, is that `lost` never exceeds the sum (`LossesReal`).
* The TX side of the UART has a second writer beside its "owner"
  (`drivers/uart_drv.h:11`): the supervisor's alarm may fill the FIFO between the
  consumer's look at TXFULL and its write, and that byte is lost
  (`tasks/task_watchdog.c:68`). It is one byte at most, and never the alarm's
  (`ConsumerLosesOneByte`, `AlarmsWhole`).
* A fault does not flash LD4 if the global timer stands still
  (`system/fault.c:21`), and that is just what `main.c:103` halts for: the busy
  wait between two toggles never ends.

Two more consequences of a restart by the debugger can be seen in `Boot`. A fault
before `wdt_drv_init` prints "system halted", and the SWDT of the run before
resets the board soon after; `WdtFlagTrue` says from where on the flag can be
trusted, and that nothing else resets a board halted so early. And `sample_timer_init` finds the counter counting and halts the
program; `drivers/sample_timer.c:91` excludes that for a Vitis run, which resets
the system first, and `TimerFoundFree` shows that no other path leads there but the
clash with the kernel's tick that the refusal is for.

## 4. Proofs

All theorems hold for every value of the constants that satisfies the named
assumptions (`RBAssumption`, `RBCAssumption`, `FlowAssumption`,
`StallAssumption`, `WatchdogAssumption`, `UiAssumption`, `ClockAssumption`,
`ConsoleAssumption`, `BootAssumption`, `ConversionsAssumption`, `WidthAssumption`,
`BinaryAssumption`, `ResolutionAssumption`), which restate `ring_buffer_init`'s checks and `main.c`'s
static assertions, and state the bounds on time and the widths named above.
`InversionBounded`, `NoReadTimesOut` and `PrintedCountsRight` say in addition that
they are about the priorities of `config/app_config.h` (`AppPriorities`).

* `RingBufferBounded`: the invariant `RBInv` (types and the bounds on the fill
  level) is inductive. Everything rests on `CountMoves`: when head and tail move
  on by a and b, their wrapped distance changes by a - b.
* `RingBufferImplementsQueue`: each call maps to the abstract operation. A push
  appends because the slots of the waiting records differ from head's
  (`SlotDistinct`: counters less than Capacity apart have different slots);
  a pop takes a prefix because the wrap of tail does not move slots.
* `FlowInvariant`, `WakeupsNotLost`: `NoLostWakeup` is not inductive. `FlowInv` adds
  that the mutex is held exactly in the critical sections (`LockHeld`), that the
  emptiness the producer tested is still true when it pushes
  (`EmptinessStillTrue`), that a short batch left the log empty
  (`ShortBatchEmptiesLog`), and that from then on every record in the log has a
  doorbell queued or about to be rung (`DoorbellArmed`). The proof uses neither
  the scheduler nor any timeout.
* `AccountInvariant`, `NothingIsUncounted`, `LogStatsAgree`, `NewestArrives`:
  `AccountInv` extends `FlowInv` by what the batch is while tail has not moved yet
  (`CopyStillTrue`), by the books of both tasks against head and tail
  (`LogStatsTrue`: written and read, modulo the width), by the interrupts
  (`TicksAccounted`) and by the newest record being the last one under way
  (`NewestLast`). With `head - tail` as the fill level, the sum in
  `SamplesAccounted` is then arithmetic modulo `Wrap`, and so it holds however
  often any of the counters has wrapped.
* `FlowImplementsStream`: with `AccountInv`, every step of `SampleFlow` maps to a
  step of `SampleStream` or to none. A read moves the cut between batch and log and
  leaves the row as it is (`CutAnywhere`); a push into a full log takes out the
  element behind the batch (`LeavesMiddle`). No bound on the ticks is needed: the
  order of arrival is that of the row, not of the numbers.
* `ArriveInOrder`, `NoLossInvented`, `PrintedCountsRight`: in runs of fewer ticks
  than a counter counts (`FewTicks`), which nothing in the code ensures but the
  time it takes: thirteen years for 32 bits at ten samples a second. `OrderInv`
  extends `AccountInv` by the same books without remainders (`ExactBooks`; nothing
  wraps as no sample is numbered without a tick, `NothingWrapped`), by the numbers
  under way rising, and by each of them being ahead of its place in the order of
  arrival by at most the samples known to be lost (`GapsAreLosses`), of which
  `lost` is the first. That a report's record is counted takes the priorities as
  well (`CountsInv`): the producer stores a sample before it counts it, but the
  consumer, which holds the mutex, does not run in between. The diagnostics need
  no priorities.
* `InversionBounded`, `NoReadTimesOut`: while the producer waits, the consumer holds
  the mutex, has inherited the producer's priority and is ready, so that the UI
  is not run; the producer is never kept from giving the mutex back, so that the
  consumer, which it outranks, never sees its wait run out. Its path for a read that
  gives up (`tasks/task_consumer.c:370`) is in the model, and idle with these priorities.
* `StallInvariant`, `NoFalseWarning`, `NoStallMissed`: the tick read and the tick of
  the last progress are as old, modulo `Wrap`, as history says (`TicksDated`), and
  neither age reaches `Wrap`, so that their difference is the true one
  (`AgeMeasured`). That is why `StallTicks + LoopTicks < Wrap` is asked for, and why
  a stall is reported before the difference could wrap.
* `WatchdogInvariant`, `AlarmsReal`: a stored tick is `silence` old modulo `Wrap`
  (`StoredTicksDated`), the supervisor's own tick is at most `pass` old, and no
  client stores between its wake-up and its check (`NoCheckinInPass`), because
  none may run. So the difference it computes is at most the true silence, and
  a client it finds late is in `was_late`. The width of the tick count is
  what `WatchdogAssumption` demands, in milliseconds, of the limits.
* `ResetsHaveAReason`, `SilencesEnd`, `NoKickAfterSilence`: `KickInv` extends
  `WatchdogInv` by the time since the last check (`SinceChecked`, counted from the
  supervisor's wake-up). While it kicks, that time and what is left of the SWDT make
  up the timeout (`KickedInTime`), and every client was in time at that check
  (`CheckedInTime`); once it has stopped, the SWDT's count alone dates the last kick
  (`InTimeAtKick`). That the kicks stop at the first check of a long silence rests
  on the width: a client in time at the check before cannot have been silent for a
  whole wrap, so the difference computed is its silence, short of at most the ticks
  since the supervisor read the clock. So the first check that falls into a silence
  too long cannot go by without stopping the kicks (`CheckedLate`, `LateIsSeen`). A
  client that is late and back again before the next check is not noticed by the
  code either, and no property asks for that. The first kick has to cover the start of the
  scheduler (`StartTicks`), too.
* `UiInvariant`, `DebouncerCorrect`, `NoLineErrorMissed`: the counter is the
  number of scans since the level last agreed (`MismatchesCounted`), from which
  each scan extends the reference definition by one level; what is about to be
  acknowledged has been counted (`AcknowledgesCounted`), and a kind that latches
  after the read either is in the copy, and counted, or stays latched.
* `NoInputMissed`: the reference definition gives each scan one level
  (`StableLevelUnique`), which no later scan changes, so that a scan adds at most
  itself to the presses (`ScanAddsPress`), and does so exactly when the driver
  latches. One latch per button is enough because no press is latched behind the
  button the task asks for (`LatchedAhead`), and none at all when it scans.
* `ClockKeepsUi`, `ClockInvariant`, `HeldIsSeen`, `FlipsAreInTime`: forgetting the clock
  turns a run of `UiClock` into one of `Ui`, so that `UiInv` carries over. `ClockInv`
  dates the first of the scans that count towards a flip by their number and by how
  late the next one is (`ScansEven`), and the last change of a pin that differs from
  the debounced level (`ChangesSeen`). Both survive a scan because `vTaskDelayUntil`
  takes exactly one period off `overdue`: with a delay counted from the scan neither
  is inductive, and TLC finds the flip that comes too late.
* `ConsoleInvariant`, `AlarmsReadable`, `OneByteAtMost`: the room a writer has seen
  is there when it writes, but for the consumer's after an alarm came in between,
  when nothing has been lost yet (`RoomStillThere`): so only the consumer loses a
  byte, and only one, as the alarm comes once. Whoever stopped the others is the
  last to have written (`AlarmLast`), and so goes on with its own text. Every step
  leaves the output alone, appends a writer's next byte to it, or loses that byte
  (`StepKinds`), which is all the contents and the order depend on.
* `BootInvariant`, `SlcrIsLocked`, `BannerIsTrue`, `LeftoversAreKnown`,
  `FailuresAreShown`: `BootInv` says that the reason bits are exactly the resets since
  they were cleared, and none once they were (`FlagsKnown`), that `slcr_modify` holds
  the lock it found while the SLCR is open (`LockRemembered`), and that what `main()`
  has passed is initialised and nothing was started ahead of its turn
  (`StartedInOrder`). A reset or a restart from any state satisfies it again. The cause
  told is then the first bit of a set of resets that stays as it is; the flag of the
  watchdog driver is true because `wdt_drv_init` comes before `wdt_drv_start` and stops
  what it finds. That nothing runs ahead of its turn is also why an early fault is
  followed by no reset, and why the counter of the sample timer is the kernel's or
  nobody's when the producer asks for it; that it stays the kernel's (`TickKept`) rests
  on the refusal alone.
* `UptimeIsExact`, `PrintedIsAccurate`, `TimeoutIsRight`: a quotient that is rounded
  is characterised once by its two inequalities, and each function is shown to keep
  them through its steps; `WidthAssumption` removes every remainder but the ones in
  `console_fmt_milli`, where negating INT32_MIN in unsigned arithmetic gives its
  magnitude. So the accuracy of a printed reading is a theorem for every scale,
  width and code.
* `MaskIsRight`, `TextsAreRight`: the recursive functions satisfy the equations that
  define them (`AndFollows`, `DigitsFollow`, `NumberFollows`, each from `Recursion`: a
  rule that leads to smaller numbers has a solution), and `Induction`, about a set of
  numbers, shows the rest. `And[c][c - 1]` is zero exactly for the powers of two: an
  odd c other than one leaves itself, less its last bit, behind (`AndSelf`), and an
  even one leads to its half (`AcceptedIsRight`, `DivisorIsAccepted`). The digits of
  a number read back digit by digit (`NumberOfMore`). Temperatures stay distinct
  because both roundings together move a reading by at most 5.5 milli-degrees, and
  codes are more than 11 apart (`TemperatureShown`, `TemperaturesApart`).

Only model-checked: `LogDrains` and `HangEndsInReset`, since liveness is out of
the prover's reach.

### Not modelled

The layout of reports and `console_printf`, which is the library's; run-time
statistics (times, minima and maxima, lock holds, kicks); the sequencer's
registers and the period of the timer; LEDs outside of a fault; vendor libraries
and FreeRTOS beyond what the calls promise; the FSBL; builds with
`APP_WDT_ENABLE` 0.

## 5. Plan

1. The times and extremes of the producer's statistics.
2. A bound on `MaxLate` and on the stall check's `LoopTicks` from the priorities and
   the length of the higher tasks' passes, which are assumed here.
