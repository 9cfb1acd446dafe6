----------------------------- MODULE SampleFlow -----------------------------
(***************************************************************************)
(* The path of a sample through the firmware: the timer interrupt, the     *)
(* producer task that takes the sample and writes it to the log, the log   *)
(* (a ring buffer behind a mutex), the doorbell in the consumer's message  *)
(* queue, the consumer task that drains the log, and the UI task that      *)
(* shares the queue. task_producer.c, task_consumer.c, task_ui.c and       *)
(* sensor_log.c, with the FreeRTOS services they call.                     *)
(*                                                                         *)
(* Every step is one piece of a task that nothing can be seen to happen    *)
(* inside of: one kernel call, one critical section, or one access to      *)
(* state other tasks touch. Between two steps any interrupt or any task    *)
(* the scheduler prefers may run.                                          *)
(*                                                                         *)
(* A sample is represented by its sequence number, the only field the      *)
(* control flow and the statistics modelled here look at. What is printed, *)
(* the LEDs and the time and min/max statistics are left out. So are the   *)
(* task_watchdog_checkin calls at the end of the three task loops.         *)
(***************************************************************************)
EXTENDS RingBuffer

CONSTANTS ReadBatch,        \* APP_LOG_READ_BATCH
          DrainBatchesMax,  \* APP_LOG_DRAIN_BATCHES_MAX
          QueueLen,         \* APP_CONSUMER_QUEUE_LEN
          Prio,             \* the tasks' base priorities
          MaxTicks,         \* bound: timer interrupts
          MaxKeys,          \* bound: key presses
          MaxTimeouts       \* bound: timeouts the producer, the consumer count

Task == {"producer", "ui", "consumer"}
NoTask == "none"

ASSUME FlowAssumption ==
  /\ Record = Uint32
  /\ ReadBatch \in 1 .. Capacity
  /\ DrainBatchesMax \in Nat \ {0}
  /\ QueueLen \in Nat \ {0}
  /\ Prio \in [Task -> Nat]
  /\ MaxTicks \in Nat /\ MaxKeys \in Nat /\ MaxTimeouts \in Nat

(* Commands from the UI, by what the consumer does with them: toggle       *)
(* drain_paused, show the newest record (REPORT, which adds statistics,    *)
(* and PRINT_NEWEST), show diagnostics, or none of these (the stream       *)
(* toggles, HELP, UNKNOWN_KEY).                                            *)
Command == {"PAUSE_TOGGLE", "REPORT", "STATS", "OTHER"}
Message == Command \cup {"DATA_READY"}

VARIABLES
  \* the timer and the kernel objects
  ticks,              \* timer interrupts so far
  notified,           \* the producer's notification count
  log_mutex,          \* the task that holds it, or NoTask
  consumer_q,         \* the messages waiting
  \* the producer's locals and statistics
  ppc, seq, pending_ticks, log_was_empty, doorbell_pending, write_dropped,
  samples, overruns, log_write_drops, timeouts,
  \* the consumer's locals and s_state
  cpc, msg, backlog_pending, drain_paused, batch, batch_count, batch_num,
  received, last_seq, lost, log_lock_timeouts, queue_depth_peak,
  shown,              \* the record a report shows, or the writes the diagnostics have counted
  \* the UI
  upc, keys

kernelVars == <<ticks, notified, log_mutex, consumer_q>>
producerLocals == <<seq, pending_ticks, log_was_empty, doorbell_pending, write_dropped>>
producerStats == <<samples, overruns, log_write_drops, timeouts>>
producerVars == <<ppc, producerLocals, producerStats>>
batchVars == <<batch, batch_count, batch_num>>
drainState == <<received, last_seq, lost>>
consumerVars == <<cpc, msg, backlog_pending, drain_paused, batchVars, drainState,
                  log_lock_timeouts, queue_depth_peak, shown>>
uiVars == <<upc, keys>>

vars == <<storage, head, tail, overwritten, fill_high_water, has_newest,
          ticks, notified, log_mutex, consumer_q,
          ppc, seq, pending_ticks, log_was_empty, doorbell_pending, write_dropped,
          samples, overruns, log_write_drops, timeouts,
          cpc, msg, backlog_pending, drain_paused, batch, batch_count, batch_num,
          received, last_seq, lost, log_lock_timeouts, queue_depth_peak, shown,
          upc, keys>>

Init ==
  /\ ring_buffer_init
  /\ ticks = 0 /\ notified = 0 /\ log_mutex = NoTask /\ consumer_q = <<>>
  /\ ppc = "wait" /\ seq = 0 /\ pending_ticks = 0
  /\ log_was_empty = FALSE /\ doorbell_pending = FALSE /\ write_dropped = FALSE
  /\ samples = 0 /\ overruns = 0 /\ log_write_drops = 0 /\ timeouts = 0
  /\ cpc = "recv" /\ msg = "OTHER" /\ backlog_pending = FALSE /\ drain_paused = FALSE
  /\ batch = <<>> /\ batch_count = 0 /\ batch_num = 0
  /\ received = 0 /\ last_seq = 0 /\ lost = 0
  /\ log_lock_timeouts = 0 /\ queue_depth_peak = 0 /\ shown = 0
  /\ upc = "scan" /\ keys = 0

-----------------------------------------------------------------------------
(* The scheduler: fixed priorities, a task runs only while no task of a    *)
(* higher priority is ready, and the holder of the mutex inherits the      *)
(* priority of whoever waits for it.                                       *)

AtLock(t) == \/ t = "producer" /\ ppc = "lock"
             \/ t = "consumer" /\ cpc \in {"lock", "lookLock"}

Waits(t) == AtLock(t) /\ log_mutex # NoTask

\* mutant: a binary semaphore, whose holder inherits nothing
NoInheritance(t) == Prio[t]

\* mutant: the consumer's priority is as high as the producer's
AllAlike(t) == Prio["producer"]

EffectivePrio(t) ==
  IF log_mutex = t /\ \E u \in Task : Waits(u) /\ Prio[u] > Prio[t]
  THEN CHOOSE p \in {Prio[u] : u \in {w \in Task : Waits(w)}} :
         \A u \in Task : Waits(u) => Prio[u] <= p
  ELSE Prio[t]

Ready(t) ==
  /\ ~Waits(t)
  /\ t = "producer" => ~(ppc = "wait" /\ notified = 0)
  /\ t = "consumer" => ~(cpc = "recv" /\ ~backlog_pending /\ consumer_q = <<>>)
  /\ t = "ui" => upc = "send"

CanRun(t) == \A u \in Task \ {t} : Ready(u) => EffectivePrio(u) <= EffectivePrio(t)

-----------------------------------------------------------------------------
(* sensor_log_lock, sensor_log_unlock and task_consumer_send, as the       *)
(* kernel calls they make.                                                 *)

\* mutant: the result of xSemaphoreTake is not waited for
LockWithoutWaiting(t) == log_mutex' = t

sensor_log_lock(t) == log_mutex = NoTask /\ log_mutex' = t

\* the wait for the mutex ran out while somebody else held it
sensor_log_lock_fails(t) == Waits(t) /\ UNCHANGED log_mutex

\* mutant: returns without giving the mutex back
ForgetUnlock == UNCHANGED log_mutex

sensor_log_unlock == log_mutex' = NoTask

QueueFull == Len(consumer_q) = QueueLen

\* zero wait: sent, or refused because the queue is full
task_consumer_send(m) ==
  consumer_q' = IF QueueFull THEN consumer_q ELSE Append(consumer_q, m)

-----------------------------------------------------------------------------
(* producer_timer_tick_cb, in interrupt context.                           *)
TimerTick ==
  /\ ticks < MaxTicks
  /\ ticks' = ticks + 1
  /\ notified' = (notified + 1) % Wrap
  /\ UNCHANGED <<rbVars, log_mutex, consumer_q, producerVars, consumerVars, uiVars>>

-----------------------------------------------------------------------------
(* producer_task                                                           *)

\* ulTaskNotifyTake returns the ticks since the last sample; take a sample
NotifyTake ==
  /\ ppc = "wait" /\ notified > 0
  /\ pending_ticks' = notified
  /\ notified' = 0
  /\ seq' = (seq + 1) % Wrap
  /\ ppc' = "lock"
  /\ UNCHANGED <<rbVars, ticks, log_mutex, consumer_q, log_was_empty, doorbell_pending,
                 write_dropped, producerStats, consumerVars, uiVars>>

\* ulTaskNotifyTake returns 0 after APP_SAMPLE_TIMEOUT_MS
NotifyTimeout ==
  /\ ppc = "wait" /\ notified = 0
  /\ timeouts < MaxTimeouts
  /\ timeouts' = timeouts + 1
  /\ pending_ticks' = 0
  /\ UNCHANGED <<rbVars, kernelVars, ppc, seq, log_was_empty, doorbell_pending,
                 write_dropped, samples, overruns, log_write_drops, consumerVars, uiVars>>

WriteLock ==
  /\ ppc = "lock"
  /\ sensor_log_lock("producer")
  /\ ppc' = "test"
  /\ UNCHANGED <<rbVars, ticks, notified, consumer_q, producerLocals, producerStats,
                 consumerVars, uiVars>>

\* not locked within APP_LOG_WRITE_WAIT_MS: the sample is dropped
WriteLockTimeout ==
  /\ ppc = "lock"
  /\ sensor_log_lock_fails("producer")
  /\ write_dropped' = TRUE
  /\ ppc' = "stats"
  /\ UNCHANGED <<rbVars, ticks, notified, consumer_q, seq, pending_ticks, log_was_empty,
                 doorbell_pending, producerStats, consumerVars, uiVars>>

WriteTestEmpty ==
  /\ ppc = "test"
  /\ log_was_empty' = (ring_buffer_count = 0)
  /\ ppc' = "push"
  /\ UNCHANGED <<rbVars, kernelVars, seq, pending_ticks, doorbell_pending, write_dropped,
                 producerStats, consumerVars, uiVars>>

WritePush ==
  /\ ppc = "push"
  /\ ring_buffer_push(seq)
  /\ ppc' = "unlock"
  /\ UNCHANGED <<kernelVars, producerLocals, producerStats, consumerVars, uiVars>>

\* sensor_log_write returns; the producer decides whether to ring
WriteUnlock ==
  /\ ppc = "unlock"
  /\ sensor_log_unlock
  /\ write_dropped' = FALSE
  /\ ppc' = IF log_was_empty \/ doorbell_pending THEN "ring" ELSE "stats"
  /\ UNCHANGED <<rbVars, ticks, notified, consumer_q, seq, pending_ticks, log_was_empty,
                 doorbell_pending, producerStats, consumerVars, uiVars>>

RingDoorbell ==
  /\ ppc = "ring"
  /\ task_consumer_send("DATA_READY")
  /\ doorbell_pending' = QueueFull
  /\ ppc' = "stats"
  /\ UNCHANGED <<rbVars, ticks, notified, log_mutex, seq, pending_ticks, log_was_empty,
                 write_dropped, producerStats, consumerVars, uiVars>>

missed_ticks == pending_ticks - 1

drop == IF write_dropped THEN 1 ELSE 0

producer_update_stats ==
  /\ ppc = "stats"
  /\ samples' = (samples + 1) % Wrap
  /\ overruns' = (overruns + missed_ticks) % Wrap
  /\ log_write_drops' = (log_write_drops + drop) % Wrap
  /\ ppc' = "wait"
  /\ UNCHANGED <<rbVars, kernelVars, producerLocals, timeouts, consumerVars, uiVars>>

ProducerStep ==
  \/ NotifyTake \/ WriteLock \/ WriteTestEmpty \/ WritePush \/ WriteUnlock
  \/ RingDoorbell \/ producer_update_stats

ProducerTimeout == NotifyTimeout \/ WriteLockTimeout

-----------------------------------------------------------------------------
(* consumer_task: its queue                                                *)

\* xQueueReceive returns a message
QueueReceive ==
  /\ cpc = "recv" /\ consumer_q # <<>>
  /\ msg' = Head(consumer_q)
  /\ consumer_q' = Tail(consumer_q)
  /\ cpc' = "depth"
  /\ UNCHANGED <<rbVars, ticks, notified, log_mutex, producerVars, backlog_pending,
                 drain_paused, batchVars, drainState, log_lock_timeouts,
                 queue_depth_peak, shown, uiVars>>

\* with a backlog the wait is zero: nothing there, go on draining
QueueGlance ==
  /\ cpc = "recv" /\ consumer_q = <<>> /\ backlog_pending
  /\ cpc' = "drain"
  /\ UNCHANGED <<rbVars, kernelVars, producerVars, msg, backlog_pending, drain_paused,
                 batchVars, drainState, log_lock_timeouts, queue_depth_peak, shown, uiVars>>

\* nothing came within APP_CONSUMER_POLL_MS
QueuePollTimeout ==
  /\ cpc = "recv" /\ consumer_q = <<>> /\ ~backlog_pending
  /\ cpc' = "drain"
  /\ UNCHANGED <<rbVars, kernelVars, producerVars, msg, backlog_pending, drain_paused,
                 batchVars, drainState, log_lock_timeouts, queue_depth_peak, shown, uiVars>>

\* a kernel call after the receive, so the queue may have changed in between
NoteQueueDepth ==
  /\ cpc = "depth"
  /\ LET queue_depth == Len(consumer_q) + 1 IN
       queue_depth_peak' = IF queue_depth > queue_depth_peak
                           THEN queue_depth ELSE queue_depth_peak
  /\ cpc' = "handle"
  /\ UNCHANGED <<rbVars, kernelVars, producerVars, msg, backlog_pending, drain_paused,
                 batchVars, drainState, log_lock_timeouts, shown, uiVars>>

consumer_handle_msg ==
  /\ cpc = "handle"
  /\ \/ /\ msg = "PAUSE_TOGGLE"
        /\ drain_paused' = ~drain_paused
        /\ cpc' = "drain"
     \/ /\ msg = "REPORT"
        /\ drain_paused' = drain_paused
        /\ cpc' = "lookLock"
     \/ /\ msg = "STATS"
        /\ drain_paused' = drain_paused
        /\ cpc' = "count"
     \/ /\ msg \in {"DATA_READY", "OTHER"}
        /\ drain_paused' = drain_paused
        /\ cpc' = "drain"
  /\ UNCHANGED <<rbVars, kernelVars, producerVars, msg, backlog_pending,
                 batchVars, drainState, log_lock_timeouts, queue_depth_peak, shown, uiVars>>

\* consumer_print_stats begins with task_producer_get_stats: samples, less the drops
CountWrites ==
  /\ cpc = "count"
  /\ shown' = (samples - log_write_drops) % Wrap
  /\ cpc' = "lookLock"
  /\ UNCHANGED <<rbVars, kernelVars, producerVars, msg, backlog_pending, drain_paused,
                 batchVars, drainState, log_lock_timeouts, queue_depth_peak, uiVars>>

LookLock ==
  /\ cpc = "lookLock"
  /\ sensor_log_lock("consumer")
  /\ cpc' = "look"
  /\ UNCHANGED <<rbVars, ticks, notified, consumer_q, producerVars, msg, backlog_pending,
                 drain_paused, batchVars, drainState, log_lock_timeouts,
                 queue_depth_peak, shown, uiVars>>

LookLockTimeout ==
  /\ cpc = "lookLock"
  /\ sensor_log_lock_fails("consumer")
  /\ shown' = 0
  /\ cpc' = "drain"
  /\ UNCHANGED <<rbVars, ticks, notified, consumer_q, producerVars, msg, backlog_pending,
                 drain_paused, batchVars, drainState, log_lock_timeouts,
                 queue_depth_peak, uiVars>>

\* sensor_log_peek_newest or sensor_log_get_stats, up to its unlock. PRINT_NEWEST ends here
Look ==
  /\ cpc = "look"
  /\ sensor_log_unlock
  /\ \/ /\ msg = "REPORT" /\ has_newest
        /\ shown' = ring_buffer_peek_newest[1]
        /\ cpc' = "report"
     \/ /\ shown' = 0
        /\ cpc' = "drain"
  /\ UNCHANGED <<rbVars, ticks, notified, consumer_q, producerVars, msg, backlog_pending,
                 drain_paused, batchVars, drainState, log_lock_timeouts,
                 queue_depth_peak, uiVars>>

\* consumer_print_report: task_producer_get_stats comes after the record
PrintReport ==
  /\ cpc = "report"
  /\ shown' = 0
  /\ cpc' = "drain"
  /\ UNCHANGED <<rbVars, kernelVars, producerVars, msg, backlog_pending, drain_paused,
                 batchVars, drainState, log_lock_timeouts, queue_depth_peak, uiVars>>

-----------------------------------------------------------------------------
(* consumer_drain_log and consumer_process_record                          *)

DrainPaused ==
  /\ cpc = "drain" /\ drain_paused
  /\ backlog_pending' = FALSE
  /\ cpc' = "recv"
  /\ UNCHANGED <<rbVars, kernelVars, producerVars, msg, drain_paused, batchVars,
                 drainState, log_lock_timeouts, queue_depth_peak, shown, uiVars>>

DrainStart ==
  /\ cpc = "drain" /\ ~drain_paused
  /\ batch_num' = 0
  /\ cpc' = "lock"
  /\ UNCHANGED <<rbVars, kernelVars, producerVars, msg, backlog_pending, drain_paused,
                 batch, batch_count, drainState, log_lock_timeouts, queue_depth_peak,
                 shown, uiVars>>

ReadLock ==
  /\ cpc = "lock"
  /\ sensor_log_lock("consumer")
  /\ cpc' = "copy"
  /\ UNCHANGED <<rbVars, ticks, notified, consumer_q, producerVars, msg, backlog_pending,
                 drain_paused, batchVars, drainState, log_lock_timeouts,
                 queue_depth_peak, shown, uiVars>>

\* not locked within APP_LOG_READ_WAIT_MS: ask for another pass
ReadLockTimeout ==
  /\ cpc = "lock"
  /\ sensor_log_lock_fails("consumer")
  /\ log_lock_timeouts < MaxTimeouts
  /\ log_lock_timeouts' = log_lock_timeouts + 1
  /\ backlog_pending' = TRUE
  /\ cpc' = "recv"
  /\ UNCHANGED <<rbVars, ticks, notified, consumer_q, producerVars, msg, drain_paused,
                 batchVars, drainState, queue_depth_peak, shown, uiVars>>

\* ring_buffer_pop, first half: copy out
ReadCopy ==
  /\ cpc = "copy"
  /\ batch' = records_out(ReadBatch)
  /\ batch_count' = pop_count(ReadBatch)
  /\ cpc' = "release"
  /\ UNCHANGED <<rbVars, kernelVars, producerVars, msg, backlog_pending, drain_paused,
                 batch_num, drainState, log_lock_timeouts, queue_depth_peak, shown, uiVars>>

\* ring_buffer_pop, second half: move tail
ReadRelease ==
  /\ cpc = "release"
  /\ ReleaseOldest(batch_count)
  /\ cpc' = "unlock"
  /\ UNCHANGED <<kernelVars, producerVars, msg, backlog_pending, drain_paused, batchVars,
                 drainState, log_lock_timeouts, queue_depth_peak, shown, uiVars>>

ReadUnlock ==
  /\ cpc = "unlock"
  /\ sensor_log_unlock
  /\ cpc' = "process"
  /\ UNCHANGED <<rbVars, ticks, notified, consumer_q, producerVars, msg, backlog_pending,
                 drain_paused, batchVars, drainState, log_lock_timeouts,
                 queue_depth_peak, shown, uiVars>>

\* mutant: computed before received counts this record
LostBeforeReceived(record) == (record - received) % Wrap

lost_at(record) == (record - (received + 1)) % Wrap

consumer_process_record ==
  /\ cpc = "process" /\ batch # <<>>
  /\ received' = (received + 1) % Wrap
  /\ last_seq' = Head(batch)
  /\ lost' = lost_at(Head(batch))
  /\ batch' = Tail(batch)
  /\ UNCHANGED <<rbVars, kernelVars, producerVars, cpc, msg, backlog_pending, drain_paused,
                 batch_count, batch_num, log_lock_timeouts, queue_depth_peak, shown, uiVars>>

\* mutant: a full batch is taken for the last one
FullBatchToo == batch_count <= ReadBatch

ShortBatch == batch_count < ReadBatch

\* a short batch emptied the log; a full one asks for the next, up to the limit
DrainNext ==
  /\ cpc = "process" /\ batch = <<>>
  /\ \/ /\ ShortBatch
        /\ batch_num' = batch_num
        /\ cpc' = "recv" /\ backlog_pending' = FALSE
     \/ /\ ~ShortBatch
        /\ batch_num' = batch_num + 1 /\ batch_num' < DrainBatchesMax
        /\ cpc' = "lock" /\ backlog_pending' = backlog_pending
     \/ /\ ~ShortBatch
        /\ batch_num' = batch_num + 1 /\ batch_num' = DrainBatchesMax
        /\ cpc' = "recv" /\ backlog_pending' = TRUE
  /\ UNCHANGED <<rbVars, kernelVars, producerVars, msg, drain_paused, batch, batch_count,
                 drainState, log_lock_timeouts, queue_depth_peak, shown, uiVars>>

ConsumerStep ==
  \/ QueueReceive \/ QueueGlance \/ NoteQueueDepth \/ consumer_handle_msg
  \/ CountWrites \/ LookLock \/ Look \/ PrintReport
  \/ DrainPaused \/ DrainStart \/ ReadLock \/ ReadCopy \/ ReadRelease \/ ReadUnlock
  \/ consumer_process_record \/ DrainNext

ConsumerTimeout == QueuePollTimeout \/ LookLockTimeout \/ ReadLockTimeout

-----------------------------------------------------------------------------
(* ui_task: the scan that finds a press or a character, and ui_send for    *)
(* the command it stands for. A scan that finds several is several scans   *)
(* in a row.                                                               *)

UiScan ==
  /\ upc = "scan" /\ keys < MaxKeys
  /\ keys' = keys + 1
  /\ upc' = "send"
  /\ UNCHANGED <<rbVars, kernelVars, producerVars, consumerVars>>

ui_send(command) ==
  /\ upc = "send"
  /\ task_consumer_send(command)
  /\ upc' = "scan"
  /\ UNCHANGED <<rbVars, ticks, notified, log_mutex, producerVars, consumerVars, keys>>

UiStep == \E command \in Command : ui_send(command)

-----------------------------------------------------------------------------
Next ==
  \/ TimerTick
  \/ UiScan
  \/ CanRun("producer") /\ (ProducerStep \/ ProducerTimeout)
  \/ CanRun("consumer") /\ (ConsumerStep \/ ConsumerTimeout)
  \/ CanRun("ui") /\ UiStep

Spec == Init /\ [][Next]_vars

(* The scheduler runs a task that is ready and has the highest priority.   *)
(* No timeout is assumed ever to end a wait, the consumer's poll included. *)
Fairness ==
  /\ WF_vars(CanRun("producer") /\ ProducerStep)
  /\ WF_vars(CanRun("consumer") /\ ConsumerStep)
  /\ WF_vars(CanRun("ui") /\ UiStep)

FairSpec == Spec /\ Fairness

-----------------------------------------------------------------------------
PPc == {"wait", "lock", "test", "push", "unlock", "ring", "stats"}
CPc == {"recv", "depth", "handle", "count", "lookLock", "look", "report", "drain", "lock",
        "copy", "release", "unlock", "process"}

KernelTypeOK ==
  /\ ticks \in 0 .. MaxTicks
  /\ notified \in Uint32
  /\ log_mutex \in Task \cup {NoTask}
  /\ consumer_q \in Seq(Message) /\ Len(consumer_q) <= QueueLen

ProducerTypeOK ==
  /\ ppc \in PPc
  /\ seq \in Uint32 /\ pending_ticks \in Uint32
  /\ log_was_empty \in BOOLEAN /\ doorbell_pending \in BOOLEAN /\ write_dropped \in BOOLEAN
  /\ samples \in Uint32 /\ overruns \in Uint32 /\ log_write_drops \in Uint32
  /\ timeouts \in 0 .. MaxTimeouts

ConsumerTypeOK ==
  /\ cpc \in CPc
  /\ msg \in Message
  /\ backlog_pending \in BOOLEAN /\ drain_paused \in BOOLEAN
  /\ batch \in Seq(Record) /\ Len(batch) <= batch_count
  /\ batch_count \in 0 .. ReadBatch
  /\ batch_num \in 0 .. DrainBatchesMax
  /\ received \in Uint32 /\ last_seq \in Uint32 /\ lost \in Uint32
  /\ log_lock_timeouts \in 0 .. MaxTimeouts
  /\ queue_depth_peak \in 0 .. QueueLen + 1
  /\ shown \in Uint32

UiTypeOK ==
  /\ upc \in {"scan", "send"}
  /\ keys \in 0 .. MaxKeys

FlowTypeOK == RBTypeOK /\ KernelTypeOK /\ ProducerTypeOK /\ ConsumerTypeOK /\ UiTypeOK

-----------------------------------------------------------------------------
(* No lost wake-up (docs/stage-3-ringbuffer-sync.md): when the consumer    *)
(* sleeps on an empty queue while the log holds records it would drain,    *)
(* the producer has written the first of them and is about to ring. The    *)
(* consumer's 250 ms poll is then really only a safety net.                *)
AboutToRing == ppc = "ring" \/ (ppc = "unlock" /\ log_was_empty)

Asleep == cpc = "recv" /\ ~backlog_pending /\ consumer_q = <<>>

NoLostWakeup == (Asleep /\ ~drain_paused /\ ring_buffer_count > 0) => AboutToRing

(* Each sample the producer numbered is in exactly one place: on its way   *)
(* into the log, in the log, overwritten there, dropped on a lock timeout, *)
(* in the consumer's batch, or received. Modulo the counters' width.       *)
Unwritten == IF ppc \in {"lock", "test", "push"} \/ (ppc = "stats" /\ write_dropped)
             THEN 1 ELSE 0
Unprocessed == IF cpc = "release" THEN <<>> ELSE batch
Taken == Len(Unprocessed)

SamplesAccounted ==
  seq = (Unwritten + ring_buffer_count + overwritten + log_write_drops + Taken + received)
        % Wrap

(* Records reach the consumer in the order they were taken, each at most   *)
(* once: what it received last, what its batch still holds and what the    *)
(* log holds have strictly increasing sequence numbers. Compared by age,   *)
(* because seq wraps; sound while fewer than Wrap samples are outstanding. *)
Age(n) == (seq - n) % Wrap
Outstanding == <<last_seq>> \o Unprocessed \o Contents

InOrder ==
  \A i \in 1 .. Len(Outstanding) - 1 : Age(Outstanding[i]) > Age(Outstanding[i + 1])

(* What a report calls the newest record is what arrives last: once the    *)
(* log is empty and the batch processed, the newest record of the log is   *)
(* the last one received, whatever was overwritten or dropped before.      *)
LastStoredArrives ==
  (has_newest /\ log_mutex = NoTask /\ ring_buffer_count = 0 /\ batch = <<>>)
    => ring_buffer_peek_newest = <<last_seq>>

(* Every timer interrupt ends up as a sample, as an overrun, or is still   *)
(* pending in the notification count: a tick that arrives while the        *)
(* producer is busy is reported, not lost. Modulo the counters' width.     *)
BeingSampled == IF ppc = "wait" THEN 0 ELSE pending_ticks

TicksAccounted == ticks % Wrap = (samples + overruns + notified + BeingSampled) % Wrap

(* From the interrupt to the consumer nothing is lost without being        *)
(* counted: every tick is a sample or a counted overrun, and every sample  *)
(* a received record or a counted loss, or still on its way.               *)
NothingUncounted == TicksAccounted /\ SamplesAccounted

(* lost never claims more than was overwritten or dropped: it may lag      *)
(* behind while the newest samples have not arrived, never run ahead.      *)
LossesReal == lost <= (overwritten + log_write_drops) % Wrap

(* What the log's statistics call written and read (sensor_log.h:50-51) is *)
(* what the producer has stored and the consumer taken out, although each  *)
(* task keeps its own books: every sample not dropped was written, every   *)
(* record read is in the consumer's batch or received.                     *)
LogStatsTrue ==
  /\ head = (seq - (Unwritten + log_write_drops)) % Wrap
  /\ records_read = (received + Taken) % Wrap

(* A report shows the newest record first and reads the producer's minimum *)
(* and maximum "over %lu samples" afterwards (task_consumer.c:186-192):    *)
(* the record shown is one of those samples, never a later one.            *)
ReportCovered == cpc = "report" => Age(samples) <= Age(shown)

(* The diagnostics read the producer's counts first and the log's last:    *)
(* what is received, overwritten or waiting covers all samples that were   *)
(* shown as taken and not dropped. No sample seems to be missing.          *)
DiagnosticsCover ==
  (cpc = "look" /\ msg = "STATS") =>
     Age((received + overwritten + ring_buffer_count) % Wrap) <= Age(shown)

(* The counts printed together agree, although they are read at different  *)
(* times and only some of them under the mutex.                            *)
PrintedCountsAgree == ReportCovered /\ DiagnosticsCover

(* With the priorities of app_config.h the consumer never gives up on the  *)
(* mutex: the producer is the only other holder, never blocks while it     *)
(* holds it, and keeps the consumer off the processor meanwhile.           *)
ReadsNeverTimeOut == log_lock_timeouts = 0

(* Bounded priority inversion: while the producer waits for the mutex, the *)
(* UI task does not run, although its priority is above the holder's.      *)
NoInversion == [][Waits("producer") => ~UiStep]_vars

(* Without relying on the poll timeout, records in the log are drained     *)
(* (or the user pauses draining): the doorbell and the drain loop's own    *)
(* retries suffice.                                                        *)
LogDrains == (ring_buffer_count > 0 /\ ~drain_paused) ~> (ring_buffer_count = 0 \/ drain_paused)

-----------------------------------------------------------------------------
(* The inductive invariant behind NoLostWakeup. The wake-up argument needs *)
(* that the mutex is held exactly in the critical sections, so that the    *)
(* emptiness the producer tested is still true when it pushes, and that a  *)
(* short batch meant an empty log when the consumer released the mutex.    *)

LockHeld ==
  /\ log_mutex = "producer" <=> ppc \in {"test", "push", "unlock"}
  /\ log_mutex = "consumer" <=> cpc \in {"look", "copy", "release", "unlock"}
  /\ log_mutex # "ui"

EmptinessStillTrue == ppc = "push" => (log_was_empty <=> ring_buffer_count = 0)

ShortBatchEmptiesLog ==
  /\ cpc = "release" => batch_count = pop_count(ReadBatch)
  /\ (cpc = "unlock" /\ ShortBatch) => ring_buffer_count = 0

(* From a short batch on, until the consumer looks at the log again, a     *)
(* record in the log has a doorbell: in the queue, or about to be rung.    *)
GoingToSleep ==
  \/ cpc = "process" /\ ShortBatch
  \/ cpc = "recv" /\ ~backlog_pending /\ ~drain_paused

DoorbellArmed ==
  (GoingToSleep /\ ring_buffer_count > 0) => (consumer_q # <<>> \/ AboutToRing)

(* Only slots that were written are ever read.                             *)
WrittenOnly == Contents \in Seq(Record) /\ ring_buffer_peek_newest \in Seq(Record)

FlowInv ==
  /\ FlowTypeOK
  /\ FillWithinCapacity
  /\ WrittenOnly
  /\ LockHeld
  /\ EmptinessStillTrue
  /\ ShortBatchEmptiesLog
  /\ DoorbellArmed

(* The inductive invariant behind the accounting. What was copied out is   *)
(* still the oldest part of the log when tail moves past it, a doorbell    *)
(* means a stored sample, and the newest record is the last one under way. *)

CopyStillTrue ==
  /\ cpc = "release" => batch = records_out(ReadBatch)
  /\ cpc \notin {"release", "unlock", "process"} => batch = <<>>

RungIfWritten == ppc = "ring" => ~write_dropped

NewestLast == has_newest => ring_buffer_peek_newest = <<Outstanding[Len(Outstanding)]>>

AccountInv ==
  /\ FlowInv
  /\ CopyStillTrue
  /\ RungIfWritten
  /\ LogStatsTrue
  /\ TicksAccounted
  /\ NewestLast

(* The inductive invariant behind the order, the losses and the counts     *)
(* printed together, until a counter wraps. The numbers under way rise and *)
(* none is further ahead of its place in the order of arrival than by the  *)
(* samples known to be lost.                                               *)
NothingWrapped == seq + notified <= ticks

ExactBooks ==
  seq = Unwritten + ring_buffer_count + overwritten + log_write_drops + Taken + received

Rising(numbers) ==
  \A i, j \in 1 .. Len(numbers) : i < j => numbers[i] < numbers[j]

GapsWithin(numbers, before, losses) ==
  \A i \in 1 .. Len(numbers) : numbers[i] - (before + i - 1) \in 0 .. losses

GapsAreLosses == GapsWithin(Outstanding, received, overwritten + log_write_drops)

LostIsGap == lost = last_seq - received

(* The sample in the producer's hands is the only one not yet counted.     *)
SamplesNumbered ==
  /\ seq = samples + (IF ppc = "wait" THEN 0 ELSE 1)
  /\ log_write_drops <= samples

WritesShown ==
  (cpc \in {"lookLock", "look"} /\ msg = "STATS") =>
     shown <= received + overwritten + ring_buffer_count

OrderInv ==
  /\ AccountInv
  /\ NothingWrapped
  /\ ExactBooks
  /\ Rising(Outstanding)
  /\ GapsAreLosses
  /\ LostIsGap
  /\ SamplesNumbered
  /\ WritesShown

(* With the priorities of app_config.h a report's record is counted, too.  *)
RecordShown == cpc = "report" => shown <= samples

CountsInv == OrderInv /\ RecordShown

-----------------------------------------------------------------------------
(* Seen from outside, the tasks, the mutex and the log are a stream of     *)
(* samples (SampleStream): whatever the interleaving and whatever wraps,   *)
(* every sample arrives in its turn or is given up at one of two places    *)
(* and counted there, and "lost" is what is missing before the last one.   *)
(* Under way are what the consumer has read, what the log holds and what   *)
(* the producer has not yet written, in this order.                        *)
InHand == IF Unwritten = 1 THEN <<seq>> ELSE <<>>
UnderWay == Unprocessed \o Contents \o InHand

Stream == INSTANCE SampleStream WITH
  Batch      <- ReadBatch,
  taken      <- seq,
  under_way  <- UnderWay,
  made_room  <- overwritten,
  not_stored <- log_write_drops,
  arrived    <- received,
  last       <- last_seq,
  missing    <- lost

ImplementsSampleStream == Stream!Spec

-----------------------------------------------------------------------------
(* queue_depth_peak is the "most messages seen waiting at once"            *)
(* (task_consumer.c:36), printed as "peak %lu / %u" next to the queue's    *)
(* length: it would not exceed it.                                         *)
QueuePeakWithinLength == queue_depth_peak <= QueueLen

(* "once the backlog is drained: lost == overwritten + drops"              *)
(* (task_consumer.c:329): the consumer asleep, the log empty, no message   *)
(* left and the producer waiting for its next tick.                        *)
BacklogDrained ==
  Asleep /\ ~drain_paused /\ ring_buffer_count = 0 /\ ppc = "wait" /\ notified = 0

LostMatchesWhenDrained ==
  BacklogDrained => lost = (overwritten + log_write_drops) % Wrap
=============================================================================
