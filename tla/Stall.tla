-------------------------------- MODULE Stall --------------------------------
(***************************************************************************)
(* The consumer's warning that the producer takes no samples any more:     *)
(* consumer_check_stall with the loop of consumer_task around it, and      *)
(* task_producer_sample_count. The check reads the tick count and then the *)
(* sample count, and the producer, which outranks the consumer, may take   *)
(* a sample at any point of it.                                            *)
(*                                                                         *)
(* When the producer takes samples is left open. Two bounds on time are    *)
(* assumed: the consumer comes back to the check within LoopTicks (if not, *)
(* the supervisor resets the board, see Watchdog), and it is kept from     *)
(* finishing a check for at most ReadTicks.                                *)
(***************************************************************************)
EXTENDS Integers

CONSTANTS StallTicks,   \* APP_STALL_WARN_MS, in ticks
          LoopTicks,    \* from one check to the next, at most
          ReadTicks,    \* from the first read of a check to its end, at most
          Wrap,         \* values of a TickType_t
          SampleWrap    \* values of the sample count

ASSUME StallAssumption ==
  /\ StallTicks \in Nat \ {0}
  /\ LoopTicks \in Nat /\ ReadTicks \in 0 .. LoopTicks
  /\ Wrap \in Nat /\ StallTicks + LoopTicks < Wrap
  /\ SampleWrap \in Nat \ {0, 1}

(* Histories of time count up to here.                                     *)
LongSilence == StallTicks + 2 * LoopTicks + ReadTicks

VARIABLES
  tick,           \* xTaskGetTickCount()
  samples,        \* the producer's s_stats.samples
  \* the consumer
  cpc, now_tick, producer_samples, last_producer_samples, last_progress_tick, stall_reported,
  \* history, true times which no width limits
  elapsed,        \* ticks since the consumer started or since it last read the tick count
  progress_age,   \* ticks since last_progress_tick was read from the clock
  silence,        \* ticks since the last sample, or since the consumer started
  quiet,          \* silence when the sample count was read
  fresh,          \* samples since then
  warned          \* a warning was given, and no sample came between it and that read

consumerVars == <<cpc, now_tick, producer_samples, last_producer_samples, last_progress_tick,
                  stall_reported>>
vars == <<tick, samples, cpc, now_tick, producer_samples, last_producer_samples,
          last_progress_tick, stall_reported, elapsed, progress_age, silence, quiet, fresh, warned>>

Init ==
  /\ tick = 0 /\ samples = 0
  /\ cpc = "start" /\ now_tick = 0 /\ producer_samples = 0 /\ last_producer_samples = 0
  /\ last_progress_tick = 0 /\ stall_reported = FALSE
  /\ elapsed = 0 /\ progress_age = 0 /\ silence = 0 /\ quiet = 0 /\ fresh = 0 /\ warned = FALSE

-----------------------------------------------------------------------------
Longer(age) == IF age < LongSilence THEN age + 1 ELSE age

TimeMayPass ==
  \/ cpc = "start"
  \/ cpc = "loop" /\ elapsed < LoopTicks
  \/ cpc \in {"read", "decide"} /\ elapsed < ReadTicks

KernelTick ==
  /\ TimeMayPass
  /\ tick' = (tick + 1) % Wrap
  /\ elapsed' = Longer(elapsed)
  /\ progress_age' = Longer(progress_age)
  /\ silence' = Longer(silence)
  /\ UNCHANGED <<samples, consumerVars, quiet, fresh, warned>>

(* producer_update_stats. The count does not come round between two reads. *)
TakeSample ==
  /\ fresh < SampleWrap - 1
  /\ samples' = (samples + 1) % SampleWrap
  /\ silence' = 0
  /\ fresh' = fresh + 1
  /\ UNCHANGED <<tick, consumerVars, elapsed, progress_age, quiet, warned>>

-----------------------------------------------------------------------------
(* consumer_task                                                           *)

\* mutant: the stall seems to have begun at tick 0
LeavesZero == UNCHANGED last_progress_tick

ProgressFromHere == last_progress_tick' = tick

ConsumerStarts ==
  /\ cpc = "start"
  /\ ProgressFromHere
  /\ cpc' = "loop"
  /\ elapsed' = 0 /\ progress_age' = 0 /\ silence' = 0
  /\ UNCHANGED <<tick, samples, now_tick, producer_samples, last_producer_samples,
                 stall_reported, quiet, fresh, warned>>

\* the rest of a pass is over
ReadTick ==
  /\ cpc = "loop"
  /\ now_tick' = tick
  /\ elapsed' = 0
  /\ cpc' = "read"
  /\ UNCHANGED <<tick, samples, producer_samples, last_producer_samples, last_progress_tick,
                 stall_reported, progress_age, silence, quiet, fresh, warned>>

task_producer_sample_count ==
  /\ cpc = "read"
  /\ producer_samples' = samples
  /\ cpc' = "decide"
  /\ quiet' = silence /\ fresh' = 0 /\ warned' = (warned /\ fresh = 0)
  /\ UNCHANGED <<tick, samples, now_tick, last_producer_samples, last_progress_tick,
                 stall_reported, elapsed, progress_age, silence>>

Progress == producer_samples # last_producer_samples

\* mutant: the difference is not taken modulo the width of a TickType_t
TooLongUnwrapped == now_tick - last_progress_tick >= StallTicks

TooLong == (now_tick - last_progress_tick) % Wrap >= StallTicks

ForgetStall == stall_reported' = FALSE

NoteProgress ==
  /\ Progress
  /\ last_producer_samples' = producer_samples
  /\ last_progress_tick' = now_tick
  /\ ForgetStall
  /\ progress_age' = elapsed
  /\ UNCHANGED warned

\* mutant: one warning per pass
WarnEachTime == ~Progress /\ TooLong

Stalled == ~Progress /\ ~stall_reported /\ TooLong

Warn ==
  /\ Stalled
  /\ stall_reported' = TRUE
  /\ warned' = TRUE
  /\ UNCHANGED <<last_producer_samples, last_progress_tick, progress_age>>

NothingNew ==
  /\ ~Progress /\ ~Stalled
  /\ UNCHANGED <<last_producer_samples, last_progress_tick, stall_reported, progress_age, warned>>

Decide ==
  /\ cpc = "decide"
  /\ NoteProgress \/ Warn \/ NothingNew
  /\ cpc' = "loop"
  /\ UNCHANGED <<tick, samples, now_tick, producer_samples, elapsed, silence, quiet, fresh>>

-----------------------------------------------------------------------------
Next ==
  \/ KernelTick \/ TakeSample
  \/ ConsumerStarts \/ ReadTick \/ task_producer_sample_count \/ Decide

Spec == Init /\ [][Next]_vars

-----------------------------------------------------------------------------
StallTypeOK ==
  /\ tick \in 0 .. Wrap - 1 /\ samples \in 0 .. SampleWrap - 1
  /\ cpc \in {"start", "loop", "read", "decide"}
  /\ now_tick \in 0 .. Wrap - 1 /\ last_progress_tick \in 0 .. Wrap - 1
  /\ producer_samples \in 0 .. SampleWrap - 1
  /\ last_producer_samples \in 0 .. SampleWrap - 1
  /\ stall_reported \in BOOLEAN
  /\ {elapsed, progress_age, silence, quiet} \subseteq 0 .. LongSilence
  /\ fresh \in 0 .. SampleWrap - 1
  /\ warned \in BOOLEAN

(* A warning is true: when the count it prints was read, the producer had  *)
(* taken no sample for as long as it says. But for ReadTicks: a sample     *)
(* taken between the two reads of an earlier check counts from the first.  *)
(* And it is "one warning per stall, not one per pass"                     *)
(* (task_consumer.c:31): between two warnings a sample was taken, and the  *)
(* second tells another count.                                             *)
SilentLongEnough == quiet + ReadTicks >= StallTicks

WarningsTrue == [][Warn => SilentLongEnough /\ ~warned]_vars

(* No stall goes unreported, also if the producer has never taken a sample *)
(* or stalls again right after it has resumed: the warning comes at most   *)
(* two passes of the loop late.                                            *)
StallsReported == (cpc # "start" /\ silence = LongSilence) => warned

-----------------------------------------------------------------------------
(* The inductive invariant behind these: how old what the consumer holds   *)
(* is, and what the count it has read tells of the silence.                *)

ConsumerInTime ==
  /\ cpc = "loop" => elapsed <= LoopTicks
  /\ cpc \in {"read", "decide"} => elapsed <= ReadTicks

TicksDated ==
  /\ cpc \in {"read", "decide"} => now_tick = (tick - elapsed) % Wrap
  /\ (cpc # "start" /\ ~stall_reported) =>
       /\ last_progress_tick = (tick - progress_age) % Wrap
       /\ elapsed <= progress_age
       /\ progress_age - elapsed < StallTicks + (IF cpc = "loop" THEN 0 ELSE LoopTicks)

CountsDated ==
  /\ cpc = "decide" => samples = (producer_samples + fresh) % SampleWrap
  /\ cpc # "decide" => samples = (last_producer_samples + fresh) % SampleWrap

\* fresh samples came after the tick count was last read, or after the read before
FreshSamplesRecent ==
  fresh > 0 => silence <= elapsed + (IF cpc = "read" THEN LoopTicks ELSE 0)

\* while the count has not moved, the silence began where the progress was dated
SilenceDated ==
  LET unmoved == (cpc = "decide" => ~Progress) /\ cpc # "start" IN
    /\ (unmoved /\ fresh = 0) => /\ progress_age <= silence + ReadTicks
                                 /\ ~stall_reported => silence <= progress_age + LoopTicks
    /\ (unmoved /\ cpc = "decide") =>
          progress_age - elapsed <= quiet + ReadTicks
    /\ (cpc = "decide" /\ Progress /\ fresh = 0) => silence <= elapsed + LoopTicks

WarningsRemembered ==
  /\ (cpc = "decide" => ~Progress) => (warned <=> stall_reported)
  /\ (cpc = "decide" /\ Progress) => ~warned

StallInv ==
  /\ StallTypeOK
  /\ ConsumerInTime
  /\ TicksDated
  /\ CountsDated
  /\ FreshSamplesRecent
  /\ SilenceDated
  /\ WarningsRemembered
=============================================================================
