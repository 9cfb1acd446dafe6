---------------------------- MODULE Stall_proofs ----------------------------
(***************************************************************************)
(* Proofs about Stall: the consumer's warning is true, comes once a stall  *)
(* and is never missing, for every period, every bound on the consumer's   *)
(* delays and every width of the tick and the sample counts.               *)
(***************************************************************************)
EXTENDS Stall, ModularArithmetic

(* What the proofs need of the constants.                                  *)
LEMMA StallConstants ==
  /\ StallTicks \in Nat \ {0} /\ LoopTicks \in Nat /\ ReadTicks \in Nat
  /\ ReadTicks <= LoopTicks
  /\ Wrap \in Nat \ {0} /\ StallTicks + LoopTicks < Wrap
  /\ SampleWrap \in Nat \ {0} /\ SampleWrap > 1
  /\ LongSilence \in Nat /\ LongSilence = StallTicks + LoopTicks + LoopTicks + ReadTicks
BY StallAssumption DEF LongSilence

(* Counting stops at LongSilence.                                          *)
LEMMA LongerType ==
  ASSUME NEW age \in 0 .. LongSilence
  PROVE  /\ Longer(age) \in 0 .. LongSilence
         /\ age < LongSilence => Longer(age) = age + 1
         /\ age <= Longer(age) /\ Longer(age) <= age + 1
BY StallConstants DEF Longer

(* The check measures the true age of the last progress, whatever wraps    *)
(* the tick count has made in between.                                     *)
LEMMA AgeMeasured ==
  ASSUME StallInv, cpc = "decide", ~stall_reported
  PROVE  /\ (now_tick - last_progress_tick) % Wrap = progress_age - elapsed
         /\ TooLong <=> progress_age - elapsed >= StallTicks
<1> DEFINE t == tick - elapsed
           p == tick - progress_age
           d == progress_age - elapsed
<1>1. /\ now_tick = t % Wrap /\ last_progress_tick = p % Wrap
      /\ t \in Int /\ p \in Int /\ t - p = d
      /\ d \in 0 .. Wrap - 1 /\ Wrap \in Nat \ {0}
  <2>1. {tick, elapsed, progress_age} \subseteq Int
    BY DEF StallInv, StallTypeOK
  <2>2. elapsed <= progress_age /\ progress_age - elapsed < StallTicks + LoopTicks
    BY DEF StallInv, TicksDated
  <2>3. now_tick = t % Wrap /\ last_progress_tick = p % Wrap
    BY DEF StallInv, TicksDated
  <2>4. t \in Int /\ p \in Int /\ t - p = d /\ d \in 0 .. Wrap - 1
    BY <2>1, <2>2, StallConstants
  <2>5. QED
    BY <2>3, <2>4, StallConstants
<1> HIDE DEF t, p, d
<1>2. ((t % Wrap) - (p % Wrap)) % Wrap = (t - p) % Wrap
  BY <1>1, DifferenceOfReadings
<1>3. d % Wrap = d
  BY <1>1, ModSmall
<1>4. (now_tick - last_progress_tick) % Wrap = d
  BY <1>1, <1>2, <1>3
<1>5. QED
  BY <1>4 DEF d, TooLong

(* The count has moved exactly if there are fresh samples.                 *)
LEMMA FreshMeansProgress ==
  ASSUME StallInv, cpc = "read"
  PROVE  /\ fresh > 0 <=> samples # last_producer_samples
         /\ samples = (samples + 0) % SampleWrap
<1> DEFINE x == last_producer_samples
           y == last_producer_samples + fresh
<1>1. /\ x \in 0 .. SampleWrap - 1 /\ y \in Int /\ samples = y % SampleWrap
      /\ samples \in 0 .. SampleWrap - 1 /\ SampleWrap \in Nat \ {0}
      /\ fresh \in Nat /\ y = x + fresh /\ fresh < SampleWrap
  BY StallConstants DEF StallInv, StallTypeOK, CountsDated
<1>2. x % SampleWrap = x /\ samples % SampleWrap = samples
  BY <1>1, ModSmall
<1>3. CASE fresh > 0
  <2>1. x < y /\ y < x + SampleWrap
    BY <1>1, <1>3
  <2>2. x \in Int /\ y \in Int
    BY <1>1
  <2> HIDE DEF x, y
  <2>3. x % SampleWrap # y % SampleWrap
    BY StallConstants, <2>1, <2>2, ModDistinct
  <2>4. QED
    BY <1>1, <1>2, <1>3, <2>3 DEF x
<1>4. CASE fresh = 0
  <2>1. y = x
    BY <1>1, <1>4
  <2>2. QED
    BY <1>1, <1>2, <1>4, <2>1
<1>5. QED
  BY <1>1, <1>3, <1>4

-----------------------------------------------------------------------------
(* StallInv is inductive: one lemma per action.                            *)

LEMMA StallInvInit == Init => StallInv
<1> SUFFICES ASSUME Init PROVE StallInv
  OBVIOUS
<1>1. 0 % SampleWrap = 0 /\ last_producer_samples + fresh = 0
  BY StallConstants, ModSmall DEF Init
<1>2. StallTypeOK
  <2>1. 0 \in 0 .. Wrap - 1 /\ 0 \in 0 .. SampleWrap - 1 /\ 0 \in 0 .. LongSilence
    BY StallConstants
  <2>2. QED
    BY <2>1 DEF Init, StallTypeOK
<1>3. ConsumerInTime /\ TicksDated /\ FreshSamplesRecent
  BY DEF Init, ConsumerInTime, TicksDated, FreshSamplesRecent
<1>4. CountsDated /\ SilenceDated /\ WarningsRemembered
  BY <1>1 DEF Init, CountsDated, SilenceDated, WarningsRemembered
<1>5. QED
  BY <1>2, <1>3, <1>4 DEF StallInv

LEMMA KernelTickKeeps ==
  ASSUME StallInv, KernelTick
  PROVE  StallInv'
<1> USE StallConstants
<1>1. /\ UNCHANGED <<samples, consumerVars, quiet, fresh, warned>>
      /\ tick' = (tick + 1) % Wrap
      /\ Progress' = Progress
  BY DEF KernelTick, consumerVars, Progress
<1>2. StallTypeOK'
  <2>1. tick' \in 0 .. Wrap - 1
    <3> DEFINE t == tick + 1
    <3>1. t \in Int
      BY DEF StallInv, StallTypeOK
    <3> HIDE DEF t
    <3>2. t % Wrap \in 0 .. Wrap - 1
      BY <3>1, ModRange
    <3>3. QED
      BY <1>1, <3>2 DEF t
  <2>2. {elapsed', progress_age', silence'} \subseteq 0 .. LongSilence
    BY LongerType DEF KernelTick, StallInv, StallTypeOK
  <2>3. QED
    BY <1>1, <2>1, <2>2 DEF StallInv, StallTypeOK, consumerVars
<1>3. /\ elapsed' \in Nat /\ elapsed \in Nat
      /\ cpc # "start" => elapsed' = elapsed + 1
      /\ cpc # "start" /\ ~stall_reported => progress_age' = progress_age + 1
      /\ progress_age <= progress_age' /\ progress_age' <= progress_age + 1
      /\ silence <= silence' /\ silence' <= silence + 1
      /\ silence < LongSilence => silence' = silence + 1
      /\ progress_age < LongSilence => progress_age' = progress_age + 1
      /\ silence <= elapsed => silence' <= elapsed'
  BY LongerType
     DEF KernelTick, StallInv, StallTypeOK, TimeMayPass, ConsumerInTime, TicksDated
<1>4. ConsumerInTime'
  BY <1>1, <1>3 DEF KernelTick, TimeMayPass, StallInv, ConsumerInTime, consumerVars
<1>5. TicksDated'
  <2>1. ASSUME NEW age \in Int PROVE (tick' - (age + 1)) % Wrap = (tick - age) % Wrap
    <3>1. tick \in Int /\ Wrap \in Nat \ {0}
      BY DEF StallInv, StallTypeOK
    <3>2. (((tick + 1) % Wrap) - (age + 1)) % Wrap = (tick - age) % Wrap
      BY <3>1, ReadingAges
    <3>3. QED
      BY <1>1, <3>2
  <2>2. (cpc # "start") => (tick' - elapsed') % Wrap = (tick - elapsed) % Wrap
    BY <1>3, <2>1
  <2>3. (cpc # "start" /\ ~stall_reported) =>
           (tick' - progress_age') % Wrap = (tick - progress_age) % Wrap
    BY <1>3, <2>1 DEF StallInv, StallTypeOK
  <2>4. cpc \in {"read", "decide"} => now_tick' = (tick' - elapsed') % Wrap
    BY <1>1, <2>2 DEF StallInv, TicksDated, consumerVars
  <2>5. (cpc # "start" /\ ~stall_reported) =>
           last_progress_tick' = (tick' - progress_age') % Wrap
    BY <1>1, <2>3 DEF StallInv, TicksDated, consumerVars
  <2>6. (cpc # "start" /\ ~stall_reported) =>
           /\ elapsed' <= progress_age'
           /\ progress_age' - elapsed' < StallTicks + (IF cpc = "loop" THEN 0 ELSE LoopTicks)
    BY <1>3 DEF StallInv, StallTypeOK, TicksDated
  <2>7. QED
    BY <1>1, <2>4, <2>5, <2>6 DEF TicksDated, consumerVars
<1>6. CountsDated'
  BY <1>1 DEF StallInv, CountsDated, consumerVars
<1>7. FreshSamplesRecent'
  <2>1. cpc # "start" => (silence <= elapsed + LoopTicks => silence' <= elapsed' + LoopTicks)
    <3>1. {silence, silence', elapsed, elapsed'} \subseteq 0 .. LongSilence
      BY <1>2 DEF StallInv, StallTypeOK
    <3>2. QED
      BY <1>3, <3>1
  <2>2. QED
    BY <1>1, <1>3, <2>1 DEF StallInv, StallTypeOK, FreshSamplesRecent, consumerVars
<1>8. SilenceDated'
  <2>1. /\ cpc' = cpc /\ fresh' = fresh /\ quiet' = quiet /\ stall_reported' = stall_reported
        /\ {silence, silence', progress_age, progress_age', elapsed, elapsed', quiet} \subseteq
              0 .. LongSilence
    BY <1>1, <1>2 DEF StallInv, StallTypeOK, consumerVars
  <2>2. progress_age <= silence + ReadTicks => progress_age' <= silence' + ReadTicks
    BY <1>3, <2>1
  <2>3. (cpc # "start" /\ ~stall_reported /\ silence <= progress_age + LoopTicks) =>
           silence' <= progress_age' + LoopTicks
    BY <1>3, <2>1
  <2>4. (cpc # "start" /\ progress_age - elapsed <= quiet + ReadTicks) =>
           progress_age' - elapsed' <= quiet' + ReadTicks
    BY <1>3, <2>1
  <2>5. (cpc # "start" /\ silence <= elapsed + LoopTicks) => silence' <= elapsed' + LoopTicks
    BY <1>3, <2>1
  <2>6. QED
    BY <1>1, <2>1, <2>2, <2>3, <2>4, <2>5 DEF StallInv, SilenceDated
<1>9. WarningsRemembered'
  BY <1>1 DEF StallInv, WarningsRemembered, consumerVars
<1>10. QED
  BY <1>2, <1>4, <1>5, <1>6, <1>7, <1>8, <1>9 DEF StallInv

LEMMA TakeSampleKeeps ==
  ASSUME StallInv, TakeSample
  PROVE  StallInv'
<1> USE StallConstants
<1>1. /\ UNCHANGED <<tick, consumerVars, elapsed, progress_age, quiet, warned>>
      /\ samples' = (samples + 1) % SampleWrap /\ silence' = 0
      /\ fresh \in Nat /\ fresh' = fresh + 1 /\ fresh' \in 0 .. SampleWrap - 1
      /\ Progress' = Progress
  BY DEF TakeSample, consumerVars, Progress, StallInv, StallTypeOK
<1>2. ASSUME NEW x \in Int, samples = (x + fresh) % SampleWrap
      PROVE  samples' = (x + fresh') % SampleWrap
  <2> DEFINE s == x + fresh
             one == 1
  <2>1. s \in Int /\ one \in Int /\ SampleWrap \in Nat \ {0}
    BY <1>1
  <2>2. samples' = ((s % SampleWrap) + one) % SampleWrap
    BY <1>1, <1>2
  <2>3. x + fresh' = s + one
    BY <1>1
  <2> HIDE DEF s, one
  <2>4. ((s % SampleWrap) + one) % SampleWrap = (s + one) % SampleWrap
    BY <2>1, ModAdd, Zenon
  <2>5. QED
    BY <2>2, <2>3, <2>4, Zenon
<1>3. StallTypeOK'
  <2>1. samples' \in 0 .. SampleWrap - 1
    <3> DEFINE s == samples + 1
    <3>1. s \in Int
      BY DEF StallInv, StallTypeOK
    <3> HIDE DEF s
    <3>2. s % SampleWrap \in 0 .. SampleWrap - 1
      BY <3>1, ModRange
    <3>3. QED
      BY <1>1, <3>2 DEF s
  <2>2. 0 \in 0 .. LongSilence
    OBVIOUS
  <2>3. QED
    BY <1>1, <2>1, <2>2 DEF StallInv, StallTypeOK, consumerVars
<1>4. ConsumerInTime' /\ TicksDated'
  BY <1>1 DEF StallInv, ConsumerInTime, TicksDated, consumerVars
<1>5. CountsDated'
  <2>1. producer_samples \in Int /\ last_producer_samples \in Int
    BY DEF StallInv, StallTypeOK
  <2>2. cpc = "decide" => samples' = (producer_samples + fresh') % SampleWrap
    BY <1>2, <2>1 DEF StallInv, CountsDated
  <2>3. cpc # "decide" => samples' = (last_producer_samples + fresh') % SampleWrap
    BY <1>2, <2>1 DEF StallInv, CountsDated
  <2>4. QED
    BY <1>1, <2>2, <2>3 DEF CountsDated, consumerVars
<1>6. FreshSamplesRecent'
  <2>1. elapsed \in Nat
    BY DEF StallInv, StallTypeOK
  <2>2. QED
    BY <1>1, <2>1 DEF FreshSamplesRecent, consumerVars
<1>7. SilenceDated'
  <2>1. fresh' # 0
    BY <1>1
  <2>2. QED
    BY <1>1, <2>1 DEF StallInv, SilenceDated, consumerVars
<1>8. WarningsRemembered'
  BY <1>1 DEF StallInv, WarningsRemembered, consumerVars
<1>9. QED
  BY <1>3, <1>4, <1>5, <1>6, <1>7, <1>8 DEF StallInv

LEMMA ConsumerStartsKeeps ==
  ASSUME StallInv, ConsumerStarts
  PROVE  StallInv'
<1>1. /\ cpc = "start" /\ cpc' = "loop" /\ last_progress_tick' = tick
      /\ elapsed' = 0 /\ progress_age' = 0 /\ silence' = 0
      /\ UNCHANGED <<tick, samples, now_tick, producer_samples, last_producer_samples,
                     stall_reported, quiet, fresh, warned>>
  BY DEF ConsumerStarts, ProgressFromHere
<1>2. StallTypeOK'
  <2>1. 0 \in 0 .. LongSilence
    BY StallConstants
  <2>2. QED
    BY <1>1, <2>1 DEF StallInv, StallTypeOK
<1>3. tick = (tick - 0) % Wrap
  <2>1. tick \in 0 .. Wrap - 1 /\ tick - 0 = tick
    BY DEF StallInv, StallTypeOK
  <2>2. QED
    BY <2>1, StallConstants, ModSmall
<1>4. ConsumerInTime' /\ TicksDated' /\ FreshSamplesRecent'
  BY <1>1, <1>3, StallConstants DEF ConsumerInTime, TicksDated, FreshSamplesRecent
<1>5. CountsDated' /\ WarningsRemembered'
  BY <1>1 DEF StallInv, CountsDated, WarningsRemembered
<1>6. SilenceDated'
  BY <1>1, StallConstants DEF SilenceDated
<1>7. QED
  BY <1>2, <1>4, <1>5, <1>6 DEF StallInv

LEMMA ReadTickKeeps ==
  ASSUME StallInv, ReadTick
  PROVE  StallInv'
<1>1. /\ cpc = "loop" /\ cpc' = "read" /\ now_tick' = tick /\ elapsed' = 0
      /\ UNCHANGED <<tick, samples, producer_samples, last_producer_samples, last_progress_tick,
                     stall_reported, progress_age, silence, quiet, fresh, warned>>
      /\ {elapsed, progress_age, silence, quiet} \subseteq Nat
  BY DEF ReadTick, StallInv, StallTypeOK
<1>2. StallTypeOK'
  <2>1. 0 \in 0 .. LongSilence
    BY StallConstants
  <2>2. QED
    BY <1>1, <2>1 DEF StallInv, StallTypeOK
<1>3. tick = (tick - 0) % Wrap
  <2>1. tick \in 0 .. Wrap - 1 /\ tick - 0 = tick
    BY DEF StallInv, StallTypeOK
  <2>2. QED
    BY <2>1, StallConstants, ModSmall
<1>4. ConsumerInTime'
  BY <1>1, StallConstants DEF ConsumerInTime
<1>5. elapsed <= LoopTicks
  BY <1>1 DEF StallInv, ConsumerInTime
<1>6. TicksDated'
  <2>1. ~stall_reported =>
          /\ last_progress_tick = (tick - progress_age) % Wrap
          /\ progress_age < StallTicks + LoopTicks
    <3>1. ~stall_reported => /\ last_progress_tick = (tick - progress_age) % Wrap
                             /\ progress_age - elapsed < StallTicks
      BY <1>1, StallConstants DEF StallInv, TicksDated
    <3>2. ~stall_reported => progress_age < StallTicks + LoopTicks
      <4>1. ~stall_reported => progress_age - elapsed < StallTicks
        BY <3>1
      <4>2. QED
        BY <1>1, <1>5, <4>1, StallConstants
    <3>3. QED
      BY <3>1, <3>2
  <2>2. ~stall_reported => progress_age - 0 < StallTicks + LoopTicks
    <3>1. ~stall_reported => progress_age < StallTicks + LoopTicks
      BY <2>1
    <3>2. QED
      BY <1>1, <3>1, StallConstants
  <2>3. QED
    BY <1>1, <1>3, <2>1, <2>2, StallConstants DEF TicksDated
<1>7. CountsDated' /\ WarningsRemembered'
  BY <1>1 DEF StallInv, CountsDated, WarningsRemembered
<1>8. FreshSamplesRecent'
  BY <1>1, <1>5, StallConstants DEF StallInv, FreshSamplesRecent
<1>9. SilenceDated'
  BY <1>1 DEF StallInv, SilenceDated
<1>10. QED
  BY <1>2, <1>4, <1>6, <1>7, <1>8, <1>9 DEF StallInv

LEMMA ReadCountKeeps ==
  ASSUME StallInv, task_producer_sample_count
  PROVE  StallInv'
<1>1. /\ cpc = "read" /\ cpc' = "decide" /\ producer_samples' = samples
      /\ quiet' = silence /\ fresh' = 0 /\ warned' = (warned /\ fresh = 0)
      /\ UNCHANGED <<tick, samples, now_tick, last_producer_samples, last_progress_tick,
                     stall_reported, elapsed, progress_age, silence>>
      /\ {elapsed, progress_age, silence} \subseteq Nat /\ fresh \in Nat
  BY DEF task_producer_sample_count, StallInv, StallTypeOK
<1>2. Progress' <=> fresh > 0
  BY <1>1, FreshMeansProgress DEF Progress
<1>3. StallTypeOK'
  <2>1. 0 \in 0 .. SampleWrap - 1
    BY StallConstants
  <2>2. QED
    BY <1>1, <2>1 DEF StallInv, StallTypeOK
<1>4. ConsumerInTime' /\ TicksDated'
  BY <1>1 DEF StallInv, ConsumerInTime, TicksDated
<1>5. CountsDated' /\ FreshSamplesRecent'
  BY <1>1, FreshMeansProgress DEF CountsDated, FreshSamplesRecent
<1>6. SilenceDated'
  <2>1. fresh = 0 => /\ progress_age <= silence + ReadTicks
                     /\ ~stall_reported => silence <= progress_age + LoopTicks
    BY <1>1 DEF StallInv, SilenceDated
  <2>2. fresh > 0 => silence <= elapsed + LoopTicks
    BY <1>1 DEF StallInv, FreshSamplesRecent
  <2>3. fresh = 0 => progress_age - elapsed <= silence + ReadTicks
    BY <1>1, <2>1, StallConstants
  <2>4. fresh = 0 \/ fresh > 0
    BY <1>1
  <2>5. QED
    BY <1>1, <1>2, <2>1, <2>2, <2>3, <2>4 DEF SilenceDated
<1>7. WarningsRemembered'
  <2>1. warned <=> stall_reported
    BY <1>1 DEF StallInv, WarningsRemembered
  <2>2. fresh = 0 \/ fresh > 0
    BY <1>1
  <2>3. warned' <=> (warned /\ fresh = 0)
    BY <1>1
  <2>4. fresh > 0 => fresh # 0
    BY <1>1
  <2>5. QED
    BY <1>1, <1>2, <2>1, <2>2, <2>3, <2>4, Zenon DEF WarningsRemembered
<1>8. QED
  BY <1>3, <1>4, <1>5, <1>6, <1>7 DEF StallInv

LEMMA DecideKeeps ==
  ASSUME StallInv, Decide
  PROVE  StallInv'
<1>1. /\ cpc = "decide" /\ cpc' = "loop"
      /\ UNCHANGED <<tick, samples, now_tick, producer_samples, elapsed, silence, quiet, fresh>>
      /\ {elapsed, progress_age, silence} \subseteq Nat /\ elapsed <= ReadTicks
  BY DEF Decide, StallInv, StallTypeOK, ConsumerInTime
<1>2. ConsumerInTime' /\ FreshSamplesRecent'
  BY <1>1, StallConstants DEF StallInv, ConsumerInTime, FreshSamplesRecent
<1>3. CASE NoteProgress
  <2>1. /\ last_producer_samples' = producer_samples /\ last_progress_tick' = now_tick
        /\ ~stall_reported' /\ stall_reported' \in BOOLEAN /\ progress_age' = elapsed
        /\ warned' = warned /\ Progress
    BY <1>3 DEF NoteProgress, ForgetStall
  <2>2. StallTypeOK'
    BY <1>1, <2>1 DEF StallInv, StallTypeOK
  <2>3. TicksDated' /\ CountsDated'
    BY <1>1, <2>1, StallConstants DEF StallInv, TicksDated, CountsDated
  <2>4. SilenceDated'
    BY <1>1, <2>1, StallConstants DEF StallInv, SilenceDated
  <2>5. WarningsRemembered'
    BY <1>1, <2>1, Zenon DEF StallInv, WarningsRemembered
  <2>6. QED
    BY <1>2, <2>2, <2>3, <2>4, <2>5 DEF StallInv
<1>4. CASE Warn
  <2>1. /\ stall_reported' = TRUE /\ warned' = TRUE /\ ~Progress
        /\ UNCHANGED <<last_producer_samples, last_progress_tick, progress_age>>
    BY <1>4 DEF Warn, Stalled
  <2>2. StallTypeOK'
    BY <1>1, <2>1 DEF StallInv, StallTypeOK
  <2>3. TicksDated' /\ CountsDated'
    BY <1>1, <2>1 DEF StallInv, TicksDated, CountsDated, Progress
  <2>4. SilenceDated'
    BY <1>1, <2>1 DEF StallInv, SilenceDated
  <2>5. WarningsRemembered'
    BY <1>1, <2>1 DEF WarningsRemembered
  <2>6. QED
    BY <1>2, <2>2, <2>3, <2>4, <2>5 DEF StallInv
<1>5. CASE NothingNew
  <2>1. /\ ~Progress /\ ~Stalled
        /\ UNCHANGED <<last_producer_samples, last_progress_tick, stall_reported, progress_age,
                       warned>>
    BY <1>5 DEF NothingNew
  <2>2. StallTypeOK'
    BY <1>1, <2>1 DEF StallInv, StallTypeOK
  <2>3. ~stall_reported => progress_age - elapsed < StallTicks
    BY <1>1, <2>1, AgeMeasured, StallConstants DEF Stalled
  <2>4. TicksDated' /\ CountsDated'
    BY <1>1, <2>1, <2>3, StallConstants DEF StallInv, TicksDated, CountsDated, Progress
  <2>5. SilenceDated'
    BY <1>1, <2>1 DEF StallInv, SilenceDated
  <2>6. WarningsRemembered'
    BY <1>1, <2>1, Zenon DEF StallInv, WarningsRemembered
  <2>7. QED
    BY <1>2, <2>2, <2>4, <2>5, <2>6 DEF StallInv
<1>6. QED
  BY <1>3, <1>4, <1>5 DEF Decide

LEMMA StutterKeeps ==
  ASSUME StallInv, UNCHANGED vars
  PROVE  StallInv'
<1>1. /\ StallTypeOK' /\ ConsumerInTime' /\ TicksDated' /\ CountsDated'
  BY DEF StallInv, vars, consumerVars, StallTypeOK, ConsumerInTime, TicksDated, CountsDated
<1>2. FreshSamplesRecent' /\ SilenceDated' /\ WarningsRemembered'
  BY DEF StallInv, vars, consumerVars, FreshSamplesRecent, SilenceDated, WarningsRemembered,
         Progress
<1>3. QED
  BY <1>1, <1>2 DEF StallInv

-----------------------------------------------------------------------------
(* What the consumer holds is as old as StallInv says, in every state.     *)
THEOREM StallInvariant == Spec => []StallInv
<1>1. StallInv /\ [Next]_vars => StallInv'
  BY KernelTickKeeps, TakeSampleKeeps, ConsumerStartsKeeps, ReadTickKeeps, ReadCountKeeps,
     DecideKeeps, StutterKeeps DEF Next
<1>2. QED
  BY <1>1, StallInvInit, PTL DEF Spec

(* A stall warning of the consumer is true, whenever the tick and the      *)
(* sample counts wrap, and between two warnings there was a sample.        *)
THEOREM NoFalseWarning == Spec => WarningsTrue
<1>1. StallInv /\ [Next]_vars => [Warn => SilentLongEnough /\ ~warned]_vars
  <2> SUFFICES ASSUME StallInv, Next, ~UNCHANGED vars, Warn
               PROVE  SilentLongEnough /\ ~warned
    OBVIOUS
  <2>1. ~Progress /\ ~stall_reported /\ stall_reported' = TRUE
    BY DEF Warn, Stalled
  <2>2. cpc = "decide"
    BY <2>1 DEF Next, KernelTick, TakeSample, ConsumerStarts, ReadTick,
       task_producer_sample_count, Decide, consumerVars
  <2>3. SilentLongEnough
    <3>1. progress_age - elapsed >= StallTicks
      BY <2>1, <2>2, AgeMeasured DEF Warn, Stalled
    <3>2. progress_age - elapsed <= quiet + ReadTicks
      BY <2>1, <2>2 DEF StallInv, SilenceDated
    <3>3. QED
      BY <3>1, <3>2, StallConstants DEF SilentLongEnough, StallInv, StallTypeOK
  <2>4. warned <=> stall_reported
    BY <2>1, Zenon DEF StallInv, WarningsRemembered
  <2>5. QED
    BY <2>1, <2>3, <2>4
<1>2. QED
  BY <1>1, StallInvariant, PTL DEF Spec, WarningsTrue

(* A stall is always reported, two passes of the consumer's loop after the *)
(* time it promises at the latest.                                         *)
THEOREM NoStallMissed == Spec => []StallsReported
<1>1. StallInv => StallsReported
  <2> SUFFICES ASSUME StallInv, cpc # "start", silence = LongSilence, ~warned PROVE FALSE
    BY DEF StallsReported
  <2>1. /\ {elapsed, progress_age} \subseteq Nat /\ fresh \in Nat
        /\ cpc \in {"loop", "read", "decide"}
        /\ cpc = "loop" => elapsed <= LoopTicks
        /\ cpc # "loop" => elapsed <= ReadTicks
    BY DEF StallInv, StallTypeOK, ConsumerInTime
  <2>2. fresh = 0
    BY <2>1, StallConstants DEF StallInv, FreshSamplesRecent
  <2>3. cpc = "decide" => ~Progress
    BY <2>1, <2>2, StallConstants DEF StallInv, SilenceDated
  <2>4. ~stall_reported
    BY <2>3, Zenon DEF StallInv, WarningsRemembered
  <2>5. silence <= progress_age + LoopTicks
    BY <2>2, <2>3, <2>4 DEF StallInv, SilenceDated
  <2>6. progress_age - elapsed < StallTicks + (IF cpc = "loop" THEN 0 ELSE LoopTicks)
    BY <2>4 DEF StallInv, TicksDated
  <2>7. QED
    BY <2>1, <2>5, <2>6, StallConstants
<1>2. QED
  BY <1>1, StallInvariant, PTL
=============================================================================
