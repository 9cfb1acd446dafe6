----------------------------- MODULE Conversions -----------------------------
(***************************************************************************)
(* The program's computations on numbers: a reading of the XADC and how it *)
(* is printed, decimal output, the time of the global timer, the setting   *)
(* of the SWDT, and the index mask of the ring buffer. Each function is an *)
(* operator on whole numbers that wraps where its C type does, and each    *)
(* action is one call: any of the chosen inputs, and its result.           *)
(***************************************************************************)
EXTENDS Integers, Sequences

CONSTANTS Wrap32, Wrap64,                   \* values of a uint32_t, a uint64_t
          FullScale,                        \* XADC_CODE_FULL_SCALE
          TempGain, TempOffset, SupplyScale, \* XADC_TEMP_GAIN_MILLI and so on
          CountsPerSec, UsecPerSec,         \* the global timer's clock, and microseconds
          ClockHz, Dividers,                \* the SWDT's clock and s_prescalers
          CrvMax, Block,                    \* WDT_CRV_MAX, 1 << WDT_CRV_SHIFT
          \* bounds: the inputs that are tried
          Millis, Values, Counts, Timeouts, Capacities

Int32 == -(Wrap32 \div 2) .. (Wrap32 \div 2) - 1
Uint32 == 0 .. Wrap32 - 1

ASSUME ConversionsAssumption ==
  /\ Wrap32 \in Nat /\ Wrap32 > 1000 /\ Wrap32 % 2 = 0 /\ Wrap64 \in Nat \ {0}
  /\ FullScale \in Nat \ {0}
  /\ TempGain \in Nat /\ TempOffset \in Nat /\ SupplyScale \in Nat
  /\ CountsPerSec \in Nat \ {0} /\ UsecPerSec \in 1 .. CountsPerSec
  /\ ClockHz \in Nat \ {0} /\ CrvMax \in Nat /\ Block \in Nat \ {0}
  /\ Dividers \in Seq(Nat \ {0})
  /\ Millis \subseteq Int32 /\ Values \subseteq Uint32 /\ Capacities \subseteq Uint32
  /\ Counts \subseteq 0 .. Wrap64 - 1 /\ Timeouts \subseteq Uint32

(* The widths suffice: "Worst case product is 4095 * 503975 = 2.06e9,      *)
(* inside uint32_t" (xadc_drv.c:32), the remainder in uptime_us "keeps the *)
(* multiply small", and the longest timeout of the SWDT is told in 32 bits.*)
ASSUME WidthAssumption ==
  /\ \A gain \in {TempGain, SupplyScale} :
       (FullScale - 1) * gain + FullScale \div 2 < Wrap32 \div 2
  /\ TempOffset < Wrap32 \div 2
  /\ CountsPerSec * UsecPerSec < Wrap64
  /\ \A i \in DOMAIN Dividers :
       ((CrvMax + 1) * Block * Dividers[i] * 1000) \div ClockHz < Wrap32

(* Wrap32 is a power of two. *)
ASSUME BinaryAssumption == \A d \in 2 .. Wrap32 : Wrap32 % d = 0 => d % 2 = 0

(* "one LSB is ~0.12 C" (task_consumer.c:54): a code is further from the   *)
(* next than roundings to a milli-degree and to ten of them can move both. *)
ASSUME ResolutionAssumption == 11 * FullScale < TempGain

VARIABLES fn,       \* the function called, or "none"
          arg,      \* what it was given
          result    \* what it returned, printed or programmed

vars == <<fn, arg, result>>

Nothing == <<>>

Init == fn = "none" /\ arg = Nothing /\ result = Nothing

Call(name, given, returned) ==
  /\ fn' = name /\ arg' = given /\ result' = returned

Return ==
  /\ fn # "none"
  /\ fn' = "none" /\ arg' = Nothing /\ result' = Nothing

-----------------------------------------------------------------------------
(* xadc_drv_code_to_milli                                                  *)

Kind == {"temperature", "supply"}
Gain == [kind \in Kind |-> IF kind = "temperature" THEN TempGain ELSE SupplyScale]
Offset == [kind \in Kind |-> IF kind = "temperature" THEN TempOffset ELSE 0]

\* mutant: the division cuts off
ScaledDown(code, gain) == ((code * gain) % Wrap32) \div FullScale

Scaled(code, gain) == ((code * gain + FullScale \div 2) % Wrap32) \div FullScale

xadc_drv_code_to_milli(kind, code) == Scaled(code, Gain[kind]) - Offset[kind]

-----------------------------------------------------------------------------
(* console_fmt_milli, and consumer_fmt_sensor which uses it. What is       *)
(* printed is the sign, the whole number and the fraction's digits.        *)

Pow10 == [k \in 0 .. 3 |-> <<1, 10, 100, 1000>>[k + 1]]

\* mutant: the negation overflows for the smallest number
NegatedPlainly(value) == IF -value \in Int32 THEN -value ELSE 0

Negated(value) == (-(value + 1) + 1) % Wrap32

Magnitude(value) == IF value < 0 THEN Negated(value) ELSE value

Sign(milli, magnitude) == IF milli < 0 /\ magnitude # 0 THEN "-" ELSE ""

console_fmt_milli(milli, decimals) ==
  LET digits == IF decimals > 3 THEN 3 ELSE decimals
      drop_divisor == Pow10[3 - digits]
      magnitude == ((Magnitude(milli) + drop_divisor \div 2) % Wrap32) \div drop_divisor
      frac_unit == Pow10[digits]
  IN [sign |-> Sign(milli, magnitude),
      whole |-> magnitude \div frac_unit, frac |-> magnitude % frac_unit, digits |-> digits]

FormatMilli ==
  \E milli \in Millis, decimals \in 0 .. 4 :
    Call("console_fmt_milli", <<milli, decimals>>, console_fmt_milli(milli, decimals))

Decimals == [kind \in Kind |-> IF kind = "temperature" THEN 2 ELSE 3]

consumer_fmt_sensor(kind, code) ==
  console_fmt_milli(xadc_drv_code_to_milli(kind, code), Decimals[kind])

FormatSensor ==
  \E kind \in Kind, code \in 0 .. FullScale - 1 :
    Call("consumer_fmt_sensor", <<kind, code>>, consumer_fmt_sensor(kind, code))

-----------------------------------------------------------------------------
(* console_write_dec, and the code that fault_halt prints with it.         *)

\* mutant: a loop that tests before it writes
DigitsWhileLeft[value \in Nat] ==
  IF value = 0 THEN <<>> ELSE Append(DigitsWhileLeft[value \div 10], value % 10)
DigitsOfNonzero(value) == DigitsWhileLeft[value]

DigitsOf[value \in Nat] ==
  IF value < 10 THEN <<value>> ELSE Append(DigitsOf[value \div 10], value % 10)

console_write_dec(value) == DigitsOf[value]

WriteDec ==
  \E value \in Values : Call("console_write_dec", <<value>>, console_write_dec(value))

WriteCode ==
  \E code \in Millis :
    Call("fault_halt", <<code>>,
         [sign |-> IF code < 0 THEN "-" ELSE "", digits |-> console_write_dec(Magnitude(code))])

-----------------------------------------------------------------------------
(* uptime_us and uptime_ms                                                 *)

\* mutant: multiplied before it is divided
MultipliedFirst(counts) == ((counts * UsecPerSec) % Wrap64) \div CountsPerSec

uptime_us(counts) ==
  LET whole_sec == counts \div CountsPerSec
      rem_counts == counts % CountsPerSec
  IN (whole_sec * UsecPerSec + ((rem_counts * UsecPerSec) % Wrap64) \div CountsPerSec) % Wrap64

uptime_ms(counts) == (uptime_us(counts) \div 1000) % Wrap32

ReadUptime ==
  \E counts \in Counts : Call("uptime", <<counts>>, <<uptime_us(counts), uptime_ms(counts)>>)

-----------------------------------------------------------------------------
(* wdt_drv_init: the first prescaler for which the counter reload value    *)
(* fits is used.                                                           *)

Crv(timeout_ms, idx) == ((timeout_ms * ClockHz) \div (1000 * Dividers[idx])) \div Block

\* mutant: the largest reload value is refused
BelowLargest(timeout_ms, idx) == Crv(timeout_ms, idx) < CrvMax

CrvFits(timeout_ms, idx) == Crv(timeout_ms, idx) <= CrvMax

timeout_told(crv, divider) == (((crv + 1) * Block * divider * 1000) \div ClockHz) % Wrap32

wdt_drv_init(timeout_ms) ==
  \/ \E idx \in DOMAIN Dividers :
       /\ timeout_ms # 0
       /\ CrvFits(timeout_ms, idx) /\ \A i \in 1 .. idx - 1 : ~CrvFits(timeout_ms, i)
       /\ LET crv == Crv(timeout_ms, idx) IN
            Call("wdt_drv_init", <<timeout_ms>>, <<idx, crv, timeout_told(crv, Dividers[idx])>>)
  \/ /\ timeout_ms = 0 \/ \A idx \in DOMAIN Dividers : ~CrvFits(timeout_ms, idx)
     /\ Call("wdt_drv_init", <<timeout_ms>>, Nothing)

SetTimeout == \E timeout_ms \in Timeouts : wdt_drv_init(timeout_ms)

-----------------------------------------------------------------------------
(* ring_buffer_init's test of the capacity, and the mask of every access.  *)

\* a & b
And[a \in Nat] ==
  [b \in Nat |-> IF a = 0 \/ b = 0 THEN 0 ELSE 2 * And[a \div 2][b \div 2] + (a % 2) * (b % 2)]

\* mutant: any even capacity
EvenCapacity(capacity) == capacity # 0 /\ capacity % 2 = 0 /\ capacity <= Wrap32 \div 2

AcceptedCapacity(capacity) ==
  capacity # 0 /\ And[capacity][capacity - 1] = 0 /\ capacity <= Wrap32 \div 2

ring_buffer_init(capacity) ==
  \/ /\ AcceptedCapacity(capacity)
     /\ \E counter \in Values :
          Call("ring_buffer_init", <<capacity, counter>>, <<And[counter][capacity - 1]>>)
  \/ /\ ~AcceptedCapacity(capacity)
     /\ Call("ring_buffer_init", <<capacity>>, Nothing)

InitRing == \E capacity \in Capacities : ring_buffer_init(capacity)

-----------------------------------------------------------------------------
Next ==
  \/ Return
  \/ fn = "none" /\ (FormatMilli \/ FormatSensor \/ WriteDec \/ WriteCode
                        \/ ReadUptime \/ SetTimeout \/ InitRing)

Spec == Init /\ [][Next]_vars

-----------------------------------------------------------------------------
\* the number a text shows, in units of its last digit
Shown(text) ==
  (IF text.sign = "-" THEN -1 ELSE 1) * (text.whole * Pow10[text.digits] + text.frac)

(* "rounded to nearest" (console.h:29): no number with so many digits is   *)
(* nearer, down to INT32_MIN, and zero is never printed with a sign.       *)
FmtNearest ==
  fn = "console_fmt_milli" =>
    LET unit == Pow10[3 - result.digits]
        error == Shown(result) * unit - arg[1]
    IN /\ -unit <= 2 * error /\ 2 * error <= unit
       /\ result.frac < Pow10[result.digits]
       /\ result.sign = "-" => Shown(result) # 0

(* A printed reading is the transfer function's value, within half a unit  *)
(* of what is printed and half a milli-unit of the conversion before it.   *)
ReadingsAccurate ==
  fn = "consumer_fmt_sensor" =>
    LET kind == arg[1]
        unit == Pow10[3 - result.digits]
        error == (Shown(result) * unit + Offset[kind]) * FullScale - arg[2] * Gain[kind]
        half == IF unit = 1 THEN 0 ELSE unit
    IN -(half + 1) * FullScale <= 2 * error /\ 2 * error <= (half + 1) * FullScale

(* What is printed of a number is as near to it as its decimals allow.     *)
PrintedAccurately == FmtNearest /\ ReadingsAccurate

(* "Temperatures to 2 decimals (one LSB is ~0.12 C)" (task_consumer.c:54): *)
(* the digits printed keep any two codes apart, and in order.              *)
TemperaturesDistinct ==
  (fn = "consumer_fmt_sensor" /\ arg[1] = "temperature") =>
    \A code \in 0 .. arg[2] - 1 :
      Shown(consumer_fmt_sensor("temperature", code)) < Shown(result)

(* A number is printed as its decimal digits, without a leading zero, a    *)
(* fault's code also if it is INT32_MIN.                                   *)
NumberOf(digits) ==
  LET upTo[n \in 0 .. Len(digits)] == IF n = 0 THEN 0 ELSE 10 * upTo[n - 1] + digits[n]
  IN upTo[Len(digits)]

NoLeadingZero(digits) == digits # <<>> /\ (Len(digits) > 1 => digits[1] # 0)

DigitsReadBack ==
  /\ fn = "console_write_dec" => NumberOf(result) = arg[1] /\ NoLeadingZero(result)
  /\ fn = "fault_halt" =>
       /\ NoLeadingZero(result.digits)
       /\ NumberOf(result.digits) = (IF result.sign = "-" THEN -arg[1] ELSE arg[1])

(* Printing loses nothing: from its text each value can be told again.     *)
TextsReadBack == TemperaturesDistinct /\ DigitsReadBack

(* The two divisions of uptime_us lose nothing: the result is the count in *)
(* microseconds, rounded down once, however long the board has been up.    *)
UptimeExact ==
  fn = "uptime" =>
    /\ result[1] * CountsPerSec <= arg[1] * UsecPerSec
    /\ arg[1] * UsecPerSec < (result[1] + 1) * CountsPerSec

(* The SWDT never fires earlier than asked, and at most one block of its   *)
(* counter later; the reload value fits its 12 bits; and the timeout told  *)
(* to the user is the one programmed, to the millisecond.                  *)
TimeoutCovers ==
  (fn = "wdt_drv_init" /\ result # Nothing) =>
    LET asked == arg[1] * ClockHz
        block == Block * Dividers[result[1]] * 1000
        programmed == (result[2] + 1) * block
    IN /\ result[2] \in 0 .. CrvMax
       /\ asked < programmed /\ programmed <= asked + block
       /\ result[3] * ClockHz <= programmed /\ programmed < (result[3] + 1) * ClockHz

(* "Smallest prescaler that still fits: finest timeout resolution"         *)
(* (wdt_drv.c:84): a finer one could not count as long as asked for, and   *)
(* only what none can count is refused.                                    *)
TooShort(idx, timeout_ms) == (CrvMax + 1) * Block * Dividers[idx] * 1000 <= timeout_ms * ClockHz

FinestPrescaler ==
  fn = "wdt_drv_init" =>
    \A idx \in DOMAIN Dividers :
      (result = Nothing \/ idx < result[1]) => arg[1] = 0 \/ TooShort(idx, arg[1])

(* The search of wdt_drv_init finds the right setting, or rightly none.    *)
TimeoutRight == TimeoutCovers /\ FinestPrescaler

(* What the ring buffer rests on (RBAssumption in RingBuffer): exactly the *)
(* capacities are accepted for which masking a counter is its remainder    *)
(* and the counters' wrap is a multiple of the capacity, twice at least.   *)
MaskIsRemainder ==
  fn = "ring_buffer_init" =>
    IF result # Nothing
    THEN /\ result[1] = arg[2] % arg[1]
         /\ Wrap32 % arg[1] = 0 /\ Wrap32 >= 2 * arg[1]
    ELSE arg[1] = 0 \/ Wrap32 % arg[1] # 0 \/ Wrap32 < 2 * arg[1]
=============================================================================
