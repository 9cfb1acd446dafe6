------------------------- MODULE Conversions_proofs -------------------------
(***************************************************************************)
(* Proofs about Conversions: the computations are exact, or as accurate as *)
(* they promise to be, for every input and every width, clock and scale    *)
(* that the assumptions admit. TLC tries chosen inputs of narrow types.    *)
(* What the recursive functions compute is proved from the equations they  *)
(* are defined by: these have a solution (Recursion), and induction, here  *)
(* about the set of the numbers for which a statement holds, does the rest.*)
(***************************************************************************)
EXTENDS Conversions, ModularArithmetic, WellFoundedInduction

(* Divisors are not zero, and there are negative numbers.                  *)
LEMMA NumbersOK ==
  /\ Wrap32 \in Nat \ {0} /\ Wrap32 > 1000 /\ Wrap64 \in Nat \ {0}
  /\ FullScale \in Nat \ {0} /\ TempGain \in Nat /\ SupplyScale \in Nat /\ TempOffset \in Nat
  /\ CountsPerSec \in Nat \ {0} /\ UsecPerSec \in Nat \ {0} /\ UsecPerSec <= CountsPerSec
  /\ ClockHz \in Nat \ {0} /\ CrvMax \in Nat /\ Block \in Nat \ {0}
  /\ Dividers \in Seq(Nat \ {0})
  /\ Millis \subseteq Int32 /\ Values \subseteq Uint32 /\ Capacities \subseteq Uint32
  /\ Counts \subseteq 0 .. Wrap64 - 1 /\ Timeouts \subseteq Uint32
BY ConversionsAssumption

(* Each call's name tells which action it was.                             *)
LEMMA WhichCall ==
  ASSUME [Next]_vars
  PROVE  /\ fn' = "console_fmt_milli" => FormatMilli \/ UNCHANGED vars
         /\ fn' = "consumer_fmt_sensor" => FormatSensor \/ UNCHANGED vars
         /\ fn' = "uptime" => ReadUptime \/ UNCHANGED vars
         /\ fn' = "wdt_drv_init" => SetTimeout \/ UNCHANGED vars
         /\ fn' = "console_write_dec" => WriteDec \/ UNCHANGED vars
         /\ fn' = "fault_halt" => WriteCode \/ UNCHANGED vars
         /\ fn' = "ring_buffer_init" => InitRing \/ UNCHANGED vars
BY DEF Next, Return, FormatMilli, FormatSensor, WriteDec, WriteCode, ReadUptime, SetTimeout,
       InitRing, wdt_drv_init, ring_buffer_init, Call

-----------------------------------------------------------------------------
(* Division, without the operators that SMT solvers are slow with.         *)

LEMMA Divided ==
  ASSUME NEW n \in Nat \ {0}, NEW x \in Nat
  PROVE  \E q \in Nat, r \in 0 .. n - 1 : q = x \div n /\ r = x % n /\ x = n * q + r
<1> DEFINE q == x \div n
           r == x % n
<1>1. x = n * q + r /\ q \in Int /\ r \in 0 .. n - 1
  BY ModDef, ModRange
<1>2. q \in Nat
  <2> HIDE DEF q, r
  <2>1. n * (q + 1) = n * q + n
    BY <1>1
  <2>2. n * (q + 1) > 0
    BY <1>1, <2>1
  <2>3. q + 1 > 0
    BY <1>1, <2>2
  <2>4. QED
    BY <1>1, <2>3
<1>3. QED
  BY <1>1, <1>2

(* A product is monotonic in a factor.                                     *)
LEMMA TimesMonotonic ==
  ASSUME NEW n \in Nat, NEW a \in Int, NEW b \in Int, a <= b
  PROVE  n * a <= n * b /\ a * n <= b * n
<1>1. n * (b - a) >= 0 /\ n * (b - a) = n * b - n * a
  OBVIOUS
<1>2. n * a = a * n /\ n * b = b * n /\ n * a \in Int /\ n * b \in Int
  OBVIOUS
<1>3. QED
  BY <1>1, <1>2

(* What is less in multiples of n is less.                                 *)
LEMMA TimesCancel ==
  ASSUME NEW n \in Nat \ {0}, NEW a \in Int, NEW b \in Int, n * a < n * b
  PROVE  a < b
<1>1. CASE b <= a
  BY <1>1, TimesMonotonic
<1>2. QED
  BY <1>1

-----------------------------------------------------------------------------
(* uptime_us rounds down once, and nothing overflows.                      *)
LEMMA UptimeRight ==
  ASSUME NEW counts \in 0 .. Wrap64 - 1
  PROVE  /\ uptime_us(counts) * CountsPerSec <= counts * UsecPerSec
         /\ counts * UsecPerSec < (uptime_us(counts) + 1) * CountsPerSec
<1> DEFINE C == CountsPerSec
           U == UsecPerSec
<1>1. C \in Nat \ {0} /\ U \in Nat \ {0} /\ U <= C /\ counts \in Nat /\ Wrap64 \in Nat \ {0}
  BY NumbersOK
<1>2. PICK q \in Nat, r \in 0 .. C - 1 :
        q = counts \div C /\ r = counts % C /\ counts = C * q + r
  BY <1>1, Divided
<1>3. r * U \in Nat
  BY <1>1
<1>4. PICK p \in Nat, s \in 0 .. C - 1 :
        p = (r * U) \div C /\ s = (r * U) % C /\ r * U = C * p + s
  BY <1>1, <1>3, Divided
<1> DEFINE u == q * U + p
<1>5. u \in Nat /\ q * U \in Nat
  BY <1>1
<1>6. (r * U) % Wrap64 = r * U
  <2>1. r * U <= C * U /\ C * U < Wrap64
    <3>1. r <= C
      BY <1>1
    <3>2. r * U <= C * U
      BY <1>1, <3>1, TimesMonotonic
    <3>3. QED
      BY <3>2, WidthAssumption
  <2>2. C * U \in Nat
    BY <1>1
  <2>3. r * U \in 0 .. Wrap64 - 1
    BY <1>1, <1>3, <2>1, <2>2
  <2>4. QED
    BY <1>1, <2>3, ModSmall
<1>7. u * C + s = counts * U
  <2>1. u * C = (q * U) * C + p * C
    BY <1>1, <1>5
  <2>2. counts * U = (C * q) * U + r * U
    BY <1>1, <1>2
  <2>3. (q * U) * C = (C * q) * U /\ p * C = C * p
    BY <1>1
  <2>4. (C * q) * U \in Nat /\ C * p \in Nat
    BY <1>1
  <2>5. QED
    BY <1>4, <2>1, <2>2, <2>3, <2>4
<1>8. u < Wrap64
  <2>1. counts * U <= counts * C /\ counts * U \in Nat /\ counts * C \in Nat /\ u * C \in Nat
    BY <1>1, <1>5, TimesMonotonic
  <2>2. u * C <= counts * C
    BY <1>7, <2>1
  <2>3. u <= counts
    <3>1. CASE counts < u
      <4>1. counts + 1 <= u /\ counts + 1 \in Int
        BY <1>1, <1>5, <3>1
      <4>2. (counts + 1) * C <= u * C
        BY <1>1, <1>5, <4>1, TimesMonotonic
      <4>3. (counts + 1) * C = counts * C + C
        BY <1>1
      <4>4. QED
        BY <1>1, <2>1, <2>2, <4>2, <4>3
    <3>2. QED
      BY <1>1, <1>5, <3>1
  <2>4. QED
    BY <1>1, <1>5, <2>3
<1>9. uptime_us(counts) = u
  <2>1. u % Wrap64 = u
    BY <1>1, <1>5, <1>8, ModSmall
  <2>2. uptime_us(counts) = (q * U + ((r * U) % Wrap64) \div C) % Wrap64
    BY <1>2 DEF uptime_us
  <2>3. QED
    BY <1>4, <1>6, <2>1, <2>2
<1>10. (u + 1) * C = u * C + C /\ u * C \in Nat
  BY <1>1, <1>5
<1>11. QED
  BY <1>1, <1>4, <1>7, <1>9, <1>10

(* The uptime is exact for any count of the global timer.                  *)
THEOREM UptimeIsExact == Spec => []UptimeExact
<1>1. Init => UptimeExact
  BY DEF Init, UptimeExact
<1>2. UptimeExact /\ [Next]_vars => UptimeExact'
  <2> SUFFICES ASSUME UptimeExact, [Next]_vars PROVE UptimeExact'
    OBVIOUS
  <2>1. CASE UNCHANGED vars
    BY <2>1 DEF UptimeExact, vars
  <2>2. CASE ReadUptime
    <3>1. PICK counts \in Counts :
            arg' = <<counts>> /\ result' = <<uptime_us(counts), uptime_ms(counts)>>
      BY <2>2 DEF ReadUptime, Call
    <3>2. arg'[1] = counts /\ result'[1] = uptime_us(counts)
      BY <3>1
    <3>3. counts \in 0 .. Wrap64 - 1
      BY NumbersOK
    <3>4. QED
      BY <3>2, <3>3, UptimeRight DEF UptimeExact
  <2>3. CASE fn' # "uptime"
    BY <2>3 DEF UptimeExact
  <2>4. QED
    BY <2>1, <2>2, <2>3, WhichCall
<1>3. QED
  BY <1>1, <1>2, PTL DEF Spec

-----------------------------------------------------------------------------
(* The reload value is the timeout in blocks of the counter, rounded down. *)
LEMMA CrvRoundsDown ==
  ASSUME NEW timeout_ms \in Nat, NEW idx \in DOMAIN Dividers
  PROVE  LET block == Block * Dividers[idx] * 1000
             crv == Crv(timeout_ms, idx)
         IN /\ crv \in Nat /\ block \in Nat \ {0} /\ Dividers[idx] \in Nat \ {0}
            /\ crv * block <= timeout_ms * ClockHz
            /\ timeout_ms * ClockHz < (crv + 1) * block
<1> DEFINE D == Dividers[idx]
           m == 1000 * D
           x == timeout_ms * ClockHz
           block == Block * D * 1000
<1>1. D \in Nat \ {0} /\ Block \in Nat \ {0} /\ ClockHz \in Nat \ {0}
  BY NumbersOK
<1> HIDE DEF D
<1>2. m \in Nat \ {0} /\ x \in Nat /\ block \in Nat \ {0} /\ block = m * Block
  <2>1. Block * D \in Nat \ {0}
    BY <1>1
  <2>2. QED
    BY <1>1, <2>1
<1> HIDE DEF m, x, block
<1>3. PICK a \in Nat, r \in 0 .. m - 1 : a = x \div m /\ r = x % m /\ x = m * a + r
  BY <1>2, Divided
<1>4. PICK b \in Nat, s \in 0 .. Block - 1 :
        b = a \div Block /\ s = a % Block /\ a = Block * b + s
  BY <1>1, Divided
<1>5. Crv(timeout_ms, idx) = b
  BY <1>3, <1>4 DEF Crv, D, m, x
<1>6. m * a = b * block + m * s
  <2>1. m * (Block * b + s) = (m * Block) * b + m * s
    BY <1>1, <1>2
  <2>2. (m * Block) * b = b * (m * Block)
    BY <1>1, <1>2
  <2>3. QED
    BY <1>2, <1>4, <2>1, <2>2
<1>7. 0 <= m * s /\ m * s + m <= block
  <2>1. m * (s + 1) <= m * Block
    BY <1>1, <1>2, TimesMonotonic
  <2>2. m * (s + 1) = m * s + m /\ m * s \in Nat
    BY <1>1, <1>2
  <2>3. QED
    BY <1>2, <2>1, <2>2
<1>8. b * block \in Nat /\ (b + 1) * block = b * block + block /\ m * s \in Nat
  BY <1>1, <1>2
<1>9. b * block <= x /\ x < (b + 1) * block
  BY <1>2, <1>3, <1>6, <1>7, <1>8
<1>10. QED
  BY <1>1, <1>2, <1>5, <1>9 DEF x, block, D

(* What a call of wdt_drv_init leaves behind.                              *)
LEMMA TimeoutSet ==
  ASSUME SetTimeout
  PROVE  \E timeout_ms \in Nat :
           /\ arg' = <<timeout_ms>>
           /\ \/ \E idx \in DOMAIN Dividers :
                   LET crv == Crv(timeout_ms, idx) IN
                   /\ CrvFits(timeout_ms, idx)
                   /\ \A i \in 1 .. idx - 1 : ~CrvFits(timeout_ms, i)
                   /\ result' = <<idx, crv, timeout_told(crv, Dividers[idx])>>
              \/ /\ timeout_ms = 0 \/ \A idx \in DOMAIN Dividers : ~CrvFits(timeout_ms, idx)
                 /\ result' = Nothing
<1>1. PICK timeout_ms \in Timeouts : wdt_drv_init(timeout_ms)
  BY DEF SetTimeout
<1>2. timeout_ms \in Nat
  BY NumbersOK DEF Uint32
<1>3. QED
  BY <1>1, <1>2 DEF wdt_drv_init, Call

(* What is told is what is programmed, to the millisecond: 32 bits hold it.*)
LEMMA ToldIsProgrammed ==
  ASSUME NEW idx \in DOMAIN Dividers, NEW crv \in 0 .. CrvMax
  PROVE  LET programmed == (crv + 1) * (Block * Dividers[idx] * 1000)
             told == timeout_told(crv, Dividers[idx])
         IN told * ClockHz <= programmed /\ programmed < (told + 1) * ClockHz
<1> DEFINE D == Dividers[idx]
           block == Block * D * 1000
           x == (crv + 1) * block
           y == (CrvMax + 1) * block
<1>1. D \in Nat \ {0} /\ Block \in Nat \ {0} /\ ClockHz \in Nat \ {0} /\ CrvMax \in Nat
  BY NumbersOK
<1>2. block \in Nat /\ x = (crv + 1) * Block * D * 1000 /\ y = (CrvMax + 1) * Block * D * 1000
  <2> HIDE DEF D
  <2>1. QED
    BY <1>1
<1>3. y \div ClockHz < Wrap32
  BY <1>2, WidthAssumption
<1>4. timeout_told(crv, Dividers[idx]) = (x \div ClockHz) % Wrap32
  BY <1>2 DEF timeout_told
<1> HIDE DEF D, block
<1>5. x \in Nat /\ y \in Nat /\ x <= y
  <2>1. crv + 1 <= CrvMax + 1
    BY <1>1
  <2>2. QED
    BY <1>1, <1>2, <2>1, TimesMonotonic
<1> HIDE DEF x, y
<1>6. PICK q \in Nat, r \in 0 .. ClockHz - 1 :
        q = x \div ClockHz /\ r = x % ClockHz /\ x = ClockHz * q + r
  BY <1>1, <1>5, Divided
<1>7. PICK p \in Nat, s \in 0 .. ClockHz - 1 :
        p = y \div ClockHz /\ s = y % ClockHz /\ y = ClockHz * p + s
  BY <1>1, <1>5, Divided
<1>8. q <= p
  <2>1. ClockHz * q < ClockHz * (p + 1)
    <3>1. ClockHz * (p + 1) = ClockHz * p + ClockHz /\ ClockHz * p \in Nat /\ ClockHz * q \in Nat
      BY <1>1
    <3>2. QED
      BY <1>1, <1>5, <1>6, <1>7, <3>1
  <2>2. q < p + 1
    BY <1>1, <2>1, TimesCancel
  <2>3. QED
    BY <2>2
<1>9. q % Wrap32 = q
  <2>1. q \in 0 .. Wrap32 - 1 /\ Wrap32 \in Nat \ {0}
    BY <1>3, <1>7, <1>8, NumbersOK
  <2>2. QED
    BY <2>1, ModSmall
<1>10. q * ClockHz <= x /\ x < (q + 1) * ClockHz
  <2>1. q * ClockHz = ClockHz * q /\ (q + 1) * ClockHz = ClockHz * q + ClockHz
        /\ ClockHz * q \in Nat
    BY <1>1
  <2>2. QED
    BY <1>1, <1>6, <2>1
<1>11. QED
  BY <1>4, <1>6, <1>9, <1>10 DEF x, block, D

(* The SWDT does not fire early, nor more than a block late, and the time  *)
(* shown is the time programmed.                                           *)
LEMMA TimeoutIsCovered == Spec => []TimeoutCovers
<1>1. Init => TimeoutCovers
  BY DEF Init, TimeoutCovers
<1>2. TimeoutCovers /\ [Next]_vars => TimeoutCovers'
  <2> SUFFICES ASSUME TimeoutCovers, [Next]_vars PROVE TimeoutCovers'
    OBVIOUS
  <2>1. CASE UNCHANGED vars
    BY <2>1 DEF TimeoutCovers, vars
  <2>2. CASE fn' # "wdt_drv_init" \/ result' = Nothing
    BY <2>2 DEF TimeoutCovers
  <2>3. CASE SetTimeout /\ result' # Nothing
    <3>1. PICK timeout_ms \in Nat, idx \in DOMAIN Dividers :
            LET crv == Crv(timeout_ms, idx) IN
            /\ arg' = <<timeout_ms>> /\ CrvFits(timeout_ms, idx)
            /\ result' = <<idx, crv, timeout_told(crv, Dividers[idx])>>
      BY <2>3, TimeoutSet
    <3> DEFINE crv == Crv(timeout_ms, idx)
               block == Block * Dividers[idx] * 1000
    <3>2. /\ arg'[1] = timeout_ms /\ result'[1] = idx /\ result'[2] = crv
          /\ result'[3] = timeout_told(crv, Dividers[idx])
      BY <3>1
    <3>3. /\ crv \in Nat /\ block \in Nat /\ timeout_ms * ClockHz \in Nat
          /\ crv * block <= timeout_ms * ClockHz
          /\ timeout_ms * ClockHz < (crv + 1) * block
      <4>1. timeout_ms * ClockHz \in Nat
        BY NumbersOK
      <4>2. /\ crv \in Nat /\ block \in Nat
            /\ crv * block <= timeout_ms * ClockHz
            /\ timeout_ms * ClockHz < (crv + 1) * block
        BY CrvRoundsDown
      <4>3. QED
        BY <4>1, <4>2
    <3>4. crv \in 0 .. CrvMax
      BY <3>1, <3>3, NumbersOK DEF CrvFits
    <3>5. LET programmed == (crv + 1) * block
          IN /\ result'[3] * ClockHz <= programmed
             /\ programmed < (result'[3] + 1) * ClockHz
      BY <3>2, <3>4, ToldIsProgrammed
    <3> HIDE DEF crv, block
    <3>6. (crv + 1) * block <= timeout_ms * ClockHz + block
      <4>1. (crv + 1) * block = crv * block + block /\ crv * block \in Nat
        BY <3>3
      <4>2. QED
        BY <3>3, <4>1
    <3>7. QED
      BY <3>2, <3>3, <3>4, <3>5, <3>6 DEF TimeoutCovers, block
  <2>4. QED
    BY <2>1, <2>2, <2>3, WhichCall
<1>3. QED
  BY <1>1, <1>2, PTL DEF Spec

(* A prescaler that is passed over could not have counted that long.       *)
LEMMA PassedOver ==
  ASSUME NEW timeout_ms \in Nat, NEW idx \in DOMAIN Dividers, ~CrvFits(timeout_ms, idx)
  PROVE  TooShort(idx, timeout_ms)
<1> DEFINE crv == Crv(timeout_ms, idx)
           block == Block * Dividers[idx] * 1000
<1>1. /\ crv \in Nat /\ block \in Nat /\ CrvMax \in Nat /\ timeout_ms * ClockHz \in Nat
      /\ crv * block <= timeout_ms * ClockHz
      /\ Dividers[idx] \in Nat /\ Block \in Nat
  BY CrvRoundsDown, NumbersOK
<1>2. CrvMax + 1 <= crv
  BY <1>1 DEF CrvFits
<1>3. (CrvMax + 1) * Block * Dividers[idx] * 1000 = (CrvMax + 1) * block
  BY <1>1
<1> HIDE DEF crv, block
<1>4. (CrvMax + 1) * block <= crv * block
  BY <1>1, <1>2, TimesMonotonic
<1>5. (CrvMax + 1) * block \in Nat /\ crv * block \in Nat
  BY <1>1
<1>6. QED
  BY <1>1, <1>3, <1>4, <1>5 DEF TooShort

(* The finest resolution that lasts long enough is used, and only what no  *)
(* setting can cover is refused.                                           *)
LEMMA PrescalerIsFinest == Spec => []FinestPrescaler
<1>1. Init => FinestPrescaler
  BY DEF Init, FinestPrescaler
<1>2. FinestPrescaler /\ [Next]_vars => FinestPrescaler'
  <2> SUFFICES ASSUME FinestPrescaler, [Next]_vars PROVE FinestPrescaler'
    OBVIOUS
  <2>1. CASE UNCHANGED vars
    BY <2>1 DEF FinestPrescaler, vars, TooShort
  <2>2. CASE fn' # "wdt_drv_init"
    BY <2>2 DEF FinestPrescaler
  <2>3. CASE SetTimeout
    <3> SUFFICES ASSUME NEW i \in DOMAIN Dividers, result' = Nothing \/ i < result'[1],
                        arg'[1] # 0
                 PROVE  TooShort(i, arg'[1])
      BY DEF FinestPrescaler, TooShort
    <3>1. PICK timeout_ms \in Nat :
            /\ arg' = <<timeout_ms>>
            /\ \/ \E idx \in DOMAIN Dividers :
                    /\ \A j \in 1 .. idx - 1 : ~CrvFits(timeout_ms, j)
                    /\ result' # Nothing /\ result'[1] = idx
               \/ timeout_ms = 0 \/ \A idx \in DOMAIN Dividers : ~CrvFits(timeout_ms, idx)
      BY <2>3, TimeoutSet DEF Nothing
    <3>2. arg'[1] = timeout_ms
      BY <3>1
    <3>3. ~CrvFits(timeout_ms, i)
      <4>1. DOMAIN Dividers = 1 .. Len(Dividers)
        BY NumbersOK
      <4>2. QED
        BY <3>1, <3>2, <4>1
    <3>4. QED
      BY <3>2, <3>3, PassedOver
  <2>4. QED
    BY <2>1, <2>2, <2>3, WhichCall
<1>3. QED
  BY <1>1, <1>2, PTL DEF Spec

(* Whatever timeout is asked for: it is covered as exactly as any of the   *)
(* prescalers can, or refused because none covers it.                      *)
THEOREM TimeoutIsRight == Spec => []TimeoutRight
BY TimeoutIsCovered, PrescalerIsFinest, PTL DEF TimeoutRight

-----------------------------------------------------------------------------
(* console_fmt_milli                                                       *)

\* half the values of an int32_t, the distance between the sensors' zeros
Half32 == Wrap32 \div 2

LEMMA HalfOK == Half32 \in Nat /\ 2 * Half32 = Wrap32 /\ Int32 = -Half32 .. Half32 - 1
<1>1. PICK q \in Nat, r \in 0 .. 1 : q = Wrap32 \div 2 /\ r = Wrap32 % 2 /\ Wrap32 = 2 * q + r
  <2>1. Wrap32 \in Nat /\ 2 \in Nat \ {0} /\ 2 - 1 = 1
    BY NumbersOK
  <2>2. \E q \in Nat, r \in 0 .. 2 - 1 :
          q = Wrap32 \div 2 /\ r = Wrap32 % 2 /\ Wrap32 = 2 * q + r
    BY <2>1, Divided, Zenon
  <2>3. QED
    BY <2>1, <2>2, Zenon
<1>2. Wrap32 % 2 = 0
  BY ConversionsAssumption
<1>3. QED
  BY <1>1, <1>2 DEF Half32, Int32

(* The magnitude is right down to the smallest number of all.              *)
LEMMA MagnitudeRight ==
  ASSUME NEW milli \in Int32
  PROVE  /\ Magnitude(milli) = IF milli < 0 THEN -milli ELSE milli
         /\ Magnitude(milli) \in 0 .. Half32
<1>1. milli \in Int /\ -Half32 <= milli /\ milli < Half32
  BY HalfOK
<1>2. CASE milli < 0
  <2>1. -(milli + 1) + 1 = -milli /\ -milli \in 0 .. Half32 /\ -milli \in 0 .. Wrap32 - 1
    BY <1>1, <1>2, HalfOK, NumbersOK
  <2>2. (-milli) % Wrap32 = -milli
    BY <2>1, NumbersOK, ModSmall
  <2>3. Negated(milli) = -milli
    BY <2>1, <2>2 DEF Negated
  <2>4. QED
    BY <1>2, <2>1, <2>3 DEF Magnitude
<1>3. CASE ~(milli < 0)
  BY <1>1, <1>3, HalfOK DEF Magnitude
<1>4. QED
  BY <1>2, <1>3

LEMMA PowersOfTen ==
  ASSUME NEW digits \in 0 .. 3
  PROVE  /\ Pow10[digits] \in {1, 10, 100, 1000}
         /\ Pow10[3 - digits] \in {1, 10, 100, 1000}
BY DEF Pow10

\* so many units are nearest to m
RoundsTo(rounded, unit, m) ==
  /\ rounded \in Nat
  /\ unit = 1 => rounded = m
  /\ -unit <= 2 * (rounded * unit - m) /\ 2 * (rounded * unit - m) <= unit

(* Half a unit added and the quotient taken: rounded to the nearest.       *)
LEMMA RoundedUnit ==
  ASSUME NEW unit \in {1, 10, 100, 1000}, NEW m \in 0 .. Half32,
         NEW rounded, rounded = ((m + unit \div 2) % Wrap32) \div unit
  PROVE  RoundsTo(rounded, unit, m)
<1>1. PICK h \in Nat : h = unit \div 2 /\ 2 * h <= unit /\ (unit # 1 => 2 * h = unit)
                       /\ (unit = 1 => h = 0)
  <2>1. 1 \div 2 = 0 /\ 10 \div 2 = 5 /\ 100 \div 2 = 50 /\ 1000 \div 2 = 500
    OBVIOUS
  <2>2. QED
    BY <2>1
<1> DEFINE x == m + h
<1>2. x \in Nat /\ x < Wrap32 /\ unit \in Nat \ {0} /\ Wrap32 \in Nat \ {0} /\ m \in Nat
  BY <1>1, HalfOK, NumbersOK
<1>3. x % Wrap32 = x
  <2>1. x \in 0 .. Wrap32 - 1
    BY <1>2
  <2> HIDE DEF x
  <2>2. QED
    BY <1>2, <2>1, ModSmall
<1>4. PICK q \in Nat, r \in 0 .. unit - 1 :
        q = x \div unit /\ r = x % unit /\ x = unit * q + r
  <2> HIDE DEF x
  <2>1. QED
    BY <1>2, Divided
<1>5. rounded = q
  BY <1>1, <1>3, <1>4
<1>6. q * unit = unit * q /\ unit * q \in Nat
  BY <1>2
<1>7. q * unit - m = h - r
  BY <1>2, <1>4, <1>6
<1>8. unit = 1 => q = m
  <2>1. unit = 1 => r = 0 /\ unit * q = q
    BY <1>4
  <2>2. QED
    BY <1>1, <1>2, <1>4, <2>1
<1>9. -unit <= 2 * (h - r) /\ 2 * (h - r) <= unit
  BY <1>1, <1>2, <1>4
<1>10. QED
  BY <1>4, <1>5, <1>7, <1>8, <1>9 DEF RoundsTo

(* What is printed is the number, rounded to the last digit printed.       *)
LEMMA PrintedNearest ==
  ASSUME NEW milli \in Int32, NEW decimals \in Nat
  PROVE  LET text == console_fmt_milli(milli, decimals)
             unit == Pow10[3 - text.digits]
             error == Shown(text) * unit - milli
         IN /\ text.digits = (IF decimals > 3 THEN 3 ELSE decimals)
            /\ Shown(text) \in Int
            /\ -unit <= 2 * error /\ 2 * error <= unit
            /\ unit = 1 => error = 0
            /\ text.frac < Pow10[text.digits]
            /\ text.sign = "-" => Shown(text) # 0
<1> DEFINE digits == IF decimals > 3 THEN 3 ELSE decimals
           unit == Pow10[3 - digits]
           fu == Pow10[digits]
           m == Magnitude(milli)
           rounded == ((m + unit \div 2) % Wrap32) \div unit
           text == console_fmt_milli(milli, decimals)
<1>1. digits \in 0 .. 3 /\ unit \in {1, 10, 100, 1000} /\ fu \in {1, 10, 100, 1000}
  BY PowersOfTen
<1>2. m = (IF milli < 0 THEN -milli ELSE milli) /\ m \in 0 .. Half32 /\ milli \in Int
  BY MagnitudeRight, HalfOK
<1>3. /\ text.digits = digits /\ text.sign = Sign(milli, rounded)
      /\ text.whole = rounded \div fu /\ text.frac = rounded % fu
  BY DEF console_fmt_milli
<1> HIDE DEF digits, unit, fu, m
<1>4. /\ rounded \in Nat
      /\ unit = 1 => rounded = m
      /\ -unit <= 2 * (rounded * unit - m) /\ 2 * (rounded * unit - m) <= unit
  <2>1. unit \in {1, 10, 100, 1000} /\ m \in 0 .. Half32
    BY <1>1, <1>2
  <2>2. rounded = ((m + unit \div 2) % Wrap32) \div unit
    OBVIOUS
  <2> HIDE DEF rounded
  <2>3. RoundsTo(rounded, unit, m)
    BY <2>1, <2>2, RoundedUnit
  <2>4. QED
    BY <2>3 DEF RoundsTo
<1> HIDE DEF rounded, text
<1>5. PICK w \in Nat, f \in 0 .. fu - 1 :
        w = rounded \div fu /\ f = rounded % fu /\ rounded = fu * w + f
  BY <1>1, <1>4, Divided
<1>6. text.whole * fu + text.frac = rounded /\ text.frac < fu
  BY <1>1, <1>3, <1>5
<1>7. Shown(text) = (IF text.sign = "-" THEN -1 ELSE 1) * rounded
  BY <1>3, <1>6 DEF Shown, fu
<1> DEFINE shown == Shown(text)
           error == shown * unit - milli
<1>8. shown = (IF milli < 0 THEN -rounded ELSE rounded) /\ (text.sign = "-" => shown # 0)
  <2>1. text.sign = (IF milli < 0 /\ rounded # 0 THEN "-" ELSE "")
    BY <1>3 DEF Sign
  <2>2. rounded \in Nat
    BY <1>4
  <2>3. (-1) * rounded = -rounded /\ 1 * rounded = rounded
    BY <2>2
  <2>4. shown = (IF text.sign = "-" THEN -1 ELSE 1) * rounded
    BY <1>7
  <2>5. CASE milli < 0 /\ rounded # 0
    <3>1. text.sign = "-" /\ shown = -rounded
      BY <2>1, <2>3, <2>4, <2>5
    <3>2. QED
      BY <2>2, <2>5, <3>1
  <2>6. CASE ~(milli < 0 /\ rounded # 0)
    <3>1. text.sign # "-" /\ shown = rounded
      BY <2>1, <2>3, <2>4, <2>6
    <3>2. rounded = 0 => -rounded = rounded
      <4>1. 0 - rounded = -rounded
        BY <2>2
      <4>2. rounded = 0 => 0 - rounded = rounded
        BY <2>2
      <4>3. QED
        BY <4>1, <4>2, Zenon
    <3>3. QED
      BY <2>6, <3>1, <3>2
  <2>7. QED
    BY <2>5, <2>6
<1> HIDE DEF shown
<1>9. /\ shown \in Int /\ -unit <= 2 * error /\ 2 * error <= unit
      /\ unit = 1 => error = 0
  <2> DEFINE ru == rounded * unit
             su == shown * unit
  <2>1. /\ unit \in Nat /\ ru \in Int /\ m \in Nat /\ shown \in Int
        /\ su = (IF milli < 0 THEN -ru ELSE ru)
    <3>1. unit \in Nat /\ m \in Nat
      BY <1>1, <1>2
    <3>2. (-rounded) * unit = -(rounded * unit) /\ rounded * unit \in Int
      BY <1>4, <3>1
    <3>3. QED
      BY <1>4, <1>8, <3>1, <3>2
  <2>2. unit = 1 => ru = m
    <3>1. rounded * 1 = rounded
      BY <1>4
    <3>2. QED
      BY <1>4, <3>1
  <2>3. -unit <= 2 * (ru - m) /\ 2 * (ru - m) <= unit
    BY <1>4
  <2> HIDE DEF ru, su
  <2>4. -unit <= 2 * (su - milli) /\ 2 * (su - milli) <= unit /\ (unit = 1 => su - milli = 0)
    BY <1>2, <2>1, <2>2, <2>3
  <2>5. QED
    BY <2>1, <2>4 DEF su
<1>10. QED
  <2>1. unit = Pow10[3 - text.digits] /\ fu = Pow10[text.digits]
    BY <1>3 DEF unit, fu
  <2>2. text.digits = (IF decimals > 3 THEN 3 ELSE decimals)
    BY <1>3 DEF digits
  <2>3. QED
    BY <1>6, <1>8, <1>9, <2>1, <2>2 DEF shown, text

(* Every number is printed rounded to nearest.                             *)
LEMMA FmtIsNearest == Spec => []FmtNearest
<1>1. Init => FmtNearest
  BY DEF Init, FmtNearest
<1>2. FmtNearest /\ [Next]_vars => FmtNearest'
  <2> SUFFICES ASSUME FmtNearest, [Next]_vars PROVE FmtNearest'
    OBVIOUS
  <2>1. CASE UNCHANGED vars
    BY <2>1 DEF FmtNearest, vars, Shown
  <2>2. CASE fn' # "console_fmt_milli"
    BY <2>2 DEF FmtNearest
  <2>3. CASE FormatMilli
    <3>1. PICK milli \in Millis, decimals \in 0 .. 4 :
            arg' = <<milli, decimals>> /\ result' = console_fmt_milli(milli, decimals)
      BY <2>3 DEF FormatMilli, Call
    <3> DEFINE text == console_fmt_milli(milli, decimals)
               unit == Pow10[3 - text.digits]
               error == Shown(text) * unit - milli
    <3>2. milli \in Int32 /\ decimals \in Nat
      BY NumbersOK
    <3>3. /\ -unit <= 2 * error /\ 2 * error <= unit
          /\ text.frac < Pow10[text.digits]
          /\ text.sign = "-" => Shown(text) # 0
      BY <3>2, PrintedNearest
    <3>4. arg'[1] = milli /\ result' = text
      BY <3>1
    <3> HIDE DEF text
    <3>5. QED
      BY <3>3, <3>4 DEF FmtNearest, Shown
  <2>4. QED
    BY <2>1, <2>2, <2>3, WhichCall
<1>3. QED
  BY <1>1, <1>2, PTL DEF Spec

-----------------------------------------------------------------------------
(* consumer_fmt_sensor                                                     *)

(* A code is converted to the nearest milli-unit, and it fits an int32_t.  *)
LEMMA ScaledNearest ==
  ASSUME NEW kind \in Kind, NEW code \in 0 .. FullScale - 1
  PROVE  LET milli == xadc_drv_code_to_milli(kind, code)
             error == (milli + Offset[kind]) * FullScale - code * Gain[kind]
         IN /\ milli \in Int32 /\ Offset[kind] \in Nat /\ Gain[kind] \in Nat
            /\ -FullScale <= 2 * error /\ 2 * error <= FullScale
<1> DEFINE G == Gain[kind]
           O == Offset[kind]
           F == FullScale
           h == F \div 2
           x == code * G + h
<1>1. /\ G \in Nat /\ O \in Nat /\ O < Half32 /\ F \in Nat \ {0} /\ code \in Nat
      /\ (F - 1) * G + h < Half32 /\ Half32 \in Nat
  <2>1. Half32 \in Nat \ {0}
    BY HalfOK, NumbersOK
  <2>2. G \in {TempGain, SupplyScale} /\ O \in {TempOffset, 0}
    BY DEF Gain, Offset, Kind
  <2>3. (F - 1) * G + h < Half32
    BY <2>2, WidthAssumption DEF Half32
  <2>4. O < Half32
    BY <2>1, <2>2, WidthAssumption DEF Half32
  <2>5. G \in Nat /\ O \in Nat /\ F \in Nat \ {0}
    BY <2>2, NumbersOK
  <2>6. QED
    BY <2>1, <2>3, <2>4, <2>5
<1> HIDE DEF F
<1>2. PICK h2 \in Nat, b \in 0 .. 1 : h2 = h /\ b = F % 2 /\ F = 2 * h2 + b
  <2>1. F \in Nat /\ 2 \in Nat \ {0} /\ 2 - 1 = 1
    BY <1>1
  <2>2. \E q \in Nat, r \in 0 .. 2 - 1 : q = F \div 2 /\ r = F % 2 /\ F = 2 * q + r
    BY <2>1, Divided, Zenon
  <2>3. QED
    BY <2>1, <2>2, Zenon
<1> HIDE DEF G, O, h
<1>3. x \in Nat /\ x < Half32
  <2>1. code <= F - 1 /\ F - 1 \in Nat
    BY <1>1 DEF F
  <2>2. code * G <= (F - 1) * G
    BY <1>1, <2>1, TimesMonotonic
  <2>3. code * G \in Nat /\ (F - 1) * G \in Nat
    BY <1>1, <2>1
  <2>4. QED
    BY <1>1, <1>2, <2>2, <2>3
<1>4. x % Wrap32 = x
  <2>1. x \in 0 .. Wrap32 - 1
    BY <1>3, <1>1, HalfOK
  <2> HIDE DEF x
  <2>2. QED
    BY <2>1, NumbersOK, ModSmall
<1> HIDE DEF x
<1>5. PICK s \in Nat, r \in 0 .. F - 1 : s = x \div F /\ r = x % F /\ x = F * s + r
  BY <1>1, <1>3, Divided
<1>6. xadc_drv_code_to_milli(kind, code) = s - O
  BY <1>4, <1>5 DEF xadc_drv_code_to_milli, Scaled, x, h, F, G, O
<1>7. s <= x
  <2>1. s <= F * s /\ F * s \in Nat
    <3>1. 1 <= F
      BY <1>1
    <3>2. 1 * s <= F * s
      BY <1>1, <3>1, TimesMonotonic
    <3>3. QED
      BY <1>1, <3>2
  <2>2. QED
    BY <1>1, <1>3, <1>5, <2>1
<1>8. s - O \in Int32
  BY <1>1, <1>3, <1>7, HalfOK
<1>9. (s - O + O) * F - code * G = h - r
  <2> DEFINE cG == code * G
             Fs == F * s
  <2>1. s - O + O = s /\ s * F = Fs /\ Fs \in Nat /\ cG \in Nat
    BY <1>1
  <2>2. x = cG + h
    BY DEF x
  <2> HIDE DEF cG, Fs
  <2>3. Fs - cG = h - r
    BY <1>2, <1>5, <2>1, <2>2 DEF Fs
  <2>4. QED
    BY <2>1, <2>3 DEF cG
<1>10. -F <= 2 * (h - r) /\ 2 * (h - r) <= F
  BY <1>1, <1>2
<1>11. QED
  BY <1>1, <1>6, <1>8, <1>9, <1>10 DEF F, G, O

(* A printed reading is the transfer function's value, rounded twice.      *)
LEMMA ReadingRight ==
  ASSUME NEW kind \in Kind, NEW code \in 0 .. FullScale - 1
  PROVE  LET text == consumer_fmt_sensor(kind, code)
             unit == Pow10[3 - text.digits]
             error == (Shown(text) * unit + Offset[kind]) * FullScale - code * Gain[kind]
             half == IF unit = 1 THEN 0 ELSE unit
         IN -(half + 1) * FullScale <= 2 * error /\ 2 * error <= (half + 1) * FullScale
<1> DEFINE milli == xadc_drv_code_to_milli(kind, code)
           text == consumer_fmt_sensor(kind, code)
           unit == Pow10[3 - text.digits]
           half == IF unit = 1 THEN 0 ELSE unit
           su == Shown(text) * unit
           O == Offset[kind]
           cg == code * Gain[kind]
           F == FullScale
           e == su - milli
<1>1. /\ milli \in Int32 /\ O \in Nat /\ Gain[kind] \in Nat
      /\ -F <= 2 * ((milli + O) * F - cg) /\ 2 * ((milli + O) * F - cg) <= F
  BY ScaledNearest
<1>2. milli \in Int /\ F \in Nat /\ code \in Nat
  BY <1>1, HalfOK, NumbersOK
<1>3. Decimals[kind] \in 0 .. 3 /\ Decimals[kind] \in Nat
  BY DEF Decimals, Kind
<1> HIDE DEF milli
<1>4. text = console_fmt_milli(milli, Decimals[kind])
  BY DEF consumer_fmt_sensor, milli
<1>5. /\ text.digits = Decimals[kind]
      /\ Shown(text) \in Int
      /\ -unit <= 2 * e /\ 2 * e <= unit
      /\ unit = 1 => e = 0
  BY <1>1, <1>3, <1>4, PrintedNearest
<1>6. unit \in {1, 10, 100, 1000}
  BY <1>3, <1>5, PowersOfTen
<1> HIDE DEF text, unit
<1>7. su \in Int /\ e \in Int /\ half \in Nat /\ -half <= 2 * e /\ 2 * e <= half /\ cg \in Nat
  <2>1. su \in Int /\ e \in Int /\ cg \in Nat
    BY <1>1, <1>2, <1>5, <1>6
  <2>2. CASE unit = 1
    BY <1>5, <2>1, <2>2
  <2>3. CASE unit # 1
    BY <1>5, <1>6, <2>1, <2>3
  <2>4. QED
    BY <2>1, <2>2, <2>3
<1> DEFINE eF == e * F
           mF == (milli + O) * F
           halfF == half * F
<1>8. (su + O) * F = eF + mF /\ eF \in Int /\ mF \in Int
  <2>1. su + O = e + (milli + O)
    BY <1>1, <1>2, <1>7
  <2> HIDE DEF su, e
  <2>2. (e + (milli + O)) * F = eF + mF
    BY <1>1, <1>2, <1>7
  <2>3. QED
    BY <1>1, <1>2, <1>7, <2>1, <2>2
<1> HIDE DEF su, e, half
<1>9. -halfF <= 2 * eF /\ 2 * eF <= halfF /\ halfF \in Nat
  <2>1. (2 * e) * F <= half * F /\ (-half) * F <= (2 * e) * F
    BY <1>2, <1>7, TimesMonotonic
  <2>2. (2 * e) * F = 2 * (e * F) /\ (-half) * F = -(half * F) /\ half * F \in Nat
    BY <1>2, <1>7
  <2>3. QED
    BY <2>1, <2>2
<1>10. (half + 1) * F = halfF + F /\ -(half + 1) * F = -(halfF + F)
  BY <1>2, <1>7
<1> HIDE DEF eF, mF, halfF, F, cg
<1>11. -(halfF + F) <= 2 * (eF + mF - cg) /\ 2 * (eF + mF - cg) <= halfF + F
  <2>1. -F <= 2 * (mF - cg) /\ 2 * (mF - cg) <= F
    BY <1>1 DEF mF
  <2>2. QED
    BY <1>2, <1>7, <1>8, <1>9, <2>1
<1>12. /\ -(half + 1) * F <= 2 * ((su + O) * F - cg)
       /\ 2 * ((su + O) * F - cg) <= (half + 1) * F
  <2> DEFINE bound == (half + 1) * F
             lower == -(half + 1) * F
             whole == (su + O) * F
  <2>1. /\ bound = halfF + F /\ lower = -(halfF + F) /\ whole = eF + mF
        /\ {eF, mF, cg, halfF, F} \subseteq Int
    BY <1>2, <1>7, <1>8, <1>9, <1>10
  <2> HIDE DEF bound, lower, whole
  <2>2. 2 * (whole - cg) = 2 * (eF + mF - cg)
    BY <2>1
  <2>3. -(halfF + F) <= 2 * (whole - cg) /\ 2 * (whole - cg) <= halfF + F
    BY <1>11, <2>2
  <2>4. lower <= 2 * (whole - cg) /\ 2 * (whole - cg) <= bound
    BY <2>1, <2>3
  <2>5. QED
    BY <2>4 DEF bound, lower, whole
<1>13. QED
  BY <1>12 DEF su, half, unit, text, F, cg, O

(* Every reading is printed as accurately as its digits allow.             *)
LEMMA ReadingIsAccurate == Spec => []ReadingsAccurate
<1>1. Init => ReadingsAccurate
  BY DEF Init, ReadingsAccurate
<1>2. ReadingsAccurate /\ [Next]_vars => ReadingsAccurate'
  <2> SUFFICES ASSUME ReadingsAccurate, [Next]_vars PROVE ReadingsAccurate'
    OBVIOUS
  <2>1. CASE UNCHANGED vars
    BY <2>1 DEF ReadingsAccurate, vars, Shown
  <2>2. CASE fn' # "consumer_fmt_sensor"
    BY <2>2 DEF ReadingsAccurate
  <2>3. CASE FormatSensor
    <3>1. PICK kind \in Kind, code \in 0 .. FullScale - 1 :
            arg' = <<kind, code>> /\ result' = consumer_fmt_sensor(kind, code)
      BY <2>3 DEF FormatSensor, Call
    <3> DEFINE text == consumer_fmt_sensor(kind, code)
               unit == Pow10[3 - text.digits]
               error == (Shown(text) * unit + Offset[kind]) * FullScale - code * Gain[kind]
               half == IF unit = 1 THEN 0 ELSE unit
    <3>2. -(half + 1) * FullScale <= 2 * error /\ 2 * error <= (half + 1) * FullScale
      BY ReadingRight
    <3>3. arg'[1] = kind /\ arg'[2] = code /\ result' = text
      BY <3>1
    <3> HIDE DEF text
    <3>4. QED
      BY <3>2, <3>3 DEF ReadingsAccurate, Shown
  <2>4. QED
    BY <2>1, <2>2, <2>3, WhichCall
<1>3. QED
  BY <1>1, <1>2, PTL DEF Spec

(* console_fmt_milli rounds every int32_t to nearest, INT32_MIN included,  *)
(* and the readings printed through it are the transfer function's values, *)
(* within half a printed unit and half a milli-unit.                       *)
THEOREM PrintedIsAccurate == Spec => []PrintedAccurately
BY FmtIsNearest, ReadingIsAccurate, PTL DEF PrintedAccurately

-----------------------------------------------------------------------------
(* Induction, as a statement about sets of numbers.                        *)

LEMMA Least ==
  ASSUME NEW T, T \subseteq Nat, T # {}
  PROVE  \E m \in T : \A k \in T : ~(k < m)
<1>1. PICK m \in T : \A k \in T : ~(<<k, m>> \in OpToRel(<, Nat))
  BY NatLessThanWellFounded, WFMin
<1>2. \A k \in T : k < m => <<k, m>> \in OpToRel(<, Nat)
  BY DEF OpToRel
<1>3. QED
  BY <1>1, <1>2

LEMMA Induction ==
  ASSUME NEW T, \A n \in Nat : (\A k \in 0 .. n - 1 : k \in T) => n \in T
  PROVE  Nat \subseteq T
<1> SUFFICES ASSUME Nat \ T # {} PROVE FALSE
  OBVIOUS
<1>1. PICK m \in Nat \ T : \A k \in Nat \ T : ~(k < m)
  BY Least
<1>2. \A k \in 0 .. m - 1 : k \in T
  BY <1>1
<1>3. QED
  BY <1>1, <1>2

(* A rule gives the value at a number from the one at a smaller number.    *)
RuleOK(S, base, first, pred, step) ==
  /\ base \subseteq Nat /\ first \in [base -> S]
  /\ pred \in [Nat \ base -> Nat] /\ step \in [Nat \ base -> [S -> S]]
  /\ \A n \in Nat \ base : pred[n] < n

Follows(f, n, base, first, pred, step) ==
  f[n] = IF n \in base THEN first[n] ELSE step[n][f[pred[n]]]

LEMMA SameSoFar ==
  ASSUME NEW S, NEW base, NEW first, NEW pred, NEW step, RuleOK(S, base, first, pred, step),
         NEW n \in Nat, NEW m \in Nat, n <= m,
         NEW f \in [0 .. n -> S], NEW g \in [0 .. m -> S],
         \A i \in 0 .. n : Follows(f, i, base, first, pred, step),
         \A i \in 0 .. m : Follows(g, i, base, first, pred, step)
  PROVE  \A i \in 0 .. n : f[i] = g[i]
<1> DEFINE T == {i \in Nat : i <= n => f[i] = g[i]}
<1>1. ASSUME NEW i \in Nat, \A k \in 0 .. i - 1 : k \in T
      PROVE  i \in T
  <2> SUFFICES ASSUME i <= n PROVE f[i] = g[i]
    OBVIOUS
  <2>1. i \in 0 .. n /\ i \in 0 .. m
    OBVIOUS
  <2>2. /\ f[i] = IF i \in base THEN first[i] ELSE step[i][f[pred[i]]]
        /\ g[i] = IF i \in base THEN first[i] ELSE step[i][g[pred[i]]]
    BY <2>1 DEF Follows
  <2>3. CASE i \in base
    BY <2>2, <2>3
  <2>4. CASE i \notin base
    <3>1. pred[i] \in 0 .. i - 1 /\ pred[i] <= n
      BY <2>1, <2>4 DEF RuleOK
    <3>2. f[pred[i]] = g[pred[i]]
      BY <1>1, <3>1
    <3>3. QED
      BY <2>2, <2>4, <3>2
  <2>5. QED
    BY <2>3, <2>4
<1>2. Nat \subseteq T
  <2> HIDE DEF T
  <2>1. QED
    BY <1>1, Induction
<1>3. QED
  BY <1>2

LEMMA SoFar ==
  ASSUME NEW S, NEW base, NEW first, NEW pred, NEW step, RuleOK(S, base, first, pred, step)
  PROVE  \A n \in Nat : \E f \in [0 .. n -> S] :
            \A i \in 0 .. n : Follows(f, i, base, first, pred, step)
<1> DEFINE T == {n \in Nat : \E f \in [0 .. n -> S] :
                    \A i \in 0 .. n : Follows(f, i, base, first, pred, step)}
<1>1. ASSUME NEW n \in Nat, \A k \in 0 .. n - 1 : k \in T
      PROVE  n \in T
  <2>1. PICK g : n > 0 => /\ g \in [0 .. n - 1 -> S]
                          /\ \A i \in 0 .. n - 1 : Follows(g, i, base, first, pred, step)
    <3>1. CASE n = 0
      BY <3>1
    <3>2. CASE n > 0
      <4>1. n - 1 \in T
        BY <1>1, <3>2
      <4>2. QED
        BY <3>2, <4>1
    <3>3. QED
      BY <3>1, <3>2
  <2> DEFINE here == IF n \in base THEN first[n] ELSE step[n][g[pred[n]]]
             f == [i \in 0 .. n |-> IF i = n THEN here ELSE g[i]]
  <2>2. n \notin base => n > 0 /\ pred[n] \in 0 .. n - 1
    BY DEF RuleOK
  <2>3. here \in S
    <3>1. CASE n \in base
      BY <3>1 DEF RuleOK
    <3>2. CASE n \notin base
      <4>1. g[pred[n]] \in S
        BY <2>1, <2>2, <3>2
      <4>2. QED
        BY <3>2, <4>1 DEF RuleOK
    <3>3. QED
      BY <3>1, <3>2
  <2> HIDE DEF here
  <2>4. f \in [0 .. n -> S]
    BY <2>1, <2>3
  <2>5. ASSUME NEW i \in 0 .. n
        PROVE  Follows(f, i, base, first, pred, step)
    <3>1. i \notin base => pred[i] \in 0 .. i - 1
      BY DEF RuleOK
    <3>2. i \notin base => f[pred[i]] = g[pred[i]]
      BY <3>1
    <3>3. CASE i = n
      BY <3>2, <3>3 DEF Follows, here
    <3>4. CASE i # n
      <4>1. i \in 0 .. n - 1 /\ f[i] = g[i]
        BY <3>4
      <4>2. g[i] = IF i \in base THEN first[i] ELSE step[i][g[pred[i]]]
        BY <2>1, <4>1 DEF Follows
      <4>3. QED
        BY <3>2, <4>1, <4>2 DEF Follows
    <3>5. QED
      BY <3>3, <3>4
  <2> HIDE DEF f
  <2>6. QED
    BY <2>4, <2>5
<1>2. Nat \subseteq T
  <2> HIDE DEF T
  <2>1. QED
    BY <1>1, Induction
<1>3. QED
  BY <1>2

(* There is a function that follows the rule.                              *)
LEMMA Recursion ==
  ASSUME NEW S, NEW base, NEW first, NEW pred, NEW step, RuleOK(S, base, first, pred, step)
  PROVE  \E f \in [Nat -> S] : \A n \in Nat : Follows(f, n, base, first, pred, step)
<1> DEFINE upto == [n \in Nat |-> CHOOSE f \in [0 .. n -> S] :
                       \A i \in 0 .. n : Follows(f, i, base, first, pred, step)]
           f == [n \in Nat |-> upto[n][n]]
<1>1. ASSUME NEW n \in Nat
      PROVE  /\ upto[n] \in [0 .. n -> S]
             /\ \A i \in 0 .. n : Follows(upto[n], i, base, first, pred, step)
  BY SoFar
<1> HIDE DEF upto
<1>2. f \in [Nat -> S]
  BY <1>1
<1>3. ASSUME NEW n \in Nat, NEW i \in 0 .. n
      PROVE  f[i] = upto[n][i]
  <2>1. i \in Nat /\ i <= n /\ i \in 0 .. i
    OBVIOUS
  <2> DEFINE p == upto[i]
             q == upto[n]
  <2>2. /\ p \in [0 .. i -> S] /\ \A j \in 0 .. i : Follows(p, j, base, first, pred, step)
        /\ q \in [0 .. n -> S] /\ \A j \in 0 .. n : Follows(q, j, base, first, pred, step)
    BY <1>1, <2>1
  <2>3. p[i] = q[i]
    <3> HIDE DEF p, q
    <3>1. \A j \in 0 .. i : p[j] = q[j]
      BY <2>1, <2>2, SameSoFar
    <3>2. QED
      BY <2>1, <3>1
  <2>4. QED
    BY <2>1, <2>3
<1>4. ASSUME NEW n \in Nat
      PROVE  Follows(f, n, base, first, pred, step)
  <2>1. upto[n][n] = IF n \in base THEN first[n] ELSE step[n][upto[n][pred[n]]]
    BY <1>1 DEF Follows
  <2>2. n \notin base => pred[n] \in 0 .. n
    BY DEF RuleOK
  <2>3. n \notin base => f[pred[n]] = upto[n][pred[n]]
    BY <1>3, <2>2
  <2>4. QED
    BY <2>1, <2>3 DEF Follows
<1> HIDE DEF f
<1>5. QED
  BY <1>2, <1>4

-----------------------------------------------------------------------------
(* The index mask. And is defined by what it says of itself.               *)

LEMMA AndFollows ==
  \A a, b \in Nat :
     And[a][b] = IF a = 0 \/ b = 0 THEN 0 ELSE 2 * And[a \div 2][b \div 2] + (a % 2) * (b % 2)
<1> DEFINE S == [Nat -> Nat]
           base == {0}
           first == [n \in base |-> [b \in Nat |-> 0]]
           pred == [n \in Nat \ base |-> n \div 2]
           step == [n \in Nat \ base |-> [g \in S |->
                      [b \in Nat |-> IF b = 0 THEN 0 ELSE 2 * g[b \div 2] + (n % 2) * (b % 2)]]]
<1>1. RuleOK(S, base, first, pred, step)
  <2>1. \A n \in Nat \ base : n \div 2 \in Nat /\ n \div 2 < n
    OBVIOUS
  <2>2. \A n \in Nat \ base : step[n] \in [S -> S]
    <3> SUFFICES ASSUME NEW n \in Nat \ base, NEW g \in S
                 PROVE  [b \in Nat |-> IF b = 0 THEN 0 ELSE 2 * g[b \div 2] + (n % 2) * (b % 2)] \in S
      OBVIOUS
    <3> SUFFICES ASSUME NEW b \in Nat
                 PROVE  2 * g[b \div 2] + (n % 2) * (b % 2) \in Nat
      OBVIOUS
    <3>1. g[b \div 2] \in Nat /\ n % 2 \in {0, 1} /\ b % 2 \in {0, 1}
      OBVIOUS
    <3>2. QED
      BY <3>1
  <2>3. QED
    BY <2>1, <2>2 DEF RuleOK
<1>2. PICK f \in [Nat -> S] : \A n \in Nat : Follows(f, n, base, first, pred, step)
  <2> HIDE DEF S, base, first, pred, step
  <2>1. QED
    BY <1>1, Recursion
<1>3. \A a, b \in Nat :
        f[a][b] = IF a = 0 \/ b = 0 THEN 0 ELSE 2 * f[a \div 2][b \div 2] + (a % 2) * (b % 2)
  <2> SUFFICES ASSUME NEW n \in Nat, NEW b \in Nat
               PROVE  f[n][b] = IF n = 0 \/ b = 0 THEN 0
                                ELSE 2 * f[n \div 2][b \div 2] + (n % 2) * (b % 2)
    OBVIOUS
  <2>1. f[n] = IF n \in base THEN first[n] ELSE step[n][f[pred[n]]]
    BY <1>2 DEF Follows
  <2>2. CASE n = 0
    BY <2>1, <2>2
  <2>3. CASE n # 0
    <3>1. n \notin base /\ n \in Nat \ base /\ pred[n] = n \div 2
      BY <2>3
    <3>2. f[pred[n]] \in S
      BY <1>1, <1>2, <3>1 DEF RuleOK
    <3>3. step[n][f[pred[n]]] = [c \in Nat |-> IF c = 0 THEN 0 ELSE 2 * f[pred[n]][c \div 2] + (n % 2) * (c % 2)]
      BY <3>1, <3>2
    <3>4. QED
      BY <2>1, <2>3, <3>1, <3>3
  <2>4. QED
    BY <2>2, <2>3
<1>4. f = [a \in Nat |-> [b \in Nat |-> IF a = 0 \/ b = 0 THEN 0
                                    ELSE 2 * f[a \div 2][b \div 2] + (a % 2) * (b % 2)]]
  <2>1. f \in [Nat -> [Nat -> Nat]]
    BY <1>2
  <2> HIDE DEF S, base, first, pred, step
  <2>2. ASSUME NEW a \in Nat
        PROVE  f[a] = [b \in Nat |-> IF a = 0 \/ b = 0 THEN 0
                                    ELSE 2 * f[a \div 2][b \div 2] + (a % 2) * (b % 2)]
    <3> DEFINE value(b) == IF a = 0 \/ b = 0 THEN 0
                           ELSE 2 * f[a \div 2][b \div 2] + (a % 2) * (b % 2)
    <3>1. \A b \in Nat : f[a][b] = value(b)
      BY <1>3, Zenon
    <3>2. f[a] = [b \in Nat |-> f[a][b]]
      BY <2>1
    <3> HIDE DEF value
    <3>3. f[a] = [b \in Nat |-> value(b)]
      BY <3>1, <3>2
    <3>4. QED
      BY <3>3, Zenon DEF value
  <2>3. f = [a \in Nat |-> f[a]]
    BY <2>1
  <2>4. QED
    BY <2>2, <2>3, Zenon
<1>5. And = [a \in Nat |-> [b \in Nat |-> IF a = 0 \/ b = 0 THEN 0
                                    ELSE 2 * And[a \div 2][b \div 2] + (a % 2) * (b % 2)]]
  BY <1>4, Zenon DEF And
<1>6. ASSUME NEW a \in Nat, NEW b \in Nat
      PROVE  And[a][b] = IF a = 0 \/ b = 0 THEN 0
                         ELSE 2 * And[a \div 2][b \div 2] + (a % 2) * (b % 2)
  <2> DEFINE here == [c \in Nat |-> IF a = 0 \/ c = 0 THEN 0
                                    ELSE 2 * And[a \div 2][c \div 2] + (a % 2) * (c % 2)]
  <2>1. And[a] = here
    BY <1>5
  <2>2. here[b] = IF a = 0 \/ b = 0 THEN 0
                         ELSE 2 * And[a \div 2][b \div 2] + (a % 2) * (b % 2)
    OBVIOUS
  <2>3. QED
    BY <2>1, <2>2, Zenon
<1>7. QED
  BY <1>6

-----------------------------------------------------------------------------
(* Decimal digits.                                                         *)

LEMMA DigitsFollow ==
  \A n \in Nat : DigitsOf[n] = IF n < 10 THEN <<n>> ELSE Append(DigitsOf[n \div 10], n % 10)
<1> DEFINE S == Seq(0 .. 9)
           base == 0 .. 9
           first == [n \in base |-> <<n>>]
           pred == [n \in Nat \ base |-> n \div 10]
           step == [n \in Nat \ base |-> [s \in S |-> Append(s, n % 10)]]
<1>1. RuleOK(S, base, first, pred, step)
  BY DEF RuleOK
<1>2. PICK f \in [Nat -> S] : \A n \in Nat : Follows(f, n, base, first, pred, step)
  <2> HIDE DEF S, base, first, pred, step
  <2>1. QED
    BY <1>1, Recursion
<1>3. \A n \in Nat : f[n] = IF n < 10 THEN <<n>> ELSE Append(f[n \div 10], n % 10)
  <2> SUFFICES ASSUME NEW n \in Nat
               PROVE  f[n] = IF n < 10 THEN <<n>> ELSE Append(f[n \div 10], n % 10)
    OBVIOUS
  <2>1. f[n] = IF n \in base THEN first[n] ELSE step[n][f[pred[n]]]
    BY <1>2 DEF Follows
  <2>2. CASE n < 10
    <3>1. n \in base /\ first[n] = <<n>>
      <4>1. n \in base
        BY <2>2
      <4>2. QED
        BY <4>1, Zenon
    <3>2. f[n] = <<n>>
      <4> HIDE DEF base, step, pred, first
      <4>1. QED
        BY <2>1, <3>1
    <3>3. QED
      BY <2>2, <3>2
  <2>3. CASE ~(n < 10)
    <3>1. n \notin base /\ n \in Nat \ base /\ pred[n] = n \div 10
      BY <2>3
    <3>2. f[pred[n]] \in S
      BY <1>1, <1>2, <3>1 DEF RuleOK
    <3>3. step[n][f[pred[n]]] = Append(f[pred[n]], n % 10)
      BY <3>1, <3>2
    <3>4. f[n] = step[n][f[pred[n]]]
      <4> HIDE DEF base, step, pred, first
      <4>1. QED
        BY <2>1, <3>1
    <3>5. f[n] = Append(f[n \div 10], n % 10)
      <4> HIDE DEF base, step, pred, first
      <4>1. QED
        BY <3>1, <3>3, <3>4
    <3>6. QED
      BY <2>3, <3>5
  <2>4. QED
    BY <2>2, <2>3
<1>4. f = [n \in Nat |-> IF n < 10 THEN <<n>> ELSE Append(f[n \div 10], n % 10)]
  BY <1>2, <1>3
<1>5. DigitsOf = [n \in Nat |-> IF n < 10 THEN <<n>> ELSE Append(DigitsOf[n \div 10], n % 10)]
  BY <1>4, Zenon DEF DigitsOf
<1>6. QED
  BY <1>5

\* g adds up the digits d
Adds(g, d) ==
  /\ g \in [0 .. Len(d) -> Nat] /\ g[0] = 0
  /\ \A n \in 1 .. Len(d) : g[n] = 10 * g[n - 1] + d[n]

LEMMA OneDigitMore ==
  ASSUME NEW x \in Nat, NEW y \in Nat
  PROVE  10 * x + y \in Nat
OBVIOUS

LEMMA NumberFollows ==
  ASSUME NEW d \in Seq(Nat)
  PROVE  \E g : Adds(g, d) /\ NumberOf(d) = g[Len(d)]
<1> DEFINE base == {0}
           first == [n \in base |-> 0]
           pred == [n \in Nat \ base |-> n - 1]
           digit == [n \in Nat |-> IF n \in 1 .. Len(d) THEN d[n] ELSE 0]
           step == [n \in Nat \ base |-> [v \in Nat |-> 10 * v + digit[n]]]
<1>0. /\ digit \in [Nat -> Nat]
      /\ Len(d) \in Nat /\ \A i \in 1 .. Len(d) : d[i] \in Nat
  OBVIOUS
<1>1. RuleOK(Nat, base, first, pred, step)
  <2> HIDE DEF digit
  <2>1. ASSUME NEW n \in Nat \ base
        PROVE  step[n] \in [Nat -> Nat] /\ pred[n] \in Nat /\ pred[n] < n
    <3>1. digit[n] \in Nat /\ \A v \in Nat : 10 * v + digit[n] \in Nat
      <4>1. digit[n] \in Nat
        BY <1>0
      <4>2. QED
        BY <4>1, OneDigitMore, Zenon
    <3>2. step[n] = [v \in Nat |-> 10 * v + digit[n]] /\ pred[n] = n - 1
      OBVIOUS
    <3>3. pred[n] \in Nat /\ pred[n] < n
      BY <3>2
    <3>4. QED
      <4> HIDE DEF step, pred
      <4>1. QED
        BY <3>1, <3>2, <3>3
  <2>2. base \subseteq Nat /\ first \in [base -> Nat]
    OBVIOUS
  <2>3. DOMAIN step = Nat \ base /\ DOMAIN pred = Nat \ base
    OBVIOUS
  <2>4. step = [n \in Nat \ base |-> step[n]] /\ pred = [n \in Nat \ base |-> pred[n]]
    BY Zenon
  <2>5. QED
    <3> HIDE DEF step, pred, base, first
    <3>1. QED
      BY <2>1, <2>2, <2>4 DEF RuleOK
<1>2. PICK f \in [Nat -> Nat] : \A n \in Nat : Follows(f, n, base, first, pred, step)
  <2> HIDE DEF base, first, pred, step
  <2>1. QED
    BY <1>1, Recursion
<1>3. f[0] = 0 /\ \A n \in 1 .. Len(d) : f[n] = 10 * f[n - 1] + d[n]
  <2>1. f[0] = 0
    BY <1>2 DEF Follows
  <2>2. ASSUME NEW n \in 1 .. Len(d)
        PROVE  f[n] = 10 * f[n - 1] + d[n]
    <3>1. /\ n \in Nat /\ n \notin base /\ pred[n] = n - 1 /\ n - 1 \in Nat
          /\ digit[n] = d[n]
      OBVIOUS
    <3>2. f[n - 1] \in Nat
      BY <1>2, <3>1
    <3>3. step[n][f[n - 1]] = 10 * f[n - 1] + digit[n]
      <4> HIDE DEF digit
      <4>1. QED
        BY <3>1, <3>2
    <3>4. f[n] = step[n][f[pred[n]]]
      <4> HIDE DEF base, step, pred, first, digit
      <4>1. QED
        BY <1>2, <3>1 DEF Follows
    <3>5. QED
      <4> HIDE DEF base, step, pred, first, digit
      <4>1. QED
        BY <3>1, <3>3, <3>4
  <2>3. QED
    BY <2>1, <2>2
<1> DEFINE F == [n \in 0 .. Len(d) |-> f[n]]
<1>4. F = [n \in 0 .. Len(d) |-> IF n = 0 THEN 0 ELSE 10 * F[n - 1] + d[n]]
  <2> SUFFICES ASSUME NEW n \in 0 .. Len(d)
               PROVE  f[n] = IF n = 0 THEN 0 ELSE 10 * F[n - 1] + d[n]
    OBVIOUS
  <2>1. CASE n = 0
    BY <1>3, <2>1
  <2>2. CASE n # 0
    <3>1. n \in 1 .. Len(d) /\ n - 1 \in 0 .. Len(d)
      BY <2>2
    <3>2. F[n - 1] = f[n - 1]
      BY <3>1
    <3>3. QED
      BY <1>3, <2>2, <3>1, <3>2
  <2>3. QED
    BY <2>1, <2>2
<1> HIDE DEF F
<1> DEFINE g == CHOOSE upTo : upTo = [n \in 0 .. Len(d) |-> IF n = 0 THEN 0 ELSE 10 * upTo[n - 1] + d[n]]
<1>5. g = [n \in 0 .. Len(d) |-> IF n = 0 THEN 0 ELSE 10 * g[n - 1] + d[n]]
  BY <1>4, Zenon
<1>6. NumberOf(d) = g[Len(d)]
  BY Zenon DEF NumberOf
<1> HIDE DEF g
<1>7. g[0] = 0 /\ \A n \in 1 .. Len(d) : g[n] = 10 * g[n - 1] + d[n]
  <2>1. Len(d) \in Nat
    OBVIOUS
  <2>2. \A n \in 0 .. Len(d) : g[n] = IF n = 0 THEN 0 ELSE 10 * g[n - 1] + d[n]
    BY <1>5
  <2>3. QED
    BY <2>1, <2>2
<1>8. g \in [0 .. Len(d) -> Nat]
  <2> DEFINE T == {n \in Nat : n <= Len(d) => g[n] \in Nat}
  <2>1. ASSUME NEW n \in Nat, \A k \in 0 .. n - 1 : k \in T
        PROVE  n \in T
    <3> SUFFICES ASSUME n <= Len(d) PROVE g[n] \in Nat
      OBVIOUS
    <3>1. CASE n = 0
      BY <1>7, <3>1
    <3>2. CASE n # 0
      <4>1. n \in 1 .. Len(d) /\ n - 1 \in 0 .. n - 1 /\ n - 1 <= Len(d) /\ d[n] \in Nat
        BY <1>0, <3>2
      <4>2. g[n - 1] \in Nat
        BY <2>1, <4>1
      <4>3. g[n] = 10 * g[n - 1] + d[n]
        BY <1>7, <4>1
      <4>4. QED
        BY <4>1, <4>2, <4>3, OneDigitMore, Zenon
    <3>3. QED
      BY <3>1, <3>2
  <2>2. Nat \subseteq T
    <3> HIDE DEF T
    <3>1. QED
      BY <2>1, Induction
  <2>3. \A n \in 0 .. Len(d) : g[n] \in Nat
    BY <2>2
  <2>4. DOMAIN g = 0 .. Len(d) /\ g = [n \in 0 .. Len(d) |-> g[n]]
    BY <1>5
  <2>5. QED
    BY <2>3, <2>4
<1>9. QED
  BY <1>6, <1>7, <1>8 DEF Adds
-----------------------------------------------------------------------------
(* ring_buffer_init                                                        *)

LEMMA Halves ==
  ASSUME NEW p \in Nat, NEW r \in 0 .. 1
  PROVE  2 * p + r \in Nat /\ (2 * p + r) \div 2 = p /\ (2 * p + r) % 2 = r
OBVIOUS

(* Every number is twice another, or one more.                             *)
LEMMA Halved ==
  ASSUME NEW x \in Nat
  PROVE  \E p \in Nat, r \in 0 .. 1 : x = 2 * p + r
<1>1. 2 \in Nat \ {0} /\ 2 - 1 = 1
  OBVIOUS
<1>2. \E q \in Nat, r \in 0 .. 2 - 1 : q = x \div 2 /\ r = x % 2 /\ x = 2 * q + r
  BY <1>1, Divided, Zenon
<1>3. QED
  BY <1>1, <1>2, Zenon

LEMMA AndZero ==
  ASSUME NEW a \in Nat
  PROVE  And[0][a] = 0 /\ And[a][0] = 0
BY AndFollows

(* And goes bit by bit.                                                    *)
LEMMA AndBits ==
  ASSUME NEW a \in Nat, NEW b \in Nat, And[a \div 2][b \div 2] \in Nat
  PROVE  And[a][b] = 2 * And[a \div 2][b \div 2] + (IF a % 2 = 1 /\ b % 2 = 1 THEN 1 ELSE 0)
<1> DEFINE half == And[a \div 2][b \div 2]
           r == a % 2
           s == b % 2
<1>1. /\ r \in 0 .. 1 /\ s \in 0 .. 1
      /\ (a = 0 => a \div 2 = 0 /\ r = 0) /\ (b = 0 => b \div 2 = 0 /\ s = 0)
      /\ a \div 2 \in Nat /\ b \div 2 \in Nat
  OBVIOUS
<1>2. And[a][b] = IF a = 0 \/ b = 0 THEN 0 ELSE 2 * half + r * s
  BY AndFollows
<1>3. a = 0 \/ b = 0 => half = 0 /\ ~(r = 1 /\ s = 1)
  BY <1>1, AndZero
<1> HIDE DEF half, r, s
<1>4. r * s = IF r = 1 /\ s = 1 THEN 1 ELSE 0
  BY <1>1
<1>5. half \in Nat
  BY DEF half
<1>6. And[a][b] = 2 * half + (IF r = 1 /\ s = 1 THEN 1 ELSE 0)
  BY <1>2, <1>3, <1>4, <1>5
<1>7. QED
  BY <1>6 DEF half, r, s

(* The same, for numbers that are written with their last bit.             *)
Bits(a, p, r) == a \in Nat /\ p \in Nat /\ a \div 2 = p /\ a % 2 = r

Joined(high, r, s) == 2 * high + (IF r = 1 /\ s = 1 THEN 1 ELSE 0)

LEMMA BitsOf ==
  ASSUME NEW p \in Nat, NEW r \in 0 .. 1
  PROVE  Bits(2 * p + r, p, r)
BY Halves DEF Bits

LEMMA AndOfBits ==
  ASSUME NEW a, NEW p, NEW r, Bits(a, p, r), NEW b, NEW q, NEW s, Bits(b, q, s),
         And[p][q] \in Nat
  PROVE  And[a][b] = Joined(And[p][q], r, s)
<1>1. a \in Nat /\ b \in Nat /\ a \div 2 = p /\ a % 2 = r /\ b \div 2 = q /\ b % 2 = s
  BY DEF Bits
<1>2. And[a \div 2][b \div 2] \in Nat
  BY <1>1, Zenon
<1>3. And[a][b] = 2 * And[a \div 2][b \div 2] + (IF a % 2 = 1 /\ b % 2 = 1 THEN 1 ELSE 0)
  BY <1>1, <1>2, AndBits, Zenon
<1>4. QED
  BY <1>1, <1>3, Zenon DEF Joined

LEMMA AndType == \A a, b \in Nat : And[a][b] \in Nat
<1> DEFINE T == {a \in Nat : \A b \in Nat : And[a][b] \in Nat}
<1>1. ASSUME NEW a \in Nat, \A k \in 0 .. a - 1 : k \in T
      PROVE  a \in T
  <2> SUFFICES ASSUME NEW b \in Nat PROVE And[a][b] \in Nat
    OBVIOUS
  <2>1. CASE a = 0
    BY <2>1, AndZero
  <2>2. CASE a # 0
    <3>1. PICK p \in Nat, r \in 0 .. 1 : a = 2 * p + r
      BY Halved
    <3>5. PICK q \in Nat, s \in 0 .. 1 : b = 2 * q + s
      BY Halved
    <3>2. p \in 0 .. a - 1
      BY <2>2, <3>1
    <3>3. And[p][q] \in Nat
      BY <1>1, <3>2
    <3>4. Bits(a, p, r) /\ Bits(b, q, s)
      BY <3>1, <3>5, BitsOf
    <3>6. And[a][b] = Joined(And[p][q], r, s)
      BY <3>3, <3>4, AndOfBits
    <3>7. QED
      BY <3>3, <3>6 DEF Joined
  <2>3. QED
    BY <2>1, <2>2
<1>2. Nat \subseteq T
  <2> HIDE DEF T
  <2>1. QED
    BY <1>1, Induction
<1>3. QED
  BY <1>2

LEMMA AndSelf == \A a \in Nat : And[a][a] = a
<1> DEFINE T == {a \in Nat : And[a][a] = a}
<1>1. ASSUME NEW a \in Nat, \A k \in 0 .. a - 1 : k \in T
      PROVE  a \in T
  <2>1. CASE a = 0
    BY <2>1, AndZero
  <2>2. CASE a # 0
    <3>1. PICK p \in Nat, r \in 0 .. 1 : a = 2 * p + r
      BY Halved
    <3>2. And[p][p] = p
      BY <1>1, <2>2, <3>1
    <3>3. Bits(a, p, r) /\ And[p][p] \in Nat
      BY <3>1, <3>2, BitsOf
    <3>4. And[a][a] = Joined(And[p][p], r, r)
      BY <3>3, AndOfBits
    <3>5. QED
      BY <3>1, <3>2, <3>4 DEF Joined
  <2>3. QED
    BY <2>1, <2>2
<1>2. Nat \subseteq T
  <2> HIDE DEF T
  <2>1. QED
    BY <1>1, Induction
<1>3. QED
  BY <1>2

(* What divides the counters' wrap in two or more is even.                 *)
LEMMA Divisor ==
  ASSUME NEW c \in Nat \ {0}, NEW q \in Nat, Wrap32 = c * q
  PROVE  c <= Wrap32 /\ Wrap32 % c = 0 /\ (c # 1 => \E d \in Nat : c = 2 * d)
<1>1. Wrap32 \in Nat \ {0} /\ 0 \in 0 .. c - 1 /\ Wrap32 = c * q + 0
  BY NumbersOK
<1>2. Wrap32 % c = 0
  BY <1>1, ModIs
<1>3. q >= 1
  <2>1. q = 0 => c * q = 0
    OBVIOUS
  <2>2. QED
    BY <1>1, <2>1
<1>4. c <= Wrap32
  <2>1. c * 1 <= c * q /\ c * 1 = c
    BY <1>3, TimesMonotonic
  <2>2. QED
    BY <1>1, <2>1
<1>5. ASSUME c # 1
      PROVE  \E d \in Nat : c = 2 * d
  <2>1. c \in 2 .. Wrap32
    BY <1>1, <1>4, <1>5
  <2>2. c % 2 = 0
    BY <1>2, <2>1, BinaryAssumption
  <2>3. PICK p \in Nat, r \in 0 .. 1 : c = 2 * p + r
    BY Halved
  <2>4. c % 2 = r
    BY <2>3, Halves
  <2>5. QED
    BY <2>2, <2>3, <2>4
<1>6. QED
  BY <1>2, <1>4, <1>5

LEMMA Doubled ==
  ASSUME NEW d \in Nat, NEW q \in Nat
  PROVE  (2 * d) * q = d * (2 * q) /\ (2 * d) * q = 2 * (d * q)
OBVIOUS

(* A capacity that passes the test masks as its remainder and divides the  *)
(* wrap of the counters.                                                   *)
Masks(c) == \A x \in Nat : And[x][c - 1] = x % c

LEMMA AcceptedIsRight ==
  ASSUME NEW c \in Nat \ {0}, And[c][c - 1] = 0
  PROVE  Masks(c) /\ (c <= Wrap32 => \E q \in Nat : Wrap32 = c * q)
<1> DEFINE Right(n) == Masks(n) /\ (n <= Wrap32 => \E q \in Nat : Wrap32 = n * q)
           T == {n \in Nat : n # 0 /\ And[n][n - 1] = 0 => Right(n)}
<1>1. ASSUME NEW n \in Nat, \A k \in 0 .. n - 1 : k \in T
      PROVE  n \in T
  <2> SUFFICES ASSUME n # 0, And[n][n - 1] = 0 PROVE Right(n)
    OBVIOUS
  <2>1. CASE n = 1
    <3>1. \A x \in Nat : x % 1 = 0
      OBVIOUS
    <3>2. Masks(1)
      BY <3>1, AndZero DEF Masks
    <3>3. Wrap32 = 1 * Wrap32 /\ Wrap32 \in Nat
      BY NumbersOK
    <3>4. QED
      BY <2>1, <3>2, <3>3
  <2>2. CASE n # 1
    <3>1. PICK d \in Nat, r \in 0 .. 1 : n = 2 * d + r
      BY Halved
    <3>2. d # 0 /\ d \in 0 .. n - 1 /\ d - 1 \in Nat
      BY <2>2, <3>1
    <3>3. r = 0
      <4>1. CASE r = 1
        <5>0. n = 2 * d + 1 /\ n - 1 = 2 * d + 0
          BY <3>1, <4>1
        <5>1. Bits(n, d, 1) /\ Bits(n - 1, d, 0)
          BY <5>0, BitsOf
        <5>2. And[d][d] = d /\ And[d][d] \in Nat
          BY AndSelf
        <5>3. And[n][n - 1] = Joined(And[d][d], 1, 0)
          BY <5>1, <5>2, AndOfBits
        <5>4. QED
          BY <3>2, <5>2, <5>3 DEF Joined
      <4>2. QED
        BY <4>1
    <3>4. /\ n = 2 * d + 0 /\ n - 1 = 2 * (d - 1) + 1
          /\ Bits(n, d, 0) /\ Bits(n - 1, d - 1, 1)
      <4>1. n = 2 * d + 0 /\ n - 1 = 2 * (d - 1) + 1
        BY <3>1, <3>3
      <4>2. QED
        BY <3>2, <4>1, BitsOf
    <3>5. And[d][d - 1] = 0
      <4>1. And[d][d - 1] \in Nat
        BY <3>2, AndType
      <4>2. And[n][n - 1] = Joined(And[d][d - 1], 0, 1)
        BY <3>4, <4>1, AndOfBits
      <4>3. QED
        BY <4>1, <4>2 DEF Joined
    <3>6. Right(d)
      BY <1>1, <3>2, <3>5
    <3>7. Masks(n)
      <4> SUFFICES ASSUME NEW x \in Nat PROVE And[x][n - 1] = x % n
        BY DEF Masks
      <4>1. PICK p \in Nat, s \in 0 .. 1 : x = 2 * p + s
        BY Halved
      <4>2. PICK k \in Nat, m \in 0 .. d - 1 : m = p % d /\ p = d * k + m
        <5>1. d \in Nat \ {0}
          BY <3>2
        <5>2. \E q \in Nat, i \in 0 .. d - 1 : q = p \div d /\ i = p % d /\ p = d * q + i
          BY <5>1, Divided, Zenon
        <5>3. QED
          BY <5>2, Zenon
      <4>3. And[p][d - 1] = m
        BY <3>6, <4>2 DEF Masks
      <4>4. And[x][n - 1] = 2 * m + s
        <5>1. And[x][n - 1] = Joined(And[p][d - 1], s, 1)
          <6>1. And[p][d - 1] \in Nat
            BY <3>2, AndType
          <6>2. Bits(x, p, s)
            BY <4>1, BitsOf
          <6>3. QED
            BY <3>4, <6>1, <6>2, AndOfBits
        <5>2. QED
          BY <4>2, <4>3, <5>1 DEF Joined
      <4>5. n * k = 2 * (d * k) /\ d * k \in Nat
        BY <3>4, Doubled
      <4>6. x = n * k + (2 * m + s) /\ 2 * m + s \in 0 .. n - 1
        BY <3>4, <4>1, <4>2, <4>5
      <4>7. x % n = 2 * m + s
        BY <4>6, ModIs
      <4>8. QED
        BY <4>4, <4>7
    <3>8. ASSUME n <= Wrap32
          PROVE  \E q \in Nat : Wrap32 = n * q
      <4>1. Wrap32 \in Nat \ {0}
        BY NumbersOK
      <4>2. PICK q \in Nat : Wrap32 = d * q
        <5>1. d <= Wrap32
          BY <3>4, <3>8, <4>1
        <5>2. QED
          BY <3>6, <5>1, Zenon
      <4>3. q \in Nat \ {0} /\ q # 1 /\ Wrap32 = q * d
        <5>1. d * 0 = 0 /\ d * 1 = d /\ q * d = d * q
          OBVIOUS
        <5>2. QED
          BY <3>2, <3>4, <3>8, <4>1, <4>2, <5>1
      <4>4. PICK k \in Nat : q = 2 * k
        BY <4>3, Divisor
      <4>5. Wrap32 = n * k
        BY <3>4, <4>2, <4>4, Doubled
      <4>6. QED
        BY <4>5
    <3>9. QED
      BY <3>7, <3>8
  <2>3. QED
    BY <2>1, <2>2
<1>2. Nat \subseteq T
  <2> HIDE DEF T
  <2>1. QED
    BY <1>1, Induction
<1>3. QED
  BY <1>2

(* No capacity that divides the wrap fails the test.                       *)
LEMMA DivisorIsAccepted == \A c \in Nat \ {0}, q \in Nat : Wrap32 = c * q => And[c][c - 1] = 0
<1> DEFINE T == {n \in Nat : \A q \in Nat : n # 0 /\ Wrap32 = n * q => And[n][n - 1] = 0}
<1>1. ASSUME NEW n \in Nat, \A k \in 0 .. n - 1 : k \in T
      PROVE  n \in T
  <2> SUFFICES ASSUME NEW q \in Nat, n # 0, Wrap32 = n * q PROVE And[n][n - 1] = 0
    OBVIOUS
  <2>1. CASE n = 1
    BY <2>1, AndZero
  <2>2. CASE n # 1
    <3>1. PICK d \in Nat : n = 2 * d
      BY <2>2, Divisor
    <3>2. d # 0 /\ d \in 0 .. n - 1 /\ d - 1 \in Nat /\ 2 * q \in Nat
      BY <3>1
    <3>3. Wrap32 = d * (2 * q)
      BY <3>1, Doubled
    <3>4. And[d][d - 1] = 0
      BY <1>1, <3>2, <3>3
    <3>5. Bits(n, d, 0) /\ Bits(n - 1, d - 1, 1) /\ And[d][d - 1] \in Nat
      <4>1. n = 2 * d + 0 /\ n - 1 = 2 * (d - 1) + 1
        BY <3>1
      <4>2. QED
        BY <3>2, <3>4, <4>1, BitsOf
    <3>6. And[n][n - 1] = Joined(And[d][d - 1], 0, 1)
      BY <3>5, AndOfBits
    <3>7. QED
      BY <3>4, <3>6 DEF Joined
  <2>3. QED
    BY <2>1, <2>2
<1>2. Nat \subseteq T
  <2> HIDE DEF T
  <2>1. QED
    BY <1>1, Induction
<1>3. QED
  BY <1>2

(* The test of ring_buffer_init accepts exactly the capacities for which   *)
(* the mask is the remainder and the counters wrap at a multiple, and at   *)
(* least at the double, whatever the width of the counters.                *)
THEOREM MaskIsRight == Spec => []MaskIsRemainder
<1>1. Init => MaskIsRemainder
  BY DEF Init, MaskIsRemainder
<1>2. MaskIsRemainder /\ [Next]_vars => MaskIsRemainder'
  <2> SUFFICES ASSUME MaskIsRemainder, [Next]_vars PROVE MaskIsRemainder'
    OBVIOUS
  <2>1. CASE UNCHANGED vars
    BY <2>1 DEF MaskIsRemainder, vars
  <2>2. CASE fn' # "ring_buffer_init"
    BY <2>2 DEF MaskIsRemainder
  <2>3. CASE InitRing
    <3>1. PICK c \in Capacities : ring_buffer_init(c)
      BY <2>3 DEF InitRing
    <3>2. c \in Nat /\ Wrap32 \in Nat \ {0} /\ Half32 \in Nat /\ 2 * Half32 = Wrap32
      BY NumbersOK, HalfOK DEF Uint32
    <3>3. AcceptedCapacity(c) <=> c # 0 /\ And[c][c - 1] = 0 /\ 2 * c <= Wrap32
      BY <3>2 DEF AcceptedCapacity, Half32
    <3>4. CASE AcceptedCapacity(c)
      <4>1. PICK counter \in Values :
              arg' = <<c, counter>> /\ result' = <<And[counter][c - 1]>>
        BY <3>1, <3>4 DEF ring_buffer_init, Call
      <4>2. counter \in Nat
        BY NumbersOK DEF Uint32
      <4>3. Masks(c) /\ \E q \in Nat : Wrap32 = c * q
        BY <3>2, <3>3, <3>4, AcceptedIsRight
      <4>4. And[counter][c - 1] = counter % c
        BY <4>2, <4>3 DEF Masks
      <4>5. Wrap32 % c = 0
        BY <3>2, <3>3, <3>4, <4>3, Divisor
      <4>6. arg'[1] = c /\ arg'[2] = counter /\ result'[1] = counter % c /\ result' # Nothing
        BY <4>1, <4>4 DEF Nothing
      <4>7. QED
        BY <3>2, <3>3, <3>4, <4>5, <4>6 DEF MaskIsRemainder
    <3>5. CASE ~AcceptedCapacity(c)
      <4>1. arg'[1] = c /\ result' = Nothing
        BY <3>1, <3>5 DEF ring_buffer_init, Call
      <4>2. c = 0 \/ Wrap32 % c # 0 \/ Wrap32 < 2 * c
        <5> SUFFICES ASSUME c # 0, Wrap32 % c = 0, ~(Wrap32 < 2 * c) PROVE FALSE
          OBVIOUS
        <5>1. PICK q \in Nat : Wrap32 = c * q
          <6>1. \E q \in Nat, r \in 0 .. c - 1 :
                  q = Wrap32 \div c /\ r = Wrap32 % c /\ Wrap32 = c * q + r
            BY <3>2, Divided
          <6>2. PICK q \in Nat : Wrap32 = c * q + 0
            BY <6>1
          <6>3. c * q \in Nat
            BY <3>2
          <6>4. QED
            BY <6>2, <6>3
        <5>2. And[c][c - 1] = 0
          BY <3>2, <5>1, DivisorIsAccepted
        <5>3. QED
          BY <3>2, <3>3, <3>5, <5>2
      <4>3. QED
        BY <4>1, <4>2 DEF MaskIsRemainder
    <3>6. QED
      BY <3>4, <3>5
  <2>4. QED
    BY <2>1, <2>2, <2>3, WhichCall
<1>3. QED
  BY <1>1, <1>2, PTL DEF Spec
-----------------------------------------------------------------------------
(* console_write_dec and fault_halt                                        *)

LEMMA NumberOfOne ==
  ASSUME NEW x \in Nat
  PROVE  NumberOf(<<x>>) = x
<1>1. <<x>> \in Seq(Nat) /\ Len(<<x>>) = 1 /\ <<x>>[1] = x
  OBVIOUS
<1>2. PICK g : Adds(g, <<x>>) /\ NumberOf(<<x>>) = g[Len(<<x>>)]
  BY <1>1, NumberFollows
<1>3. g[0] = 0 /\ g[1] = 10 * g[0] + x
  BY <1>1, <1>2 DEF Adds
<1>4. QED
  BY <1>1, <1>2, <1>3

(* A digit is appended: ten times the number, and the digit.               *)
LEMMA NumberOfMore ==
  ASSUME NEW d \in Seq(Nat), NEW x \in Nat
  PROVE  NumberOf(d) \in Nat /\ NumberOf(Append(d, x)) = 10 * NumberOf(d) + x
<1> DEFINE e == Append(d, x)
<1>1. /\ e \in Seq(Nat) /\ Len(d) \in Nat /\ Len(e) = Len(d) + 1
      /\ e[Len(e)] = x /\ \A i \in 1 .. Len(d) : e[i] = d[i]
  OBVIOUS
<1> HIDE DEF e
<1>2. PICK g : Adds(g, d) /\ NumberOf(d) = g[Len(d)]
  BY NumberFollows
<1>3. PICK h : Adds(h, e) /\ NumberOf(e) = h[Len(e)]
  BY <1>1, NumberFollows
<1> DEFINE T == {i \in Nat : i <= Len(d) => h[i] = g[i]}
<1>4. ASSUME NEW i \in Nat, \A k \in 0 .. i - 1 : k \in T
      PROVE  i \in T
  <2> SUFFICES ASSUME i <= Len(d) PROVE h[i] = g[i]
    OBVIOUS
  <2>1. CASE i = 0
    BY <1>2, <1>3, <2>1 DEF Adds
  <2>2. CASE i # 0
    <3>1. i \in 1 .. Len(d) /\ i \in 1 .. Len(e) /\ i - 1 \in 0 .. i - 1 /\ i - 1 <= Len(d)
      BY <1>1, <2>2
    <3>2. h[i - 1] = g[i - 1]
      BY <1>4, <3>1
    <3>3. g[i] = 10 * g[i - 1] + d[i] /\ h[i] = 10 * h[i - 1] + e[i] /\ e[i] = d[i]
      BY <1>1, <1>2, <1>3, <3>1 DEF Adds
    <3>4. QED
      BY <3>2, <3>3, Zenon
  <2>3. QED
    BY <2>1, <2>2
<1>5. Nat \subseteq T
  <2> HIDE DEF T
  <2>1. QED
    BY <1>4, Induction
<1>6. h[Len(d)] = g[Len(d)] /\ g[Len(d)] \in Nat
  <2>1. Len(d) \in T
    <3> HIDE DEF T
    <3>1. QED
      BY <1>1, <1>5
  <2>2. g[Len(d)] \in Nat
    BY <1>1, <1>2 DEF Adds
  <2>3. h[Len(d)] = g[Len(d)]
    BY <1>1, <2>1
  <2>4. QED
    BY <2>2, <2>3
<1>7. h[Len(e)] = 10 * h[Len(e) - 1] + e[Len(e)] /\ Len(e) - 1 = Len(d)
  <2>1. Len(e) \in 1 .. Len(e) /\ Len(e) - 1 = Len(d)
    BY <1>1
  <2>2. QED
    BY <1>3, <2>1 DEF Adds
<1>8. NumberOf(e) = 10 * NumberOf(d) + x /\ NumberOf(d) \in Nat
  <2>1. NumberOf(e) = 10 * h[Len(d)] + x
    BY <1>1, <1>3, <1>7, Zenon
  <2>2. QED
    BY <1>2, <1>6, <2>1, Zenon
<1>9. QED
  BY <1>8, Zenon DEF e

\* the digits tell the number, and start with one that is not zero
Reads(digits, n) ==
  /\ digits \in Seq(Nat) /\ digits # <<>> /\ NumberOf(digits) = n
  /\ (n = 0 => Len(digits) = 1) /\ (n # 0 => digits[1] # 0)

LEMMA OneDigitReads ==
  ASSUME NEW n \in Nat
  PROVE  Reads(<<n>>, n)
<1>1. <<n>> \in Seq(Nat) /\ <<n>> # <<>> /\ Len(<<n>>) = 1 /\ <<n>>[1] = n
  OBVIOUS
<1>2. QED
  BY <1>1, NumberOfOne DEF Reads

LEMMA MoreDigitsRead ==
  ASSUME NEW digits, NEW n \in Nat \ {0}, Reads(digits, n), NEW x \in Nat
  PROVE  Reads(Append(digits, x), 10 * n + x)
<1> DEFINE more == Append(digits, x)
<1>1. /\ digits \in Seq(Nat) /\ digits # <<>> /\ NumberOf(digits) = n /\ digits[1] # 0
  BY DEF Reads
<1>2. more \in Seq(Nat) /\ more # <<>> /\ more[1] = digits[1]
  BY <1>1
<1>3. NumberOf(more) = 10 * n + x
  BY <1>1, NumberOfMore
<1> HIDE DEF more
<1>4. 10 * n + x # 0
  OBVIOUS
<1>5. Reads(more, 10 * n + x)
  BY <1>1, <1>2, <1>3, <1>4 DEF Reads
<1>6. QED
  BY <1>5 DEF more

(* The digits of a number tell the number.                                 *)
LEMMA DigitsRead == \A n \in Nat : Reads(DigitsOf[n], n)
<1> DEFINE T == {n \in Nat : Reads(DigitsOf[n], n)}
<1>1. ASSUME NEW n \in Nat, \A k \in 0 .. n - 1 : k \in T
      PROVE  n \in T
  <2> SUFFICES Reads(DigitsOf[n], n)
    OBVIOUS
  <2>1. CASE n < 10
    <3>1. DigitsOf[n] = <<n>>
      BY <2>1, DigitsFollow
    <3>2. QED
      BY <3>1, OneDigitReads
  <2>2. CASE ~(n < 10)
    <3>1. DigitsOf[n] = Append(DigitsOf[n \div 10], n % 10)
      BY <2>2, DigitsFollow
    <3>2. PICK q \in Nat, r \in 0 .. 9 : q = n \div 10 /\ r = n % 10 /\ n = 10 * q + r
      <4>1. 10 \in Nat \ {0} /\ 10 - 1 = 9
        OBVIOUS
      <4>2. \E q \in Nat, r \in 0 .. 10 - 1 : q = n \div 10 /\ r = n % 10 /\ n = 10 * q + r
        BY <4>1, Divided, Zenon
      <4>3. QED
        BY <4>1, <4>2, Zenon
    <3>3. q \in Nat \ {0} /\ q \in 0 .. n - 1 /\ r \in Nat
      BY <2>2, <3>2
    <3>4. Reads(DigitsOf[q], q)
      BY <1>1, <3>3
    <3>5. Reads(Append(DigitsOf[q], r), 10 * q + r)
      BY <3>3, <3>4, MoreDigitsRead
    <3>6. QED
      BY <3>1, <3>2, <3>5, Zenon
  <2>3. QED
    BY <2>1, <2>2
<1>2. Nat \subseteq T
  <2> HIDE DEF T
  <2>1. QED
    BY <1>1, Induction
<1>3. QED
  BY <1>2

LEMMA WrittenRight ==
  ASSUME NEW n \in Nat
  PROVE  NumberOf(console_write_dec(n)) = n /\ NoLeadingZero(console_write_dec(n))
<1> DEFINE digits == DigitsOf[n]
<1>1. Reads(digits, n)
  BY DigitsRead
<1> HIDE DEF digits
<1>2. NumberOf(digits) = n /\ NoLeadingZero(digits)
  <2>1. Len(digits) > 1 => Len(digits) # 1
    OBVIOUS
  <2>2. QED
    BY <1>1, <2>1, Zenon DEF Reads, NoLeadingZero
<1>3. QED
  BY <1>2, Zenon DEF console_write_dec, digits

LEMMA DigitsAreRight == Spec => []DigitsReadBack
<1>1. Init => DigitsReadBack
  BY DEF Init, DigitsReadBack
<1>2. DigitsReadBack /\ [Next]_vars => DigitsReadBack'
  <2> SUFFICES ASSUME DigitsReadBack, [Next]_vars PROVE DigitsReadBack'
    OBVIOUS
  <2>1. CASE UNCHANGED vars
    BY <2>1 DEF DigitsReadBack, vars
  <2>2. CASE fn' # "console_write_dec" /\ fn' # "fault_halt"
    BY <2>2 DEF DigitsReadBack
  <2>3. CASE WriteDec
    <3>1. PICK n \in Values :
            /\ fn' = "console_write_dec"
            /\ arg' = <<n>> /\ result' = console_write_dec(n)
      BY <2>3 DEF WriteDec, Call
    <3>2. n \in Nat
      BY NumbersOK DEF Uint32
    <3>3. arg'[1] = n
      BY <3>1
    <3>4. NumberOf(result') = arg'[1] /\ NoLeadingZero(result')
      BY <3>1, <3>2, <3>3, WrittenRight
    <3>5. QED
      BY <3>1, <3>4 DEF DigitsReadBack
  <2>4. CASE WriteCode
    <3>1. PICK code \in Millis :
            /\ fn' = "fault_halt" /\ arg' = <<code>>
            /\ result' = [sign |-> IF code < 0 THEN "-" ELSE "",
                          digits |-> console_write_dec(Magnitude(code))]
      BY <2>4 DEF WriteCode, Call
    <3>2. /\ code \in Int
          /\ Magnitude(code) \in Nat
          /\ Magnitude(code) = IF code < 0 THEN -code ELSE code
      <4>1. code \in Int32
        BY NumbersOK
      <4>2. QED
        BY <4>1, HalfOK, MagnitudeRight
    <3>3. /\ arg'[1] = code /\ result'.digits = console_write_dec(Magnitude(code))
          /\ result'.sign = "-" <=> code < 0
      BY <3>1
    <3>4. NoLeadingZero(result'.digits) /\ NumberOf(result'.digits) = Magnitude(code)
      BY <3>2, <3>3, WrittenRight
    <3>5. NumberOf(result'.digits) = IF result'.sign = "-" THEN -arg'[1] ELSE arg'[1]
      BY <3>2, <3>3, <3>4
    <3>6. QED
      BY <3>1, <3>4, <3>5 DEF DigitsReadBack
  <2>5. QED
    BY <2>1, <2>2, <2>3, <2>4, WhichCall
<1>3. QED
  BY <1>1, <1>2, PTL DEF Spec
-----------------------------------------------------------------------------
(* Texts tell the values                                                   *)

(* Both roundings together, to a whole milli-degree and to ten of them,    *)
(* move a reading by 11 of its half units at most.                         *)
LEMMA TemperatureShown ==
  ASSUME NEW code \in 0 .. FullScale - 1
  PROVE  LET shown == Shown(consumer_fmt_sensor("temperature", code))
             error == (shown * 10 + TempOffset) * FullScale - code * TempGain
         IN /\ shown \in Int
            /\ -(11 * FullScale) <= 2 * error /\ 2 * error <= 11 * FullScale
<1> DEFINE text == consumer_fmt_sensor("temperature", code)
           milli == xadc_drv_code_to_milli("temperature", code)
<1>1. /\ "temperature" \in Kind /\ Decimals["temperature"] = 2
      /\ Offset["temperature"] = TempOffset /\ Gain["temperature"] = TempGain
      /\ Pow10[3 - 2] = 10
  BY DEF Kind, Decimals, Offset, Gain, Pow10
<1>2. milli \in Int32
  BY <1>1, ScaledNearest
<1>3. text = console_fmt_milli(milli, 2)
  BY <1>1 DEF consumer_fmt_sensor
<1>4. Shown(text) \in Int /\ text.digits = 2
  <2> HIDE DEF text, milli
  <2>1. QED
    BY <1>2, <1>3, PrintedNearest
<1>5. LET unit == Pow10[3 - text.digits]
          error == (Shown(text) * unit + Offset["temperature"]) * FullScale
                     - code * Gain["temperature"]
          half == IF unit = 1 THEN 0 ELSE unit
      IN -(half + 1) * FullScale <= 2 * error /\ 2 * error <= (half + 1) * FullScale
  BY <1>1, ReadingRight
<1> DEFINE error == (Shown(text) * 10 + TempOffset) * FullScale - code * TempGain
<1> HIDE DEF text
<1>6. /\ -(10 + 1) * FullScale <= 2 * error /\ 2 * error <= (10 + 1) * FullScale
  BY <1>1, <1>4, <1>5
<1> HIDE DEF error
<1>7. -(10 + 1) * FullScale = -(11 * FullScale) /\ (10 + 1) * FullScale = 11 * FullScale
  BY NumbersOK
<1>8. -(11 * FullScale) <= 2 * error /\ 2 * error <= 11 * FullScale
  BY <1>6, <1>7
<1>9. QED
  BY <1>4, <1>8 DEF text, error

(* A code is more than both roundings away from the next.                  *)
LEMMA TemperaturesApart ==
  ASSUME NEW low \in 0 .. FullScale - 1, NEW high \in 0 .. FullScale - 1, low < high
  PROVE  Shown(consumer_fmt_sensor("temperature", low))
           < Shown(consumer_fmt_sensor("temperature", high))
<1> DEFINE a == Shown(consumer_fmt_sensor("temperature", low))
           b == Shown(consumer_fmt_sensor("temperature", high))
           F == FullScale
           aF == (a * 10 + TempOffset) * F
           bF == (b * 10 + TempOffset) * F
           lG == low * TempGain
           hG == high * TempGain
<1>1. /\ a \in Int /\ 2 * (aF - lG) <= 11 * F
      /\ b \in Int /\ -(11 * F) <= 2 * (bF - hG)
  BY TemperatureShown
<1> HIDE DEF a, b
<1>2. F \in Nat \ {0} /\ TempGain \in Nat /\ TempOffset \in Nat /\ 11 * F < TempGain
  BY NumbersOK, ResolutionAssumption
<1>3. lG + TempGain <= hG /\ lG \in Nat /\ hG \in Nat
  <2>1. low \in Nat /\ high \in Nat /\ low + 1 <= high
    BY <1>2
  <2>2. (low + 1) * TempGain <= high * TempGain
    BY <1>2, <2>1, TimesMonotonic
  <2>3. (low + 1) * TempGain = low * TempGain + TempGain
    BY <1>2, <2>1
  <2>4. QED
    BY <1>2, <2>1, <2>2, <2>3
<1>4. SUFFICES ASSUME b <= a PROVE FALSE
  BY <1>1 DEF a, b
<1>5. bF <= aF /\ aF \in Int /\ bF \in Int
  <2>1. /\ a * 10 + TempOffset \in Int /\ b * 10 + TempOffset \in Int
        /\ b * 10 + TempOffset <= a * 10 + TempOffset
    BY <1>1, <1>2, <1>4
  <2>2. QED
    BY <1>2, <2>1, TimesMonotonic
<1> HIDE DEF aF, bF, lG, hG, F
<1>6. QED
  BY <1>1, <1>2, <1>3, <1>5

LEMMA TemperaturesAreDistinct == Spec => []TemperaturesDistinct
<1>1. Init => TemperaturesDistinct
  BY DEF Init, TemperaturesDistinct
<1>2. TemperaturesDistinct /\ [Next]_vars => TemperaturesDistinct'
  <2> SUFFICES ASSUME TemperaturesDistinct, [Next]_vars PROVE TemperaturesDistinct'
    OBVIOUS
  <2>1. CASE UNCHANGED vars
    BY <2>1 DEF TemperaturesDistinct, vars, Shown
  <2>2. CASE fn' # "consumer_fmt_sensor"
    BY <2>2 DEF TemperaturesDistinct
  <2>3. CASE FormatSensor
    <3>1. PICK kind \in Kind, high \in 0 .. FullScale - 1 :
            arg' = <<kind, high>> /\ result' = consumer_fmt_sensor(kind, high)
      BY <2>3 DEF FormatSensor, Call
    <3>2. arg'[1] = kind /\ arg'[2] = high
      BY <3>1
    <3>3. ASSUME kind = "temperature", NEW low \in 0 .. high - 1
          PROVE  Shown(consumer_fmt_sensor("temperature", low)) < Shown(result')
      <4>1. low \in 0 .. FullScale - 1 /\ low < high
        BY NumbersOK
      <4>2. Shown(consumer_fmt_sensor("temperature", low))
              < Shown(consumer_fmt_sensor("temperature", high))
        BY <4>1, TemperaturesApart
      <4>3. QED
        BY <3>1, <3>3, <4>2, Zenon
    <3>4. QED
      BY <3>2, <3>3 DEF TemperaturesDistinct, Shown
  <2>4. QED
    BY <2>1, <2>2, <2>3, WhichCall
<1>3. QED
  BY <1>1, <1>2, PTL DEF Spec

(* Each printed value can be told from its text: different temperatures    *)
(* are printed as different numbers, in their order, and a decimal number  *)
(* or a fault's code is printed as its digits, whatever its size.          *)
THEOREM TextsAreRight == Spec => []TextsReadBack
<1>1. TemperaturesDistinct /\ DigitsReadBack => TextsReadBack
  BY DEF TextsReadBack
<1>2. QED
  BY <1>1, TemperaturesAreDistinct, DigitsAreRight, PTL
=============================================================================
