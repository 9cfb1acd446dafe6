-------------------------- MODULE ModularArithmetic --------------------------
(***************************************************************************)
(* Lemmas about the remainder of integers: what the wrap of a uint32_t and *)
(* the index mask of the ring buffer rest on.                              *)
(***************************************************************************)
EXTENDS Integers, TLAPS

(* A remainder lies in 0 .. n - 1.                                         *)
LEMMA ModRange ==
  ASSUME NEW n \in Nat \ {0}, NEW x \in Int
  PROVE  x % n \in 0 .. n - 1
OBVIOUS

(* Division with remainder.                                                *)
LEMMA ModDef ==
  ASSUME NEW n \in Nat \ {0}, NEW x \in Int
  PROVE  x = n * (x \div n) + (x % n) /\ x \div n \in Int
OBVIOUS

(* Quotient and remainder are determined.                                  *)
LEMMA DivUnique ==
  ASSUME NEW n \in Nat \ {0},
         NEW q \in Int, NEW r \in 0 .. n - 1, NEW p \in Int, NEW s \in 0 .. n - 1,
         n * q + r = n * p + s
  PROVE  q = p /\ r = s
OBVIOUS

(* Within the range the remainder is the number itself.                    *)
LEMMA ModSmall ==
  ASSUME NEW n \in Nat \ {0}, NEW x \in 0 .. n - 1
  PROVE  x % n = x
OBVIOUS

(* Whoever is a multiple of n plus a remainder has that remainder.         *)
LEMMA ModIs ==
  ASSUME NEW n \in Nat \ {0}, NEW x \in Int, NEW q \in Int, NEW r \in 0 .. n - 1,
         x = n * q + r
  PROVE  x % n = r
<1>1. x % n \in 0 .. n - 1
  BY ModRange
<1>2. x = n * (x \div n) + (x % n) /\ x \div n \in Int
  BY ModDef
<1> DEFINE d == x \div n
           m == x % n
<1>3. d \in Int /\ m \in 0 .. n - 1 /\ n * q + r = n * d + m
  BY <1>1, <1>2
<1> HIDE DEF d, m
<1>4. m = r
  BY <1>3, DivUnique
<1>5. QED
  BY <1>4 DEF m

(* Multiples of n do not change the remainder.                             *)
LEMMA ModAddMultiple ==
  ASSUME NEW n \in Nat \ {0}, NEW x \in Int, NEW q \in Int
  PROVE  (x + n * q) % n = x % n
<1> DEFINE d == x \div n
           r == x % n
<1>1. r \in 0 .. n - 1
  BY ModRange
<1>2. x = n * d + r /\ d \in Int
  BY ModDef
<1>3. n * (d + q) = n * d + n * q
  BY <1>2
<1>4. x + n * q = n * (d + q) + r
  BY <1>1, <1>2, <1>3
<1>5. d + q \in Int /\ x + n * q \in Int
  BY <1>2
<1> HIDE DEF d, r
<1>6. (x + n * q) % n = r
  BY <1>1, <1>4, <1>5, ModIs
<1>7. QED
  BY <1>6 DEF r

(* A term of a sum may be reduced first.                                   *)
LEMMA ModAdd ==
  ASSUME NEW n \in Nat \ {0}, NEW x \in Int, NEW y \in Int
  PROVE  ((x % n) + y) % n = (x + y) % n
<1> DEFINE d == x \div n
           r == x % n
<1>1. r \in 0 .. n - 1
  BY ModRange
<1>2. x = n * d + r /\ d \in Int
  BY ModDef
<1> HIDE DEF d, r
<1>3. r + y \in Int /\ x + y = (r + y) + n * d
  BY <1>1, <1>2
<1>4. ((r + y) + n * d) % n = (r + y) % n
  BY <1>2, <1>3, ModAddMultiple
<1>5. QED
  BY <1>3, <1>4 DEF r

(* Two numbers less than n apart have different remainders.                *)
LEMMA ModDistinct ==
  ASSUME NEW n \in Nat \ {0}, NEW x \in Int, NEW y \in Int,
         x < y, y < x + n
  PROVE  x % n # y % n
<1> DEFINE r == x % n
           s == y % n
           p == x \div n
           q == y \div n
<1> SUFFICES ASSUME r = s PROVE FALSE
  OBVIOUS
<1>1. r \in 0 .. n - 1 /\ s \in 0 .. n - 1
  BY ModRange
<1>2. x = n * p + r /\ p \in Int
  BY ModDef
<1>3. y = n * q + s /\ q \in Int
  BY ModDef
<1> HIDE DEF r, s, p, q
<1>4. n * q - n * p > 0 /\ n * q - n * p < n
  BY <1>1, <1>2, <1>3
<1>5. n * (q - p) = n * q - n * p
  BY <1>2, <1>3
<1>6. CASE q - p <= 0
  <2>1. n * (q - p) <= 0
    BY <1>2, <1>3, <1>6
  <2>2. QED
    BY <2>1, <1>2, <1>3, <1>4, <1>5
<1>7. CASE q - p >= 1
  <2>1. n * (q - p) >= n
    BY <1>2, <1>3, <1>7
  <2>2. QED
    BY <2>1, <1>2, <1>3, <1>4, <1>5
<1>8. QED
  BY <1>2, <1>3, <1>6, <1>7

(* The remainder modulo a divisor m of n can be taken of the remainder     *)
(* modulo n: why an index mask may be applied to a wrapped counter.        *)
LEMMA ModOfMod ==
  ASSUME NEW m \in Nat \ {0}, NEW n \in Nat \ {0}, n % m = 0, NEW x \in Int
  PROVE  (x % n) % m = x % m
<1> DEFINE d == x \div n
           r == x % n
           k == n \div m
<1>1. r \in 0 .. n - 1
  BY ModRange
<1>2. x = n * d + r /\ d \in Int
  BY ModDef
<1>3. n = m * k + (n % m) /\ k \in Int
  BY ModDef
<1> HIDE DEF d, r, k
<1>4. n = m * k
  BY <1>3
<1>5. n * d = m * (k * d) /\ k * d \in Int
  BY <1>2, <1>3, <1>4
<1>6. x = r + m * (k * d)
  BY <1>1, <1>2, <1>5
<1>7. (r + m * (k * d)) % m = r % m
  <2> DEFINE e == k * d
  <2>1. r \in Int /\ e \in Int
    BY <1>1, <1>5
  <2> HIDE DEF e
  <2>2. (r + m * e) % m = r % m
    BY <2>1, ModAddMultiple
  <2>3. QED
    BY <2>2 DEF e
<1>8. QED
  BY <1>6, <1>7 DEF r

(* A subtrahend may be reduced first.                                      *)
LEMMA ModSub ==
  ASSUME NEW n \in Nat \ {0}, NEW x \in Int, NEW y \in Int
  PROVE  (x - (y % n)) % n = (x - y) % n
<1> DEFINE d == y \div n
           r == y % n
<1>1. r \in 0 .. n - 1
  BY ModRange
<1>2. y = n * d + r /\ d \in Int
  BY ModDef
<1> HIDE DEF d, r
<1>3. x - y \in Int /\ x - r = (x - y) + n * d
  BY <1>1, <1>2
<1>4. ((x - y) + n * d) % n = (x - y) % n
  BY <1>2, <1>3, ModAddMultiple
<1>5. QED
  BY <1>3, <1>4 DEF r

(* The difference of two clock readings does not depend on the wraps       *)
(* between them.                                                           *)
LEMMA DifferenceOfReadings ==
  ASSUME NEW n \in Nat \ {0}, NEW x \in Int, NEW y \in Int
  PROVE  ((x % n) - (y % n)) % n = (x - y) % n
<1> DEFINE r == y % n
           m == 0 - r
           z == x % n
<1>1. r \in Int /\ m \in Int /\ z \in Int
  BY ModRange
<1>2. z - r = z + m /\ x + m = x - r
  BY <1>1
<1>3. (x - r) % n = (x - y) % n
  BY ModSub
<1> HIDE DEF m
<1>4. (z + m) % n = (x + m) % n
  BY <1>1, ModAdd
<1>5. QED
  BY <1>2, <1>3, <1>4

(* A tick later, a reading is one tick older.                              *)
LEMMA ReadingAges ==
  ASSUME NEW n \in Nat \ {0}, NEW t \in Int, NEW age \in Int
  PROVE  (((t + 1) % n) - (age + 1)) % n = (t - age) % n
<1> DEFINE u == t + 1
           m == 0 - (age + 1)
           z == u % n
<1>1. u \in Int /\ m \in Int /\ z \in Int
  BY ModRange
<1>2. z - (age + 1) = z + m /\ u + m = t - age
  BY <1>1
<1> HIDE DEF u, m
<1>3. (z + m) % n = (u + m) % n
  BY <1>1, ModAdd
<1>4. QED
  BY <1>2, <1>3 DEF u
=============================================================================
