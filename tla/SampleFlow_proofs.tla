-------------------------- MODULE SampleFlow_proofs --------------------------
(***************************************************************************)
(* Proofs about RingBuffer, RingBufferCalls and SampleFlow, for every      *)
(* capacity, counter width, batch size, queue length and number of ticks   *)
(* and key presses.                                                        *)
(*                                                                         *)
(* The first part is the ring's: what its operations do to fill level,     *)
(* types and contents, and that it implements the drop-oldest queue. The   *)
(* second part rests on it. No wake-up is lost (FlowInv), whatever the     *)
(* scheduler does: the mutex and the order of the calls suffice. Samples   *)
(* and ticks are accounted for across the wrap of any counter              *)
(* (AccountInv). With the priorities of app_config.h no inversion is       *)
(* unbounded and no read times out. Until a counter wraps, records arrive  *)
(* in order, losses are real, printed counts agree (OrderInv). Every step  *)
(* is one of SampleStream's or none.                                       *)
(***************************************************************************)
EXTENDS SampleFlow, RingBufferCalls, ModularArithmetic

-----------------------------------------------------------------------------
(* Part 1: the ring buffer                                                 *)

(* The constants in the form the arithmetic lemmas ask for.                *)
LEMMA ConstantsOK ==
  /\ Capacity \in Nat \ {0} /\ Wrap \in Nat \ {0}
  /\ 2 * Capacity <= Wrap /\ Capacity < Wrap
  /\ Wrap % Capacity = 0
BY RBAssumption

LEMMA CountInUint32 ==
  ASSUME RBTypeOK
  PROVE  ring_buffer_count \in Uint32
BY ConstantsOK, ModRange DEF RBTypeOK, Uint32, ring_buffer_count

(* Counters that move on by a and b with a - b staying in reach: head ahead *)
(* of tail by the old distance plus a - b.                                  *)
LEMMA CountMoves ==
  ASSUME RBTypeOK, NEW a \in Int, NEW b \in Int,
         head' = (head + a) % Wrap, tail' = (tail + b) % Wrap,
         ring_buffer_count + (a - b) \in Uint32
  PROVE  ring_buffer_count' = ring_buffer_count + (a - b)
<1> DEFINE n == ring_buffer_count + (a - b)
           t == tail + b
<1>1. /\ Wrap \in Nat \ {0} /\ t \in Int
      /\ head + a \in Int /\ (head + a) % Wrap \in Int /\ head - tail \in Int
  BY ConstantsOK, ModRange DEF RBTypeOK, Uint32
<1>2. ring_buffer_count' = (((head + a) % Wrap) - (t % Wrap)) % Wrap
  BY DEF ring_buffer_count
<1> HIDE DEF t
<1>3. (((head + a) % Wrap) - (t % Wrap)) % Wrap = (((head + a) % Wrap) - t) % Wrap
  BY <1>1, ModSub
<1>4. (((head + a) % Wrap) + (-t)) % Wrap = ((head + a) + (-t)) % Wrap
  BY <1>1, ModAdd
<1>5. /\ ((head + a) % Wrap) + (-t) = ((head + a) % Wrap) - t
      /\ (head + a) + (-t) = (head - tail) + (a - b)
  BY <1>1, ConstantsOK DEF t, RBTypeOK, Uint32
<1>6. (((head - tail) % Wrap) + (a - b)) % Wrap = ((head - tail) + (a - b)) % Wrap
  <2> DEFINE d == a - b
  <2>1. d \in Int
    OBVIOUS
  <2> HIDE DEF d
  <2>2. (((head - tail) % Wrap) + d) % Wrap = ((head - tail) + d) % Wrap
    BY <1>1, <2>1, ModAdd
  <2>3. QED
    BY <2>2 DEF d
<1>7. n \in 0 .. Wrap - 1
  BY DEF Uint32
<1>8. ring_buffer_count' = n % Wrap
  BY <1>2, <1>3, <1>4, <1>5, <1>6 DEF ring_buffer_count
<1> HIDE DEF n
<1>9. n % Wrap = n
  BY <1>7, ConstantsOK, ModSmall
<1>10. QED
  BY <1>8, <1>9 DEF n

(* A counter left alone is a counter moved on by nothing.                  *)
LEMMA CounterStays ==
  ASSUME NEW c \in Uint32
  PROVE  c = (c + 0) % Wrap
BY ConstantsOK, ModSmall DEF Uint32

LEMMA RingInit ==
  ASSUME ring_buffer_init
  PROVE  RBInv /\ ring_buffer_count = 0
<1>1. 0 \in Uint32 /\ (0 - 0) % Wrap = 0
  BY ConstantsOK, ModSmall DEF Uint32
<1>2. ring_buffer_count = 0
  BY <1>1 DEF ring_buffer_init, ring_buffer_count
<1>3. RBTypeOK
  BY <1>1 DEF ring_buffer_init, RBTypeOK
<1>4. FillWithinCapacity
  BY <1>2, ConstantsOK DEF ring_buffer_init, FillWithinCapacity
<1>5. QED
  BY <1>2, <1>3, <1>4 DEF RBInv

(* ring_buffer_push: one record more, or as many as before when full.      *)
LEMMA PushCount ==
  ASSUME RBInv, NEW record, ring_buffer_push(record)
  PROVE  /\ dropped_oldest => ring_buffer_count' = Capacity
         /\ ~dropped_oldest => ring_buffer_count' = ring_buffer_count + 1
         /\ ring_buffer_count' \in 1 .. Capacity
<1>1. ring_buffer_count \in 0 .. Capacity
  BY CountInUint32, ConstantsOK DEF RBInv, FillWithinCapacity, Uint32
<1>2. head' = (head + 1) % Wrap
  BY DEF ring_buffer_push
<1>3. CASE dropped_oldest
  <2>1. tail' = (tail + 1) % Wrap
    BY <1>3 DEF ring_buffer_push, GiveUpOldest, KeepOldest
  <2>2. ring_buffer_count + (1 - 1) \in Uint32
    BY <1>1, ConstantsOK DEF Uint32
  <2>3. ring_buffer_count' = ring_buffer_count + (1 - 1)
    BY <1>2, <2>1, <2>2, CountMoves DEF RBInv
  <2>4. QED
    BY <1>1, <1>3, <2>3, ConstantsOK DEF dropped_oldest
<1>4. CASE ~dropped_oldest
  <2>1. tail' = (tail + 0) % Wrap
    BY <1>4, CounterStays DEF ring_buffer_push, GiveUpOldest, KeepOldest, RBInv, RBTypeOK
  <2>2. ring_buffer_count + 1 \in 1 .. Capacity
    BY <1>1, <1>4, ConstantsOK DEF dropped_oldest
  <2>3. ring_buffer_count + (1 - 0) \in Uint32
    BY <2>2, ConstantsOK DEF Uint32
  <2>4. ring_buffer_count' = ring_buffer_count + (1 - 0)
    BY <1>2, <2>1, <2>3, CountMoves DEF RBInv
  <2>5. QED
    BY <1>1, <1>4, <2>2, <2>4, ConstantsOK
<1>5. QED
  BY <1>3, <1>4

LEMMA PushPreserves ==
  ASSUME RBInv, NEW record \in Record, ring_buffer_push(record)
  PROVE  RBInv'
<1>1. ring_buffer_count' \in 1 .. Capacity
  BY PushCount
<1>2. ring_buffer_count' = (head' - tail') % Wrap
  BY DEF ring_buffer_count
<1>3. RBTypeOK'
  <2>1. storage' \in [0 .. Capacity - 1 -> Record \cup {Blank}]
    BY DEF ring_buffer_push, RBInv, RBTypeOK
  <2>2. head' \in Uint32
    BY ConstantsOK, ModRange DEF ring_buffer_push, RBInv, RBTypeOK, Uint32
  <2>3. tail' \in Uint32 /\ overwritten' \in Uint32
    <3>1. /\ tail + 1 \in Int /\ overwritten + 1 \in Int
          /\ Wrap \in Nat \ {0}
      BY ConstantsOK DEF RBInv, RBTypeOK, Uint32
    <3>2. (tail + 1) % Wrap \in Uint32 /\ (overwritten + 1) % Wrap \in Uint32
      BY <3>1, ModRange DEF Uint32
    <3>3. QED
      BY <3>2 DEF ring_buffer_push, GiveUpOldest, KeepOldest, RBInv, RBTypeOK
  <2>4. fill_high_water' \in Uint32 /\ has_newest' \in BOOLEAN
    BY <1>1, <1>2, ConstantsOK DEF ring_buffer_push, RaiseHighWater, RBInv, RBTypeOK, Uint32
  <2>5. QED
    BY <2>1, <2>2, <2>3, <2>4 DEF RBTypeOK, Uint32
<1>4. FillWithinCapacity'
  BY <1>1, <1>2, ConstantsOK
     DEF ring_buffer_push, RaiseHighWater, RBInv, RBTypeOK, FillWithinCapacity, Uint32
<1>5. QED
  BY <1>3, <1>4 DEF RBInv

(* pop_count never asks for more than there is.                            *)
LEMMA PopCountOK ==
  ASSUME RBInv, NEW max_records \in Nat
  PROVE  /\ pop_count(max_records) \in 0 .. ring_buffer_count
         /\ pop_count(max_records) <= max_records
         /\ pop_count(max_records) < max_records => pop_count(max_records) = ring_buffer_count
BY CountInUint32, ConstantsOK DEF RBInv, pop_count, Uint32

(* The second half of ring_buffer_pop: that many records fewer.            *)
LEMMA ReleaseCount ==
  ASSUME RBInv, NEW count \in 0 .. ring_buffer_count, ReleaseOldest(count)
  PROVE  ring_buffer_count' = ring_buffer_count - count
<1>1. ring_buffer_count \in 0 .. Capacity
  BY CountInUint32, ConstantsOK DEF RBInv, FillWithinCapacity, Uint32
<1>2. head' = (head + 0) % Wrap /\ tail' = (tail + count) % Wrap
  BY CounterStays DEF ReleaseOldest, RBInv, RBTypeOK
<1>3. count \in Int /\ ring_buffer_count + (0 - count) \in Uint32
  BY <1>1, ConstantsOK DEF Uint32
<1>4. ring_buffer_count' = ring_buffer_count + (0 - count)
  BY <1>2, <1>3, CountMoves DEF RBInv
<1>5. QED
  BY <1>1, <1>4

LEMMA ReleasePreserves ==
  ASSUME RBInv, NEW count \in 0 .. ring_buffer_count, ReleaseOldest(count)
  PROVE  RBInv'
<1>1. ring_buffer_count \in 0 .. Capacity
  BY CountInUint32, ConstantsOK DEF RBInv, FillWithinCapacity, Uint32
<1>2. ring_buffer_count' = ring_buffer_count - count
  BY ReleaseCount
<1>3. RBTypeOK'
  BY <1>1, ConstantsOK, ModRange DEF ReleaseOldest, RBInv, RBTypeOK, Uint32
<1>4. FillWithinCapacity'
  BY <1>1, <1>2, ConstantsOK
     DEF ReleaseOldest, RBInv, RBTypeOK, FillWithinCapacity, Uint32
<1>5. QED
  BY <1>3, <1>4 DEF RBInv

-----------------------------------------------------------------------------
(* Slots: where a counter's record lies.                                   *)

LEMMA SlotRange ==
  ASSUME NEW c \in Int
  PROVE  Slot(c) \in 0 .. Capacity - 1
<1>1. c % Wrap \in Int
  BY ConstantsOK, ModRange
<1>2. QED
  BY <1>1, ConstantsOK, ModRange DEF Slot

(* The wrap of the counter does not move the slot.                         *)
LEMMA SlotIsMod ==
  ASSUME NEW c \in Int
  PROVE  Slot(c) = c % Capacity
BY ConstantsOK, ModOfMod DEF Slot

LEMMA SlotOfWrapped ==
  ASSUME NEW c \in Int, NEW a \in Int
  PROVE  Slot((c % Wrap) + a) = Slot(c + a)
<1>1. ((c % Wrap) + a) % Wrap = (c + a) % Wrap
  BY ConstantsOK, ModAdd
<1>2. QED
  BY <1>1 DEF Slot

(* Counters less than Capacity apart use different slots.                  *)
LEMMA SlotDistinct ==
  ASSUME NEW c \in Int, NEW d \in Int, c < d, d < c + Capacity
  PROVE  Slot(c) # Slot(d)
BY ConstantsOK, SlotIsMod, ModDistinct

(* The slot head is about to use lies one fill level after tail's.         *)
LEMMA SlotOfHead ==
  ASSUME RBTypeOK
  PROVE  Slot(head) = Slot(tail + ring_buffer_count)
<1>1. head \in Int /\ tail \in Int /\ head - tail \in Int
  BY ConstantsOK DEF RBTypeOK, Uint32
<1>2. Slot(((head - tail) % Wrap) + tail) = Slot((head - tail) + tail)
  BY <1>1, SlotOfWrapped
<1>3. (head - tail) + tail = head
  BY <1>1
<1>4. ((head - tail) % Wrap) + tail = tail + ((head - tail) % Wrap)
  BY <1>1, ConstantsOK, ModRange
<1>5. QED
  BY <1>2, <1>3, <1>4 DEF ring_buffer_count

-----------------------------------------------------------------------------
(* The records waiting, as a sequence.                                     *)

ContentsShape ==
  /\ Contents = [i \in 1 .. ring_buffer_count |-> storage[Slot(tail + i - 1)]]
  /\ Contents \in Seq(Record \cup {Blank})
  /\ Len(Contents) = ring_buffer_count
  /\ ring_buffer_count \in 0 .. Capacity

LEMMA ContentsIs == RBInv => ContentsShape
<1> SUFFICES ASSUME RBInv PROVE ContentsShape
  OBVIOUS
<1>1. ring_buffer_count \in 0 .. Capacity
  BY CountInUint32, ConstantsOK DEF RBInv, FillWithinCapacity, Uint32
<1>2. pop_count(Capacity) = ring_buffer_count
  BY <1>1, ConstantsOK DEF pop_count
<1>3. \A i \in 1 .. ring_buffer_count : storage[Slot(tail + i - 1)] \in Record \cup {Blank}
  <2> SUFFICES ASSUME NEW i \in 1 .. ring_buffer_count
               PROVE  storage[Slot(tail + i - 1)] \in Record \cup {Blank}
    OBVIOUS
  <2>1. tail + i - 1 \in Int
    BY <1>1, ConstantsOK DEF RBInv, RBTypeOK, Uint32
  <2>2. Slot(tail + i - 1) \in 0 .. Capacity - 1
    BY <2>1, SlotRange
  <2>3. QED
    BY <2>2 DEF RBInv, RBTypeOK
<1>4. Contents = [i \in 1 .. ring_buffer_count |-> storage[Slot(tail + i - 1)]]
  BY <1>2 DEF Contents, records_out
<1>5. QED
  BY <1>1, <1>3, <1>4 DEF ContentsShape

(* The same of the state after a step.                                     *)
LEMMA ContentsIsNext == RBInv' => ContentsShape'
<1>1. RBInv => ContentsShape
  BY ContentsIs
<1>2. QED
  BY <1>1, PTL

LEMMA SameSequence ==
  ASSUME NEW S, NEW left \in Seq(S), NEW right \in Seq(S),
         Len(left) = Len(right), \A i \in 1 .. Len(left) : left[i] = right[i]
  PROVE  left = right
OBVIOUS

(* A push into room appends the record ...                                 *)
LEMMA PushAppends ==
  ASSUME RBInv, NEW record \in Record, ring_buffer_push(record), ~dropped_oldest
  PROVE  Contents' = Append(Contents, record)
<1> DEFINE n == ring_buffer_count
<1>1. n \in 0 .. Capacity - 1 /\ n' = n + 1 /\ tail' = tail
  <2>1. n \in 0 .. Capacity - 1
    BY ContentsIs, ConstantsOK DEF ContentsShape, dropped_oldest
  <2>2. n' = n + 1
    BY PushCount
  <2>3. tail' = tail
    BY DEF ring_buffer_push, GiveUpOldest, KeepOldest
  <2>4. QED
    BY <2>1, <2>2, <2>3
<1>2. storage' = [storage EXCEPT ![Slot(tail + n)] = record] /\ Slot(tail + n) \in DOMAIN storage
  <2>1. Slot(head) \in 0 .. Capacity - 1
    BY SlotRange DEF RBInv, RBTypeOK, Uint32
  <2>2. QED
    BY <2>1, SlotOfHead DEF ring_buffer_push, RBInv, RBTypeOK
<1>3. /\ Contents = [i \in 1 .. n |-> storage[Slot(tail + i - 1)]]
      /\ Contents' = [i \in 1 .. n + 1 |-> storage'[Slot(tail + i - 1)]]
  <2>1. RBInv'
    BY PushPreserves
  <2>2. Contents' = [i \in 1 .. n' |-> storage'[Slot(tail' + i - 1)]]
    BY <2>1, ContentsIsNext DEF ContentsShape
  <2>3. QED
    BY <1>1, <2>2, ContentsIs DEF ContentsShape
<1>4. tail \in Int
  BY ConstantsOK DEF RBInv, RBTypeOK, Uint32
<1> HIDE DEF n
<1>5. \A i \in 1 .. n + 1 :
        storage'[Slot(tail + i - 1)] =
          IF i = n + 1 THEN record ELSE storage[Slot(tail + i - 1)]
  <2> SUFFICES ASSUME NEW i \in 1 .. n + 1
               PROVE  storage'[Slot(tail + i - 1)] =
                        IF i = n + 1 THEN record ELSE storage[Slot(tail + i - 1)]
    OBVIOUS
  <2>1. CASE i = n + 1
    <3>1. tail + i - 1 = tail + n
      BY <1>1, <1>4, <2>1
    <3>2. QED
      BY <1>2, <2>1, <3>1
  <2>2. CASE i # n + 1
    <3>1. tail + i - 1 \in Int /\ tail + n \in Int
          /\ tail + i - 1 < tail + n /\ tail + n < tail + i - 1 + Capacity
      BY <1>1, <1>4, <2>2, ConstantsOK
    <3>2. Slot(tail + i - 1) # Slot(tail + n) /\ Slot(tail + i - 1) \in 0 .. Capacity - 1
      BY <3>1, SlotDistinct, SlotRange
    <3>3. QED
      BY <1>2, <2>2, <3>2 DEF RBInv, RBTypeOK
  <2>3. QED
    BY <2>1, <2>2
<1>6. Len(Contents) = n /\ Contents \in Seq(Record \cup {Blank})
  BY ContentsIs DEF n, ContentsShape
<1>7. /\ Contents' \in Seq(Record \cup {Blank}) /\ Len(Contents') = n + 1
      /\ \A i \in 1 .. n + 1 :
           Contents'[i] = IF i = n + 1 THEN record ELSE storage[Slot(tail + i - 1)]
  <2>1. Contents' \in Seq(Record \cup {Blank})
    BY PushPreserves, ContentsIsNext DEF ContentsShape
  <2>2. QED
    BY <1>1, <1>3, <1>5, <2>1
<1>8. \A i \in 1 .. n : Contents[i] = storage[Slot(tail + i - 1)]
  BY <1>3
<1> DEFINE longer == Append(Contents, record)
<1>9. /\ longer \in Seq(Record \cup {Blank}) /\ Len(longer) = n + 1
      /\ \A i \in 1 .. n + 1 : longer[i] = IF i = n + 1 THEN record ELSE Contents[i]
  BY <1>6
<1>10. \A i \in 1 .. n + 1 : i = n + 1 \/ i \in 1 .. n
  BY <1>1
<1> HIDE DEF longer
<1>11. \A i \in 1 .. n + 1 : Contents'[i] = longer[i]
  BY <1>7, <1>8, <1>9, <1>10
<1>12. Contents' = longer
  BY <1>7, <1>9, <1>11, SameSequence
<1>13. QED
  BY <1>12 DEF longer

(* ... and a push into a full ring also drops the oldest.                  *)
LEMMA PushShifts ==
  ASSUME RBInv, NEW record \in Record, ring_buffer_push(record), dropped_oldest
  PROVE  Contents' = Append(Tail(Contents), record)
<1>1. /\ ring_buffer_count = Capacity /\ ring_buffer_count' = Capacity
      /\ tail' = (tail + 1) % Wrap
  <2>1. tail' = (tail + 1) % Wrap
    BY DEF ring_buffer_push, GiveUpOldest, KeepOldest
  <2>2. QED
    BY <2>1, PushCount DEF dropped_oldest
<1>2. tail \in Int /\ Capacity \in Nat \ {0}
  BY ConstantsOK DEF RBInv, RBTypeOK, Uint32
<1>3. storage' = [storage EXCEPT ![Slot(tail + Capacity)] = record]
      /\ Slot(tail + Capacity) \in DOMAIN storage
  <2>1. Slot(head) \in 0 .. Capacity - 1
    BY SlotRange DEF RBInv, RBTypeOK, Uint32
  <2>2. QED
    BY <1>1, <2>1, SlotOfHead DEF ring_buffer_push, RBInv, RBTypeOK
<1>4. \A i \in 1 .. Capacity : Slot(tail' + i - 1) = Slot(tail + i)
  <2> SUFFICES ASSUME NEW i \in 1 .. Capacity
               PROVE  Slot(tail' + i - 1) = Slot(tail + i)
    OBVIOUS
  <2>1. tail + 1 \in Int /\ i - 1 \in Int /\ (tail + 1) + (i - 1) = tail + i
    BY <1>2
  <2>2. Slot(((tail + 1) % Wrap) + (i - 1)) = Slot((tail + 1) + (i - 1))
    BY <2>1, SlotOfWrapped
  <2>3. ((tail + 1) % Wrap) + (i - 1) = ((tail + 1) % Wrap) + i - 1
    BY <1>2, <2>1, ConstantsOK, ModRange
  <2>4. QED
    BY <1>1, <2>1, <2>2, <2>3
<1>5. Contents = [i \in 1 .. Capacity |-> storage[Slot(tail + i - 1)]]
  BY <1>1, ContentsIs DEF ContentsShape
<1>6. Contents' = [i \in 1 .. Capacity |-> storage'[Slot(tail + i)]]
  <2>1. RBInv'
    BY PushPreserves
  <2>2. Contents' = [i \in 1 .. Capacity |-> storage'[Slot(tail' + i - 1)]]
    BY <1>1, <2>1, ContentsIsNext DEF ContentsShape
  <2>3. QED
    BY <1>4, <2>2
<1>7. \A i \in 1 .. Capacity :
        storage'[Slot(tail + i)] =
          IF i = Capacity THEN record ELSE storage[Slot(tail + (i + 1) - 1)]
  <2> SUFFICES ASSUME NEW i \in 1 .. Capacity
               PROVE  storage'[Slot(tail + i)] =
                        IF i = Capacity THEN record ELSE storage[Slot(tail + (i + 1) - 1)]
    OBVIOUS
  <2>1. CASE i = Capacity
    BY <1>3, <2>1
  <2>2. CASE i # Capacity
    <3>1. tail + i \in Int /\ tail + Capacity \in Int /\ tail + (i + 1) - 1 = tail + i
          /\ tail + i < tail + Capacity /\ tail + Capacity < tail + i + Capacity
      BY <1>2, <2>2
    <3>2. Slot(tail + i) # Slot(tail + Capacity) /\ Slot(tail + i) \in 0 .. Capacity - 1
      BY <3>1, SlotDistinct, SlotRange
    <3>3. QED
      BY <1>3, <2>2, <3>1, <3>2 DEF RBInv, RBTypeOK
  <2>3. QED
    BY <2>1, <2>2
<1>8. Contents \in Seq(Record \cup {Blank}) /\ Len(Contents) = Capacity
  BY <1>1, ContentsIs DEF ContentsShape
<1>9. /\ Tail(Contents) \in Seq(Record \cup {Blank})
      /\ Len(Tail(Contents)) = Capacity - 1
      /\ \A i \in 1 .. Capacity - 1 : Tail(Contents)[i] = Contents[i + 1]
  BY <1>2, <1>8
<1>10. \A i \in 1 .. Capacity - 1 : Contents[i + 1] = storage[Slot(tail + (i + 1) - 1)]
  BY <1>2, <1>5
<1>11. \A i \in 1 .. Capacity : Contents'[i] = Append(Tail(Contents), record)[i]
  <2> SUFFICES ASSUME NEW i \in 1 .. Capacity
               PROVE  Contents'[i] = Append(Tail(Contents), record)[i]
    OBVIOUS
  <2>1. Contents'[i] = IF i = Capacity THEN record ELSE storage[Slot(tail + (i + 1) - 1)]
    BY <1>6, <1>7
  <2>2. CASE i = Capacity
    BY <1>2, <1>9, <2>1, <2>2
  <2>3. CASE i # Capacity
    <3>1. i \in 1 .. Capacity - 1
      BY <1>2, <2>3
    <3>2. QED
      BY <1>9, <1>10, <2>1, <2>3, <3>1
  <2>4. QED
    BY <2>2, <2>3
<1>12. Append(Tail(Contents), record) \in Seq(Record \cup {Blank})
       /\ Len(Append(Tail(Contents), record)) = Capacity
  BY <1>2, <1>9
<1>13. Contents' \in Seq(Record \cup {Blank}) /\ Len(Contents') = Capacity
  <2>1. RBInv'
    BY PushPreserves
  <2>2. QED
    BY <1>1, <2>1, ContentsIsNext, PushPreserves DEF ContentsShape
<1>14. QED
  BY <1>11, <1>12, <1>13

(* The slots a pop reads are those of the oldest records: copying and then *)
(* moving tail is taking a prefix of the sequence.                         *)
LEMMA CopyIsPrefix ==
  ASSUME RBInv, NEW max_records \in Nat
  PROVE  records_out(max_records) = SubSeq(Contents, 1, pop_count(max_records))
<1>1. pop_count(max_records) \in 0 .. ring_buffer_count /\ ring_buffer_count \in Nat
  BY PopCountOK, ContentsIs DEF ContentsShape
<1>2. QED
  BY <1>1, ContentsIs DEF ContentsShape, records_out

LEMMA ReleaseDropsPrefix ==
  ASSUME RBInv, NEW count \in 0 .. ring_buffer_count, ReleaseOldest(count)
  PROVE  Contents' = SubSeq(Contents, count + 1, Len(Contents))
<1>1. /\ ring_buffer_count \in Nat /\ count \in Nat
      /\ ring_buffer_count' = ring_buffer_count - count
  BY ReleaseCount, ContentsIs DEF ContentsShape
<1>2. tail' = (tail + count) % Wrap /\ storage' = storage
  BY DEF ReleaseOldest
<1>3. tail \in Int /\ tail + count \in Int
  BY <1>1, ConstantsOK DEF RBInv, RBTypeOK, Uint32
<1>4. \A i \in 1 .. ring_buffer_count - count : Slot(tail' + i - 1) = Slot(tail + (i + count) - 1)
  <2> SUFFICES ASSUME NEW i \in 1 .. ring_buffer_count - count
               PROVE  Slot(tail' + i - 1) = Slot(tail + (i + count) - 1)
    OBVIOUS
  <2>1. i - 1 \in Int /\ (tail + count) + (i - 1) = tail + (i + count) - 1
    BY <1>1, <1>3
  <2>2. Slot(((tail + count) % Wrap) + (i - 1)) = Slot((tail + count) + (i - 1))
    BY <1>3, <2>1, SlotOfWrapped
  <2>3. ((tail + count) % Wrap) + (i - 1) = ((tail + count) % Wrap) + i - 1
    BY <1>3, <2>1, ConstantsOK, ModRange
  <2>4. QED
    BY <1>2, <2>1, <2>2, <2>3
<1>5. Contents' = [i \in 1 .. ring_buffer_count - count |-> storage[Slot(tail + (i + count) - 1)]]
  <2>1. RBInv'
    BY ReleasePreserves
  <2>2. Contents' = [i \in 1 .. ring_buffer_count - count |-> storage[Slot(tail' + i - 1)]]
    BY <1>1, <1>2, <2>1, ContentsIsNext DEF ContentsShape
  <2>3. QED
    BY <1>4, <2>2
<1>6. /\ Contents = [i \in 1 .. ring_buffer_count |-> storage[Slot(tail + i - 1)]]
      /\ Contents \in Seq(Record \cup {Blank}) /\ Len(Contents) = ring_buffer_count
  BY ContentsIs DEF ContentsShape
<1>7. \A i \in 1 .. ring_buffer_count - count :
        Contents[i + count] = storage[Slot(tail + (i + count) - 1)]
  BY <1>1, <1>6
<1>8. Contents' = [i \in 1 .. ring_buffer_count - count |-> Contents[i + count]]
  BY <1>5, <1>7
<1>9. QED
  BY <1>1, <1>6, <1>8

(* The record pushed last is the one ring_buffer_peek_newest returns.      *)
LEMMA PushIsNewest ==
  ASSUME RBInv, NEW record \in Record, ring_buffer_push(record)
  PROVE  ring_buffer_peek_newest' = <<record>>
<1>1. head \in Int /\ Slot(head) \in DOMAIN storage
  BY SlotRange, ConstantsOK DEF RBInv, RBTypeOK, Uint32
<1>2. Slot(((head + 1) % Wrap) + (-1)) = Slot((head + 1) + (-1))
  <2>1. head + 1 \in Int /\ -1 \in Int
    BY <1>1
  <2>2. QED
    BY <2>1, SlotOfWrapped
<1>3. /\ ((head + 1) % Wrap) + (-1) = ((head + 1) % Wrap) - 1
      /\ (head + 1) + (-1) = head
  BY <1>1, ConstantsOK, ModRange
<1>4. Slot(head' - 1) = Slot(head)
  BY <1>2, <1>3 DEF ring_buffer_push
<1>5. storage'[Slot(head' - 1)] = record /\ has_newest'
  BY <1>1, <1>4 DEF ring_buffer_push
<1>6. QED
  BY <1>5 DEF ring_buffer_peek_newest

-----------------------------------------------------------------------------
(* The inductive invariant is RBInv: the types together with the bounds    *)
(* that keep head within Capacity of tail. Neither is inductive alone:     *)
(* the fill level could leave the high-water mark's type without the bound.*)

LEMMA RBInvInit == RBCInit => RBInv
BY RingInit DEF RBCInit

LEMMA RBInvNext == RBInv /\ [RBCNext]_rbcVars => RBInv'
<1> SUFFICES ASSUME RBInv, [RBCNext]_rbcVars
             PROVE  RBInv'
  OBVIOUS
<1>1. ASSUME NEW record \in Record, CallPush(record)
      PROVE  RBInv'
  BY <1>1, PushPreserves DEF CallPush
<1>2. ASSUME NEW max_records \in 0 .. MaxRecords, CallPop(max_records)
      PROVE  RBInv'
  <2>1. pop_count(max_records) \in 0 .. ring_buffer_count
    BY RBCAssumption, PopCountOK
  <2>2. ReleaseOldest(pop_count(max_records))
    BY <1>2 DEF CallPop, ring_buffer_pop
  <2>3. QED
    BY <2>1, <2>2, ReleasePreserves
<1>3. CASE CallPeek
  BY <1>3 DEF CallPeek, rbVars, RBInv, RBTypeOK, FillWithinCapacity, ring_buffer_count
<1>4. CASE UNCHANGED rbcVars
  BY <1>4 DEF rbcVars, RBInv, RBTypeOK, FillWithinCapacity, ring_buffer_count
<1>5. QED
  BY <1>1, <1>2, <1>3, <1>4 DEF RBCNext

(* However long the counters run and however often they wrap, each keeps   *)
(* its type, head stays within Capacity of tail and the high-water mark    *)
(* between the two bounds: head - tail is a fill level.                    *)
THEOREM RingBufferBounded == RBCSpec => []RBInv
BY RBInvInit, RBInvNext, PTL DEF RBCSpec

-----------------------------------------------------------------------------
(* Initial states map to initial states.                                   *)
LEMMA InitMaps == RBCInit => Queue!Init
<1> SUFFICES ASSUME RBCInit
             PROVE  Queue!Init
  OBVIOUS
<1>1. Contents = <<>>
  BY RingInit, ContentsIs DEF RBCInit, ContentsShape
<1>2. ring_buffer_peek_newest = <<>>
  BY DEF RBCInit, ring_buffer_init, ring_buffer_peek_newest
<1>3. records_read = 0
  BY ConstantsOK, ModSmall DEF RBCInit, ring_buffer_init, records_read
<1>4. QED
  BY <1>1, <1>2, <1>3 DEF Queue!Init, RBCInit, ring_buffer_init

(* An overwrite moves tail and overwritten alike: nothing was read.        *)
LEMMA ReadOfPush ==
  ASSUME RBInv, NEW record, ring_buffer_push(record)
  PROVE  records_read' = records_read
<1>1. CASE KeepOldest
  BY <1>1 DEF KeepOldest, records_read
<1>2. CASE GiveUpOldest
  <2> DEFINE o == overwritten + 1
  <2>1. /\ tail \in Int /\ overwritten \in Int /\ Wrap \in Nat \ {0}
        /\ (tail + 1) % Wrap \in Int /\ tail + 1 \in Int /\ o \in Int /\ -o \in Int
    BY ConstantsOK, ModRange DEF RBInv, RBTypeOK, Uint32
  <2>2. records_read' = (((tail + 1) % Wrap) - (o % Wrap)) % Wrap
    BY <1>2 DEF GiveUpOldest, records_read
  <2> HIDE DEF o
  <2>3. (((tail + 1) % Wrap) - (o % Wrap)) % Wrap = (((tail + 1) % Wrap) - o) % Wrap
    BY <2>1, ModSub
  <2>4. (((tail + 1) % Wrap) + (-o)) % Wrap = ((tail + 1) + (-o)) % Wrap
    BY <2>1, ModAdd
  <2>5. /\ ((tail + 1) % Wrap) + (-o) = ((tail + 1) % Wrap) - o
        /\ (tail + 1) + (-o) = tail - overwritten
    BY <2>1 DEF o
  <2>6. QED
    BY <2>2, <2>3, <2>4, <2>5 DEF records_read
<1>3. QED
  BY <1>1, <1>2 DEF ring_buffer_push

(* Moving tail by count counts that many records as read.                  *)
LEMMA ReadOfRelease ==
  ASSUME RBInv, NEW count \in Nat, ReleaseOldest(count)
  PROVE  records_read' = (records_read + count) % Wrap
<1> DEFINE d == count - overwritten
<1>1. /\ tail \in Int /\ overwritten \in Int /\ Wrap \in Nat \ {0}
      /\ tail + count \in Int /\ count \in Int /\ tail - overwritten \in Int /\ -overwritten \in Int
      /\ (tail + count) % Wrap \in Int
  BY ConstantsOK, ModRange DEF RBInv, RBTypeOK, Uint32
<1>2. records_read' = (((tail + count) % Wrap) - overwritten) % Wrap
  BY DEF ReleaseOldest, records_read
<1>3. (((tail + count) % Wrap) + (-overwritten)) % Wrap = ((tail + count) + (-overwritten)) % Wrap
  BY <1>1, ModAdd
<1>4. (((tail - overwritten) % Wrap) + count) % Wrap = ((tail - overwritten) + count) % Wrap
  BY <1>1, ModAdd
<1>5. /\ ((tail + count) % Wrap) + (-overwritten) = ((tail + count) % Wrap) - overwritten
      /\ (tail + count) + (-overwritten) = (tail - overwritten) + count
  BY <1>1
<1>6. QED
  BY <1>2, <1>3, <1>4, <1>5 DEF records_read

-----------------------------------------------------------------------------
(* Every call maps to the operation of the same name.                      *)

LEMMA PushMaps ==
  ASSUME RBInv, NEW record \in Record, CallPush(record)
  PROVE  Queue!Put(record)
<1>1. ring_buffer_push(record) /\ result' = <<dropped_oldest>>
  BY DEF CallPush
<1>2. /\ Contents \in Seq(Record \cup {Blank}) /\ Len(Contents) = ring_buffer_count
      /\ ring_buffer_count \in 0 .. Capacity
      /\ Contents' \in Seq(Record \cup {Blank}) /\ Len(Contents') = ring_buffer_count'
  BY <1>1, ContentsIs, PushPreserves, ContentsIsNext DEF ContentsShape
<1>3. ASSUME dropped_oldest
      PROVE  Queue!PutOverOldest(record)
  <2>1. Contents' = Append(Tail(Contents), record)
    BY <1>1, <1>3, PushShifts
  <2>2. Len(Contents) = Capacity
    BY <1>2, <1>3 DEF dropped_oldest
  <2>3. result' = <<TRUE>> /\ overwritten' = (overwritten + 1) % Wrap
    BY <1>1, <1>3 DEF ring_buffer_push, GiveUpOldest, KeepOldest
  <2>4. QED
    BY <2>1, <2>2, <2>3 DEF Queue!PutOverOldest
<1>4. ASSUME ~dropped_oldest
      PROVE  Queue!PutInRoom(record)
  <2>1. Contents' = Append(Contents, record)
    BY <1>1, <1>4, PushAppends
  <2>2. Len(Contents) < Capacity
    BY <1>2, <1>4, ConstantsOK DEF dropped_oldest
  <2>3. dropped_oldest = FALSE
    BY <1>4 DEF dropped_oldest
  <2>4. overwritten' = overwritten
    BY <1>1, <1>4 DEF ring_buffer_push, GiveUpOldest, KeepOldest
  <2>5. QED
    BY <1>1, <2>1, <2>2, <2>3, <2>4 DEF Queue!PutInRoom
<1>5. ring_buffer_peek_newest' = <<record>>
  BY <1>1, PushIsNewest
<1>6. fill_high_water' = Queue!Longer(fill_high_water, Len(Contents'))
  <2>1. ring_buffer_count' \in Nat /\ fill_high_water \in Nat
    BY <1>1, PushCount, ConstantsOK DEF RBInv, RBTypeOK, Uint32
  <2>2. ring_buffer_count' = (head' - tail') % Wrap
    BY DEF ring_buffer_count
  <2>3. QED
    BY <1>1, <1>2, <2>1, <2>2 DEF Queue!Longer, ring_buffer_push, RaiseHighWater
<1>7. records_read' = records_read
  BY <1>1, ReadOfPush
<1>8. QED
  BY <1>3, <1>4, <1>5, <1>6, <1>7 DEF Queue!Put

LEMMA PopMaps ==
  ASSUME RBInv, NEW max_records \in Nat, CallPop(max_records)
  PROVE  \E k \in 0 .. Capacity : Queue!Take(k)
<1> DEFINE k == pop_count(max_records)
<1>1. /\ k \in 0 .. ring_buffer_count /\ k \in 0 .. Capacity
      /\ Len(Contents) = ring_buffer_count
  BY PopCountOK, ContentsIs, ConstantsOK DEF ContentsShape
<1>2. ReleaseOldest(k) /\ result' = records_out(max_records)
  BY DEF CallPop, ring_buffer_pop
<1>3. result' = SubSeq(Contents, 1, k)
  BY <1>2, CopyIsPrefix
<1>4. Contents' = SubSeq(Contents, k + 1, Len(Contents))
  BY <1>1, <1>2, ReleaseDropsPrefix
<1>5. records_read' = (records_read + k) % Wrap
  BY <1>1, <1>2, ConstantsOK, ReadOfRelease
<1>6. ring_buffer_peek_newest' = ring_buffer_peek_newest
  BY <1>2 DEF ReleaseOldest, ring_buffer_peek_newest
<1>7. Queue!Take(k)
  BY <1>1, <1>2, <1>3, <1>4, <1>5, <1>6 DEF Queue!Take, ReleaseOldest
<1>8. QED
  BY <1>1, <1>7

(* The refinement: a specification of calls on head, tail and slots        *)
(* implements the specification of a queue, whatever the capacity and the  *)
(* width of the counters.                                                  *)
THEOREM RingBufferImplementsQueue == RBCSpec => ImplementsDropOldestQueue
<1>1. RBInv /\ [RBCNext]_rbcVars => [Queue!Next]_(Queue!vars)
  <2> SUFFICES ASSUME RBInv, [RBCNext]_rbcVars
               PROVE  [Queue!Next]_(Queue!vars)
    OBVIOUS
  <2>1. ASSUME NEW record \in Record, CallPush(record)
        PROVE  Queue!Next
    BY <2>1, PushMaps DEF Queue!Next
  <2>2. ASSUME NEW max_records \in 0 .. MaxRecords, CallPop(max_records)
        PROVE  Queue!Next
    <3>1. max_records \in Nat
      BY RBCAssumption
    <3>2. \E k \in 0 .. Capacity : Queue!Take(k)
      BY <2>2, <3>1, PopMaps
    <3>3. QED
      BY <3>2 DEF Queue!Next
  <2>3. CASE CallPeek
    BY <2>3 DEF CallPeek, rbVars, Queue!Next, Queue!Peek, Contents, records_out, pop_count,
                ring_buffer_count, ring_buffer_peek_newest, records_read
  <2>4. CASE UNCHANGED rbcVars
    BY <2>4 DEF rbcVars, Queue!vars, Contents, records_out, pop_count,
                ring_buffer_count, ring_buffer_peek_newest, records_read
  <2>5. QED
    BY <2>1, <2>2, <2>3, <2>4 DEF RBCNext
<1>2. QED
  BY <1>1, InitMaps, RBInvInit, RBInvNext, PTL
     DEF RBCSpec, ImplementsDropOldestQueue, Queue!Spec

-----------------------------------------------------------------------------
(* Part 2: the sample path                                                 *)

(* What a step does, whoever the scheduler let run.                        *)
Step ==
  \/ TimerTick \/ UiScan \/ UiStep
  \/ ProducerStep \/ ProducerTimeout
  \/ ConsumerStep \/ ConsumerTimeout

LEMMA NextIsStep == Next => Step
BY DEF Next, Step

LEMMA FlowConstants ==
  /\ Record = Uint32
  /\ ReadBatch \in Nat \ {0} /\ ReadBatch <= Capacity
  /\ DrainBatchesMax \in Nat \ {0} /\ QueueLen \in Nat \ {0}
  /\ MaxTicks \in Nat /\ MaxKeys \in Nat /\ MaxTimeouts \in Nat
BY FlowAssumption, ConstantsOK

LEMMA Uint32Closed ==
  /\ 0 \in Uint32
  /\ \A x \in Int : x % Wrap \in Uint32
  /\ \A x \in Uint32 : x \in Int
BY ConstantsOK, ModRange DEF Uint32

(* A step that leaves the ring alone leaves all that is derived from it.   *)
LEMMA RingUntouched ==
  ASSUME UNCHANGED rbVars
  PROVE  /\ ring_buffer_count' = ring_buffer_count
         /\ pop_count(ReadBatch)' = pop_count(ReadBatch)
         /\ RBInv => RBInv'
         /\ Contents' = Contents
         /\ ring_buffer_peek_newest' = ring_buffer_peek_newest
BY DEF rbVars, ring_buffer_count, pop_count, RBInv, RBTypeOK, FillWithinCapacity,
       Contents, records_out, ring_buffer_peek_newest, Slot

-----------------------------------------------------------------------------
(* The ring: only WritePush and ReadRelease touch it.                      *)

LEMMA RingStep ==
  ASSUME FlowInv, Step
  PROVE  \/ UNCHANGED rbVars
         \/ WritePush
         \/ ReadRelease
BY DEF Step, TimerTick, UiScan, UiStep, ui_send, ProducerStep, ProducerTimeout,
       NotifyTake, WriteLock, WriteTestEmpty, WriteUnlock, RingDoorbell, producer_update_stats, NotifyTimeout, WriteLockTimeout,
       ConsumerStep, ConsumerTimeout,
       QueueReceive, QueueGlance, NoteQueueDepth, consumer_handle_msg, CountWrites,
       LookLock, Look, PrintReport, DrainPaused, DrainStart, ReadLock, ReadCopy, ReadUnlock, consumer_process_record, DrainNext, QueuePollTimeout, LookLockTimeout, ReadLockTimeout

LEMMA RingNext ==
  ASSUME FlowInv, [Step]_vars
  PROVE  RBInv' /\ WrittenOnly'
<1>1. RBInv /\ WrittenOnly
  BY DEF FlowInv, FlowTypeOK, RBInv
<1>2. CASE UNCHANGED rbVars
  BY <1>1, <1>2, RingUntouched DEF WrittenOnly
<1>3. CASE WritePush
  <2>1. ring_buffer_push(seq) /\ seq \in Record
    BY <1>3, FlowConstants DEF WritePush, FlowInv, FlowTypeOK, ProducerTypeOK
  <2>2. RBInv'
    BY <1>1, <2>1, PushPreserves
  <2>3. Contents' \in Seq(Record)
    <3>1. Contents \in Seq(Record) /\ Len(Contents) = ring_buffer_count
      BY <1>1, ContentsIs DEF WrittenOnly, ContentsShape
    <3>2. CASE dropped_oldest
      <4>1. Contents' = Append(Tail(Contents), seq)
        BY <1>1, <2>1, <3>2, PushShifts
      <4>2. Contents # <<>>
        BY <3>1, <3>2, ConstantsOK DEF dropped_oldest
      <4>3. QED
        BY <2>1, <3>1, <4>1, <4>2
    <3>3. CASE ~dropped_oldest
      <4>1. Contents' = Append(Contents, seq)
        BY <1>1, <2>1, <3>3, PushAppends
      <4>2. QED
        BY <2>1, <3>1, <4>1
    <3>4. QED
      BY <3>2, <3>3
  <2>4. ring_buffer_peek_newest' = <<seq>>
    BY <1>1, <2>1, PushIsNewest
  <2>5. QED
    BY <2>1, <2>2, <2>3, <2>4 DEF WrittenOnly
<1>4. CASE ReadRelease
  <2>1. ReleaseOldest(batch_count) /\ batch_count \in 0 .. ring_buffer_count
    BY <1>1, <1>4, FlowConstants, PopCountOK DEF ReadRelease, FlowInv, ShortBatchEmptiesLog
  <2>2. RBInv'
    BY <1>1, <2>1, ReleasePreserves
  <2>3. Contents' = SubSeq(Contents, batch_count + 1, Len(Contents))
    BY <1>1, <2>1, ReleaseDropsPrefix
  <2>4. Contents \in Seq(Record) /\ batch_count \in Nat
    BY <1>1, <2>1, ContentsIs DEF WrittenOnly, ContentsShape
  <2>5. ring_buffer_peek_newest' = ring_buffer_peek_newest
    BY <2>1 DEF ReleaseOldest, ring_buffer_peek_newest, Slot
  <2>6. QED
    BY <1>1, <2>2, <2>3, <2>4, <2>5 DEF WrittenOnly
<1>5. CASE UNCHANGED vars
  <2>1. UNCHANGED rbVars
    BY <1>5 DEF vars, rbVars
  <2>2. QED
    BY <1>2, <2>1
<1>6. QED
  BY <1>2, <1>3, <1>4, <1>5, RingStep

-----------------------------------------------------------------------------
(* The types of the tasks' variables.                                      *)

(* What a pop copies is a sequence of records, at most ReadBatch of them.  *)
LEMMA CopyTypes ==
  ASSUME RBInv, WrittenOnly
  PROVE  /\ records_out(ReadBatch) \in Seq(Record)
         /\ Len(records_out(ReadBatch)) = pop_count(ReadBatch)
         /\ pop_count(ReadBatch) \in 0 .. ReadBatch
<1>1. /\ pop_count(ReadBatch) \in 0 .. ring_buffer_count /\ pop_count(ReadBatch) <= ReadBatch
      /\ Contents \in Seq(Record) /\ Len(Contents) = ring_buffer_count
      /\ records_out(ReadBatch) = SubSeq(Contents, 1, pop_count(ReadBatch))
  BY FlowConstants, PopCountOK, ContentsIs, CopyIsPrefix DEF WrittenOnly, ContentsShape
<1>2. QED
  BY <1>1, FlowConstants

(* What a report copies is a record.                                       *)
LEMMA PeekTypes ==
  ASSUME WrittenOnly, has_newest, Record = Uint32
  PROVE  ring_buffer_peek_newest[1] \in Uint32
BY DEF WrittenOnly, ring_buffer_peek_newest

LEMMA TypesNext ==
  ASSUME FlowInv, [Step]_vars
  PROVE  KernelTypeOK' /\ ProducerTypeOK' /\ ConsumerTypeOK' /\ UiTypeOK'
<1> USE FlowConstants
    DEF FlowInv, FlowTypeOK, RBInv, KernelTypeOK, ProducerTypeOK, ConsumerTypeOK, UiTypeOK,
        kernelVars, producerVars, producerLocals, producerStats, consumerVars, batchVars,
        drainState, uiVars, Task, NoTask, Command, Message, PPc, CPc
<1>1. CASE TimerTick
  BY <1>1, Uint32Closed DEF TimerTick
<1>2. CASE UiScan
  BY <1>2 DEF UiScan
<1>3. CASE NotifyTake
  BY <1>3, Uint32Closed DEF NotifyTake
<1>4. CASE WriteLock
  BY <1>4 DEF WriteLock, sensor_log_lock
<1>5. CASE WriteTestEmpty
  BY <1>5 DEF WriteTestEmpty
<1>6. CASE WritePush
  BY <1>6 DEF WritePush
<1>7. CASE WriteUnlock
  <2>1. ppc' \in PPc /\ write_dropped' \in BOOLEAN /\ log_mutex' = NoTask
    BY <1>7, Zenon DEF WriteUnlock, sensor_log_unlock
  <2>2. /\ UNCHANGED <<ticks, notified, consumer_q>>
        /\ UNCHANGED <<seq, pending_ticks, log_was_empty, doorbell_pending, producerStats>>
        /\ UNCHANGED consumerVars /\ UNCHANGED uiVars
    BY <1>7, Zenon DEF WriteUnlock
  <2>3. KernelTypeOK'
    BY <2>1, <2>2
  <2>4. ProducerTypeOK'
    BY <2>1, <2>2
  <2>5. ConsumerTypeOK' /\ UiTypeOK'
    BY <2>2
  <2> HIDE DEF KernelTypeOK, ProducerTypeOK, ConsumerTypeOK, UiTypeOK
  <2>6. QED
    BY <2>3, <2>4, <2>5, Zenon
<1>8. CASE RingDoorbell
  BY <1>8 DEF RingDoorbell, task_consumer_send, QueueFull
<1>9. CASE producer_update_stats
  <2>1. /\ samples + 1 \in Int /\ overruns + missed_ticks \in Int
        /\ log_write_drops + drop \in Int
    BY ConstantsOK DEF missed_ticks, drop, Uint32
  <2>2. samples' \in Uint32 /\ overruns' \in Uint32 /\ log_write_drops' \in Uint32
    BY <1>9, <2>1, Uint32Closed DEF producer_update_stats
  <2>3. QED
    BY <1>9, <2>2 DEF producer_update_stats
<1>10. CASE NotifyTimeout
  BY <1>10 DEF NotifyTimeout
<1>11. CASE WriteLockTimeout
  BY <1>11 DEF WriteLockTimeout, sensor_log_lock_fails
<1>12. CASE QueueReceive
  BY <1>12 DEF QueueReceive
<1>13. CASE QueueGlance
  BY <1>13 DEF QueueGlance
<1>14. CASE NoteQueueDepth
  BY <1>14 DEF NoteQueueDepth
<1>15. CASE consumer_handle_msg
  <2>1. cpc' \in CPc
    BY <1>15 DEF consumer_handle_msg
  <2>2. drain_paused' \in BOOLEAN
    BY <1>15 DEF consumer_handle_msg
  <2>3. QED
    BY <1>15, <2>1, <2>2 DEF consumer_handle_msg
<1>16. CASE LookLock
  BY <1>16 DEF LookLock, sensor_log_lock
<1>17. CASE Look
  <2>1. shown' \in Uint32
    <3>1. CASE has_newest /\ shown' = ring_buffer_peek_newest[1]
      BY <3>1, PeekTypes
    <3>2. CASE shown' = 0
      BY <3>2, Uint32Closed
    <3>3. QED
      BY <1>17, <3>1, <3>2 DEF Look
  <2>2. cpc' \in CPc /\ log_mutex' = NoTask
    BY <1>17 DEF Look, sensor_log_unlock
  <2>3. /\ UNCHANGED <<ticks, notified, consumer_q>>
        /\ UNCHANGED producerVars /\ UNCHANGED uiVars
        /\ UNCHANGED <<msg, backlog_pending, drain_paused, log_lock_timeouts, queue_depth_peak>>
        /\ UNCHANGED batchVars /\ UNCHANGED drainState
    BY <1>17, Zenon DEF Look
  <2>4. KernelTypeOK'
    BY <2>2, <2>3
  <2>5. ProducerTypeOK' /\ UiTypeOK'
    BY <2>3
  <2>6. ConsumerTypeOK'
    BY <2>1, <2>2, <2>3
  <2> HIDE DEF KernelTypeOK, ProducerTypeOK, ConsumerTypeOK, UiTypeOK
  <2>7. QED
    BY <2>4, <2>5, <2>6, Zenon
<1>18. CASE DrainPaused
  <2>1. /\ cpc' \in CPc /\ backlog_pending' \in BOOLEAN
        /\ UNCHANGED kernelVars /\ UNCHANGED producerVars /\ UNCHANGED uiVars
        /\ UNCHANGED <<msg, drain_paused, log_lock_timeouts, queue_depth_peak, shown>>
        /\ UNCHANGED batchVars /\ UNCHANGED drainState
    BY <1>18, Zenon DEF DrainPaused
  <2>2. KernelTypeOK' /\ UiTypeOK'
    BY <2>1
  <2>3. ProducerTypeOK'
    BY <2>1
  <2>4. ConsumerTypeOK'
    BY <2>1
  <2> HIDE DEF KernelTypeOK, ProducerTypeOK, ConsumerTypeOK, UiTypeOK
  <2>5. QED
    BY <2>2, <2>3, <2>4, Zenon
<1>19. CASE DrainStart
  BY <1>19 DEF DrainStart
<1>20. CASE ReadLock
  BY <1>20 DEF ReadLock, sensor_log_lock
<1>21. CASE ReadCopy
  BY <1>21, CopyTypes DEF ReadCopy
<1>22. CASE ReadRelease
  BY <1>22 DEF ReadRelease
<1>23. CASE ReadUnlock
  BY <1>23 DEF ReadUnlock, sensor_log_unlock
<1>24. CASE consumer_process_record
  <2>1. Head(batch) \in Uint32 /\ Tail(batch) \in Seq(Record) /\ Len(Tail(batch)) <= batch_count
    BY <1>24 DEF consumer_process_record
  <2>2. received + 1 \in Int /\ Head(batch) - (received + 1) \in Int
    BY <2>1, ConstantsOK DEF Uint32
  <2>3. received' \in Uint32 /\ last_seq' \in Uint32 /\ lost' \in Uint32
    BY <1>24, <2>1, <2>2, Uint32Closed DEF consumer_process_record, lost_at
  <2>4. QED
    BY <1>24, <2>1, <2>3 DEF consumer_process_record
<1>25. CASE DrainNext
  <2>1. cpc' \in CPc /\ backlog_pending' \in BOOLEAN
    BY <1>25 DEF DrainNext
  <2>2. batch_num' \in 0 .. DrainBatchesMax
    BY <1>25 DEF DrainNext
  <2>3. QED
    BY <1>25, <2>1, <2>2 DEF DrainNext
<1>26. CASE QueuePollTimeout
  BY <1>26 DEF QueuePollTimeout
<1>27. CASE LookLockTimeout
  BY <1>27, Uint32Closed DEF LookLockTimeout, sensor_log_lock_fails
<1>28. CASE ReadLockTimeout
  BY <1>28 DEF ReadLockTimeout, sensor_log_lock_fails
<1>29. ASSUME NEW command \in Command, ui_send(command)
      PROVE  KernelTypeOK' /\ ProducerTypeOK' /\ ConsumerTypeOK' /\ UiTypeOK'
  BY <1>29 DEF ui_send, task_consumer_send, QueueFull
<1>30. CASE UNCHANGED vars
  BY <1>30 DEF vars
<1>31. CASE CountWrites
  <2>1. samples - log_write_drops \in Int
    <3>1. samples \in Uint32 /\ log_write_drops \in Uint32
      OBVIOUS
    <3> HIDE DEF FlowInv
    <3>2. samples \in Int /\ log_write_drops \in Int
      BY <3>1, Uint32Closed, Zenon
    <3>3. QED
      BY <3>2
  <2>2. shown' \in Uint32
    BY <1>31, <2>1, Uint32Closed DEF CountWrites
  <2>3. QED
    BY <1>31, <2>2 DEF CountWrites
<1>32. CASE PrintReport
  BY <1>32, Uint32Closed DEF PrintReport
<1>33. QED
  BY <1>31, <1>32, <1>1, <1>2, <1>3, <1>4, <1>5, <1>6, <1>7, <1>8, <1>9, <1>10, <1>11, <1>12, <1>13, <1>14, <1>15, <1>16, <1>17, <1>18, <1>19, <1>20, <1>21, <1>22, <1>23, <1>24, <1>25, <1>26, <1>27, <1>28, <1>29, <1>30
     DEF Step, ProducerStep, ProducerTimeout, ConsumerStep, ConsumerTimeout, UiStep

-----------------------------------------------------------------------------
(* The control part of the invariant.                                      *)

FlowControl == LockHeld /\ EmptinessStillTrue /\ ShortBatchEmptiesLog /\ DoorbellArmed

LEMMA ControlNext ==
  ASSUME FlowInv, [Step]_vars
  PROVE  FlowControl'
<1>0. RBInv /\ ring_buffer_count \in Nat
  BY ContentsIs DEF FlowInv, FlowTypeOK, RBInv, ContentsShape
<1> USE <1>0, FlowConstants, RingUntouched
    DEF FlowInv, FlowTypeOK, KernelTypeOK, ProducerTypeOK, ConsumerTypeOK,
        FlowControl, LockHeld, EmptinessStillTrue, ShortBatchEmptiesLog, DoorbellArmed,
        GoingToSleep, AboutToRing, ShortBatch,
        kernelVars, producerVars, producerLocals, producerStats, consumerVars, batchVars,
        drainState, uiVars, Task, NoTask, PPc, CPc
<1>1. CASE TimerTick
  BY <1>1 DEF TimerTick
<1>2. CASE UiScan
  BY <1>2 DEF UiScan
<1>3. CASE NotifyTake
  BY <1>3 DEF NotifyTake
<1>4. CASE WriteLock
  BY <1>4 DEF WriteLock, sensor_log_lock
<1>5. CASE WriteTestEmpty
  BY <1>5 DEF WriteTestEmpty
<1>6. CASE WritePush
  BY <1>6, PushCount DEF WritePush
<1>7. CASE WriteUnlock
  BY <1>7 DEF WriteUnlock, sensor_log_unlock
<1>8. CASE RingDoorbell
  BY <1>8 DEF RingDoorbell, task_consumer_send, QueueFull
<1>9. CASE producer_update_stats
  BY <1>9 DEF producer_update_stats
<1>10. CASE NotifyTimeout
  BY <1>10 DEF NotifyTimeout
<1>11. CASE WriteLockTimeout
  BY <1>11 DEF WriteLockTimeout, sensor_log_lock_fails, Waits
<1>12. CASE QueueReceive
  BY <1>12 DEF QueueReceive
<1>13. CASE QueueGlance
  BY <1>13 DEF QueueGlance
<1>14. CASE NoteQueueDepth
  BY <1>14 DEF NoteQueueDepth
<1>15. CASE consumer_handle_msg
  BY <1>15 DEF consumer_handle_msg
<1>16. CASE LookLock
  BY <1>16 DEF LookLock, sensor_log_lock
<1>17. CASE Look
  BY <1>17 DEF Look, sensor_log_unlock
<1>18. CASE DrainPaused
  BY <1>18 DEF DrainPaused
<1>19. CASE DrainStart
  BY <1>19 DEF DrainStart
<1>20. CASE ReadLock
  BY <1>20 DEF ReadLock, sensor_log_lock
<1>21. CASE ReadCopy
  BY <1>21 DEF ReadCopy
<1>22. CASE ReadRelease
  <2>1. /\ batch_count \in 0 .. ring_buffer_count
        /\ batch_count < ReadBatch => batch_count = ring_buffer_count
    BY <1>22, PopCountOK DEF ReadRelease
  <2>2. ring_buffer_count' = ring_buffer_count - batch_count
    BY <1>22, <2>1, ReleaseCount DEF ReadRelease
  <2>3. LockHeld'
    BY <1>22 DEF ReadRelease
  <2>4. EmptinessStillTrue'
    BY <1>22 DEF ReadRelease
  <2>5. ShortBatchEmptiesLog'
    BY <1>22, <2>1, <2>2 DEF ReadRelease
  <2>6. DoorbellArmed'
    BY <1>22 DEF ReadRelease
  <2>7. QED
    BY <2>3, <2>4, <2>5, <2>6
<1>23. CASE ReadUnlock
  BY <1>23 DEF ReadUnlock, sensor_log_unlock
<1>24. CASE consumer_process_record
  BY <1>24 DEF consumer_process_record
<1>25. CASE DrainNext
  BY <1>25 DEF DrainNext, ShortBatch
<1>26. CASE QueuePollTimeout
  BY <1>26 DEF QueuePollTimeout
<1>27. CASE LookLockTimeout
  BY <1>27 DEF LookLockTimeout, sensor_log_lock_fails, Waits
<1>28. CASE ReadLockTimeout
  BY <1>28 DEF ReadLockTimeout, sensor_log_lock_fails, Waits
<1>29. ASSUME NEW command \in Command, ui_send(command)
      PROVE  FlowControl'
  <2>1. UNCHANGED <<ppc, log_mutex, log_was_empty, cpc, batch_count, backlog_pending,
                    drain_paused>>
        /\ UNCHANGED rbVars
    BY <1>29, Zenon DEF ui_send, producerVars, producerLocals, consumerVars, batchVars
  <2>2. consumer_q # <<>> => consumer_q' # <<>>
    BY <1>29 DEF ui_send, task_consumer_send
  <2>3. LockHeld' /\ EmptinessStillTrue'
    BY <2>1
  <2>4. ShortBatchEmptiesLog'
    BY <2>1
  <2>5. DoorbellArmed'
    BY <2>1, <2>2
  <2>6. QED
    BY <2>3, <2>4, <2>5
<1>30. CASE UNCHANGED vars
  BY <1>30 DEF vars, rbVars
<1>31. CASE CountWrites
  BY <1>31 DEF CountWrites
<1>32. CASE PrintReport
  BY <1>32 DEF PrintReport
<1>33. QED
  BY <1>31, <1>32, <1>1, <1>2, <1>3, <1>4, <1>5, <1>6, <1>7, <1>8, <1>9, <1>10, <1>11, <1>12, <1>13, <1>14, <1>15, <1>16, <1>17, <1>18, <1>19, <1>20, <1>21, <1>22, <1>23, <1>24, <1>25, <1>26, <1>27, <1>28, <1>29, <1>30
     DEF Step, ProducerStep, ProducerTimeout, ConsumerStep, ConsumerTimeout, UiStep

-----------------------------------------------------------------------------
LEMMA FlowInvInit == Init => FlowInv
<1> SUFFICES ASSUME Init PROVE FlowInv
  OBVIOUS
<1>1. RBInv /\ ring_buffer_count = 0
  BY RingInit DEF Init
<1>2. KernelTypeOK /\ ProducerTypeOK /\ ConsumerTypeOK /\ UiTypeOK
  <2>1. KernelTypeOK
    BY FlowConstants, Uint32Closed DEF Init, KernelTypeOK, NoTask
  <2>0. 0 \in Uint32
    BY Uint32Closed
  <2>2. ProducerTypeOK
    <3>1. /\ seq \in Uint32 /\ pending_ticks \in Uint32
          /\ samples \in Uint32 /\ overruns \in Uint32 /\ log_write_drops \in Uint32
      BY <2>0, Zenon DEF Init
    <3>2. /\ log_was_empty \in BOOLEAN /\ doorbell_pending \in BOOLEAN
          /\ write_dropped \in BOOLEAN
      BY Zenon DEF Init
    <3>3. ppc \in PPc /\ timeouts \in 0 .. MaxTimeouts
      BY FlowConstants DEF Init, PPc
    <3>4. QED
      BY <3>1, <3>2, <3>3 DEF ProducerTypeOK
  <2>3. ConsumerTypeOK
    <3>1. received \in Uint32 /\ last_seq \in Uint32 /\ lost \in Uint32 /\ shown \in Uint32
      BY <2>0, Zenon DEF Init
    <3>2. backlog_pending \in BOOLEAN /\ drain_paused \in BOOLEAN
      BY Zenon DEF Init
    <3>3. batch \in Seq(Record) /\ Len(batch) = 0 /\ batch_count = 0
      BY DEF Init
    <3>4. /\ cpc \in CPc /\ msg \in Message
          /\ batch_num \in 0 .. DrainBatchesMax
          /\ log_lock_timeouts \in 0 .. MaxTimeouts /\ queue_depth_peak \in 0 .. QueueLen + 1
      BY FlowConstants DEF Init, CPc, Message, Command
    <3>5. QED
      BY <3>1, <3>2, <3>3, <3>4, FlowConstants DEF ConsumerTypeOK
  <2>4. UiTypeOK
    BY FlowConstants DEF Init, UiTypeOK
  <2>5. QED
    BY <2>1, <2>2, <2>3, <2>4
<1>3. WrittenOnly
  <2>1. Contents \in Seq(Record)
    BY <1>1, ContentsIs DEF ContentsShape
  <2>2. ring_buffer_peek_newest = <<>>
    BY DEF Init, ring_buffer_init, ring_buffer_peek_newest
  <2>3. QED
    BY <2>1, <2>2 DEF WrittenOnly
<1>4. FlowControl
  BY <1>1 DEF Init, FlowControl, LockHeld, EmptinessStillTrue, ShortBatchEmptiesLog,
              DoorbellArmed, NoTask
<1>5. QED
  BY <1>1, <1>2, <1>3, <1>4 DEF FlowInv, FlowTypeOK, FlowControl, RBInv

LEMMA FlowInvNext == FlowInv /\ [Next]_vars => FlowInv'
<1> SUFFICES ASSUME FlowInv, [Next]_vars PROVE FlowInv'
  OBVIOUS
<1>1. [Step]_vars
  BY NextIsStep
<1>2. RBInv' /\ WrittenOnly'
  BY <1>1, RingNext
<1>3. KernelTypeOK' /\ ProducerTypeOK' /\ ConsumerTypeOK' /\ UiTypeOK'
  BY <1>1, TypesNext
<1>4. FlowControl'
  BY <1>1, ControlNext
<1>5. QED
  BY <1>2, <1>3, <1>4 DEF FlowInv, FlowTypeOK, FlowControl, RBInv

(* FlowInv is an invariant.                                                *)
THEOREM FlowInvariant == Spec => []FlowInv
BY FlowInvInit, FlowInvNext, PTL DEF Spec

(* Every variable keeps its type; in particular the consumer's queue never *)
(* exceeds its length and no batch is longer than what was popped.         *)
THEOREM FlowTypes == Spec => []FlowTypeOK
<1>1. FlowInv => FlowTypeOK
  BY DEF FlowInv
<1>2. QED
  BY <1>1, FlowInvariant, PTL

(* The consumer never sleeps on an empty queue while the log holds records *)
(* it would drain, except in the moment before the producer rings.         *)
THEOREM WakeupsNotLost == Spec => []NoLostWakeup
<1>1. FlowInv => NoLostWakeup
  BY DEF FlowInv, DoorbellArmed, GoingToSleep, NoLostWakeup, Asleep
<1>2. QED
  BY <1>1, FlowInvariant, PTL

-----------------------------------------------------------------------------
(* The books of the two tasks, and what a step can change in them.         *)

LEMMA AccountFacts ==
  ASSUME AccountInv
  PROVE  /\ FlowInv /\ RBInv /\ WrittenOnly
         /\ {head, tail, overwritten, seq, samples, overruns, log_write_drops, notified,
             pending_ticks, received} \subseteq Int
         /\ Wrap \in Nat \ {0}
BY ConstantsOK, Uint32Closed
   DEF AccountInv, FlowInv, FlowTypeOK, RBInv, RBTypeOK, KernelTypeOK, ProducerTypeOK, ConsumerTypeOK

(* A task's own variables are changed by its own steps only, and the       *)
(* producer alone moves the log's head.                                    *)
LEMMA OthersLeaveProducer ==
  ASSUME TimerTick \/ UiScan \/ UiStep \/ ConsumerStep \/ ConsumerTimeout \/ UNCHANGED vars
  PROVE  UNCHANGED <<ppc, seq, log_write_drops, write_dropped, head>>
<1> USE DEF rbVars, producerVars, producerLocals, producerStats
<1>1. CASE TimerTick \/ UiScan \/ UiStep \/ UNCHANGED vars
  BY <1>1 DEF TimerTick, UiScan, UiStep, ui_send, vars
<1>2. CASE ConsumerTimeout
  BY <1>2 DEF ConsumerTimeout, QueuePollTimeout, LookLockTimeout, ReadLockTimeout
<1>3. CASE ConsumerStep
  <2>1. CASE QueueReceive \/ QueueGlance \/ NoteQueueDepth \/ consumer_handle_msg
    BY <2>1 DEF QueueReceive, QueueGlance, NoteQueueDepth, consumer_handle_msg
  <2>2. CASE CountWrites \/ LookLock \/ Look \/ PrintReport
    BY <2>2 DEF CountWrites, LookLock, Look, PrintReport
  <2>3. CASE DrainPaused \/ DrainStart \/ ReadLock \/ ReadCopy
    BY <2>3 DEF DrainPaused, DrainStart, ReadLock, ReadCopy
  <2>4. CASE ReadRelease \/ ReadUnlock \/ consumer_process_record \/ DrainNext
    BY <2>4 DEF ReadRelease, ReleaseOldest, ReadUnlock, consumer_process_record, DrainNext
  <2>5. QED
    BY <1>3, <2>1, <2>2, <2>3, <2>4, Zenon DEF ConsumerStep
<1>4. QED
  BY <1>1, <1>2, <1>3, Zenon

LEMMA OthersLeaveConsumer ==
  ASSUME TimerTick \/ UiScan \/ UiStep \/ ProducerStep \/ ProducerTimeout \/ UNCHANGED vars
  PROVE  UNCHANGED <<cpc, batch, received, last_seq, lost>>
<1> USE DEF consumerVars, drainState, batchVars
<1>1. CASE TimerTick \/ UiScan \/ UiStep \/ UNCHANGED vars
  BY <1>1 DEF TimerTick, UiScan, UiStep, ui_send, vars
<1>2. CASE ProducerTimeout
  BY <1>2 DEF ProducerTimeout, NotifyTimeout, WriteLockTimeout
<1>3. CASE ProducerStep
  <2>1. CASE NotifyTake \/ WriteLock \/ WriteTestEmpty \/ WritePush
    BY <2>1 DEF NotifyTake, WriteLock, WriteTestEmpty, WritePush
  <2>2. CASE WriteUnlock \/ RingDoorbell \/ producer_update_stats
    BY <2>2 DEF WriteUnlock, RingDoorbell, producer_update_stats
  <2>3. QED
    BY <1>3, <2>1, <2>2, Zenon DEF ProducerStep
<1>4. QED
  BY <1>1, <1>2, <1>3, Zenon

LEMMA WhoSteps ==
  ASSUME [Step]_vars
  PROVE  TimerTick \/ UiScan \/ UiStep \/ UNCHANGED vars
         \/ ProducerStep \/ ProducerTimeout \/ ConsumerStep \/ ConsumerTimeout
BY DEF Step

LEMMA ProducerBooks ==
  ASSUME AccountInv, [Step]_vars
  PROVE  \/ UNCHANGED <<head, seq, log_write_drops, Unwritten>>
         \/ NotifyTake \/ WritePush \/ producer_update_stats
<1>1. CASE TimerTick \/ UiScan \/ UiStep \/ ConsumerStep \/ ConsumerTimeout \/ UNCHANGED vars
  BY <1>1, OthersLeaveProducer DEF Unwritten
<1>2. CASE ProducerTimeout
  BY <1>2 DEF ProducerTimeout, NotifyTimeout, WriteLockTimeout, Unwritten, rbVars, producerStats
<1>3. CASE WriteLock \/ WriteTestEmpty
  BY <1>3 DEF WriteLock, WriteTestEmpty, Unwritten, rbVars, producerStats, producerLocals
<1>4. CASE WriteUnlock \/ RingDoorbell
  BY <1>4 DEF AccountInv, RungIfWritten, WriteUnlock, RingDoorbell, Unwritten, rbVars,
              producerStats
<1>5. QED
  BY <1>1, <1>2, <1>3, <1>4, WhoSteps, Zenon DEF ProducerStep

LEMMA ConsumerBooks ==
  ASSUME AccountInv, [Step]_vars
  PROVE  \/ UNCHANGED <<rbVars, received, last_seq, lost, Unprocessed>>
         \/ WritePush /\ UNCHANGED <<received, last_seq, lost, Unprocessed>>
         \/ ReadRelease \/ consumer_process_record
<1> DEFINE Books == <<received, last_seq, lost, Unprocessed>>
<1>1. ASSUME TimerTick \/ UiScan \/ UiStep \/ ProducerStep \/ ProducerTimeout \/ UNCHANGED vars
      PROVE  UNCHANGED Books
  BY <1>1, OthersLeaveConsumer DEF Unprocessed
<1> USE DEF Unprocessed, consumerVars, drainState, batchVars
<1>2. CASE ConsumerTimeout
  <2>1. UNCHANGED rbVars
    BY <1>2 DEF ConsumerTimeout, QueuePollTimeout, LookLockTimeout, ReadLockTimeout
  <2>2. UNCHANGED Books
    BY <1>2 DEF ConsumerTimeout, QueuePollTimeout, LookLockTimeout, ReadLockTimeout
  <2>3. QED
    BY <2>1, <2>2, Zenon
<1>3. CASE ConsumerStep
  <2>1. CASE QueueReceive \/ QueueGlance \/ NoteQueueDepth \/ consumer_handle_msg
    BY <2>1 DEF QueueReceive, QueueGlance, NoteQueueDepth, consumer_handle_msg
  <2>2. CASE CountWrites \/ LookLock \/ Look \/ PrintReport
    BY <2>2 DEF CountWrites, LookLock, Look, PrintReport
  <2>3. CASE DrainPaused \/ DrainStart \/ ReadLock
    BY <2>3 DEF DrainPaused, DrainStart, ReadLock
  <2>4. CASE ReadCopy
    BY <2>4 DEF ReadCopy, AccountInv, CopyStillTrue
  <2>5. CASE ReadUnlock
    BY <2>5 DEF ReadUnlock
  <2>6. CASE DrainNext
    BY <2>6 DEF DrainNext
  <2>7. QED
    BY <1>3, <2>1, <2>2, <2>3, <2>4, <2>5, <2>6, Zenon DEF ConsumerStep
<1>4. CASE TimerTick \/ UiScan \/ UiStep \/ ProducerTimeout \/ UNCHANGED vars
  <2>1. UNCHANGED rbVars
    BY <1>4 DEF TimerTick, UiScan, UiStep, ui_send, ProducerTimeout, NotifyTimeout,
                WriteLockTimeout, vars, rbVars
  <2>2. QED
    BY <1>1, <1>4, <2>1, Zenon
<1>5. CASE ProducerStep
  <2>1. WritePush \/ UNCHANGED rbVars
    BY <1>5 DEF ProducerStep, NotifyTake, WriteLock, WriteTestEmpty, WriteUnlock, RingDoorbell,
                producer_update_stats
  <2>2. QED
    BY <1>1, <1>5, <2>1, Zenon
<1>6. QED
  BY <1>2, <1>3, <1>4, <1>5, WhoSteps, Zenon

LEMMA TickBooks ==
  ASSUME AccountInv, [Step]_vars
  PROVE  \/ UNCHANGED <<ticks, samples, overruns, notified, BeingSampled>>
         \/ TimerTick /\ UNCHANGED BeingSampled
         \/ NotifyTake \/ producer_update_stats
BY DEF BeingSampled, vars,
       kernelVars, producerVars, producerLocals, producerStats,
       Step, TimerTick, UiScan, UiStep, ui_send, ProducerStep, ProducerTimeout,
       WriteLock, WriteTestEmpty, WritePush, WriteUnlock, RingDoorbell, NotifyTimeout,
       WriteLockTimeout, ConsumerStep, ConsumerTimeout,
       QueueReceive, QueueGlance, NoteQueueDepth, consumer_handle_msg, CountWrites,
       LookLock, Look, PrintReport, DrainPaused, DrainStart, ReadLock, ReadCopy, ReadRelease,
       ReadUnlock, consumer_process_record, DrainNext, QueuePollTimeout, LookLockTimeout,
       ReadLockTimeout

-----------------------------------------------------------------------------
(* Each account is kept.                                                   *)

LEMMA WrittenBalanced ==
  ASSUME AccountInv, [Step]_vars
  PROVE  head' = (seq' - (Unwritten' + log_write_drops')) % Wrap
<1> DEFINE out == Unwritten + log_write_drops
<1>1. head = (seq - out) % Wrap /\ out \in Int /\ Unwritten \in {0, 1}
  BY AccountFacts DEF AccountInv, LogStatsTrue, Unwritten
<1>2. /\ head \in Int /\ seq \in Int /\ log_write_drops \in Int
      /\ Wrap \in Nat \ {0}
  BY AccountFacts
<1>3. CASE UNCHANGED <<head, seq, log_write_drops, Unwritten>>
  BY <1>1, <1>3
<1>4. CASE NotifyTake
  <2>1. /\ seq' = (seq + 1) % Wrap /\ head' = head
        /\ Unwritten = 0 /\ Unwritten' = 1 /\ log_write_drops' = log_write_drops
    BY <1>4 DEF NotifyTake, Unwritten, rbVars, producerStats
  <2>2. (((seq + 1) % Wrap) + (-(1 + out))) % Wrap = ((seq + 1) + (-(1 + out))) % Wrap
    <3> DEFINE x == seq + 1
               y == -(1 + out)
    <3>1. x \in Int /\ y \in Int
      BY <1>1, <1>2
    <3> HIDE DEF x, y
    <3>2. ((x % Wrap) + y) % Wrap = (x + y) % Wrap
      BY <1>2, <3>1, ModAdd
    <3>3. QED
      BY <3>2 DEF x, y
  <2>3. /\ ((seq + 1) % Wrap) + (-(1 + out)) = seq' - (Unwritten' + log_write_drops')
        /\ (seq + 1) + (-(1 + out)) = seq - out
    BY <1>1, <1>2, <2>1, ModRange
  <2>4. QED
    BY <1>1, <2>1, <2>2, <2>3
<1>5. CASE WritePush
  <2>1. /\ head' = (head + 1) % Wrap /\ seq' = seq
        /\ Unwritten = 1 /\ Unwritten' = 0 /\ log_write_drops' = log_write_drops
    BY <1>5 DEF WritePush, ring_buffer_push, Unwritten, producerLocals, producerStats
  <2>2. (((seq - out) % Wrap) + 1) % Wrap = ((seq - out) + 1) % Wrap
    <3> HIDE DEF out
    <3>1. seq - out \in Int
      BY <1>1, <1>2
    <3>2. QED
      BY <3>1, <1>2, ModAdd
  <2>3. (seq - out) + 1 = seq' - (Unwritten' + log_write_drops')
    BY <1>1, <1>2, <2>1
  <2>4. QED
    BY <1>1, <2>1, <2>2, <2>3
<1>6. CASE producer_update_stats
  <2>1. /\ log_write_drops' = (log_write_drops + drop) % Wrap /\ head' = head /\ seq' = seq
        /\ Unwritten = drop /\ Unwritten' = 0 /\ drop \in Int
    BY <1>6 DEF producer_update_stats, Unwritten, drop, rbVars, producerLocals
  <2>2. (seq - ((log_write_drops + drop) % Wrap)) % Wrap = (seq - (log_write_drops + drop)) % Wrap
    <3> DEFINE y == log_write_drops + drop
    <3>1. y \in Int
      BY <1>2, <2>1
    <3> HIDE DEF y
    <3>2. (seq - (y % Wrap)) % Wrap = (seq - y) % Wrap
      BY <1>2, <3>1, ModSub
    <3>3. QED
      BY <3>2 DEF y
  <2>3. /\ seq - (log_write_drops + drop) = seq - out
        /\ seq - ((log_write_drops + drop) % Wrap) = seq' - (Unwritten' + log_write_drops')
    BY <1>1, <1>2, <2>1, ModRange
  <2>4. QED
    BY <1>1, <2>1, <2>2, <2>3
<1>7. QED
  BY <1>3, <1>4, <1>5, <1>6, ProducerBooks

(* Both counters of the ring move on by one: their difference stays.       *)
LEMMA ModSubStep ==
  ASSUME NEW n \in Nat \ {0}, NEW x \in Int, NEW y \in Int
  PROVE  (((x + 1) % n) - ((y + 1) % n)) % n = (x - y) % n
<1> DEFINE s == x + 1
           t == y + 1
           a == s % n
           b == -t
<1>1. s \in Int /\ t \in Int /\ a \in Int /\ b \in Int
  BY ModRange
<1>2. (a - (t % n)) % n = (a - t) % n
  <2> HIDE DEF a, t
  <2>1. QED
    BY <1>1, ModSub
<1>3. ((s % n) + b) % n = (s + b) % n
  <2> HIDE DEF s, b
  <2>1. QED
    BY <1>1, ModAdd
<1>4. s + b = x - y /\ (s % n) + b = a - t
  BY <1>1
<1>5. QED
  BY <1>2, <1>3, <1>4

LEMMA UnprocessedTypes ==
  ASSUME AccountInv
  PROVE  Unprocessed \in Seq(Record) /\ Taken \in Nat /\ batch \in Seq(Record)
BY DEF AccountInv, FlowInv, FlowTypeOK, ConsumerTypeOK, Unprocessed, Taken

(* When tail moves past a batch, the batch is what lay before it.          *)
LEMMA ReleasedIsTaken ==
  ASSUME AccountInv, ReadRelease
  PROVE  /\ batch_count \in 0 .. ring_buffer_count /\ Len(batch) = batch_count
         /\ batch = SubSeq(Contents, 1, batch_count)
         /\ Unprocessed = <<>> /\ Taken = 0 /\ Unprocessed' = batch /\ Taken' = batch_count
         /\ ReleaseOldest(batch_count)
         /\ UNCHANGED <<received, last_seq, batch, batch_count>>
<1>1. /\ RBInv /\ WrittenOnly /\ cpc = "release"
      /\ batch_count = pop_count(ReadBatch) /\ batch = records_out(ReadBatch)
  BY AccountFacts DEF AccountInv, FlowInv, ShortBatchEmptiesLog, CopyStillTrue, ReadRelease
<1>2. Len(batch) = batch_count /\ batch_count \in 0 .. ring_buffer_count
  BY <1>1, CopyTypes, PopCountOK, FlowConstants
<1>3. batch = SubSeq(Contents, 1, batch_count)
  BY <1>1, CopyIsPrefix, FlowConstants
<1>4. UNCHANGED <<received, last_seq, batch, batch_count>> /\ ReleaseOldest(batch_count)
  BY DEF ReadRelease, drainState, batchVars
<1>5. Unprocessed = <<>> /\ Unprocessed' = batch
  BY <1>1, <1>4 DEF ReadRelease, Unprocessed
<1>6. QED
  BY <1>2, <1>3, <1>4, <1>5 DEF Taken

LEMMA ReadBalanced ==
  ASSUME AccountInv, [Step]_vars
  PROVE  records_read' = (received' + Taken') % Wrap
<1>1. /\ records_read = (received + Taken) % Wrap
      /\ tail \in Int /\ overwritten \in Int /\ received \in Int /\ Taken \in Nat
      /\ Wrap \in Nat \ {0}
  BY AccountFacts, UnprocessedTypes DEF AccountInv, LogStatsTrue
<1>2. CASE UNCHANGED <<rbVars, received, last_seq, Unprocessed>>
  BY <1>1, <1>2 DEF records_read, rbVars, Taken
<1>3. CASE WritePush /\ UNCHANGED <<received, last_seq, Unprocessed>>
  <2>1. GiveUpOldest \/ KeepOldest
    BY <1>3 DEF WritePush, ring_buffer_push
  <2>2. CASE GiveUpOldest
    <3>1. tail' = (tail + 1) % Wrap /\ overwritten' = (overwritten + 1) % Wrap
      BY <2>2 DEF GiveUpOldest
    <3>2. records_read' = records_read
      BY <1>1, <3>1, ModSubStep DEF records_read
    <3>3. QED
      BY <1>1, <1>3, <3>2 DEF Taken
  <2>3. CASE KeepOldest
    BY <1>1, <1>3, <2>3 DEF KeepOldest, records_read, Taken
  <2>4. QED
    BY <2>1, <2>2, <2>3
<1>4. CASE ReadRelease
  <2> DEFINE c == batch_count
             moved == tail + c
             r == received
  <2>1. /\ tail' = (tail + c) % Wrap /\ overwritten' = overwritten /\ c \in Int
        /\ Taken = 0 /\ Taken' = c /\ received' = received
    BY <1>4, ReleasedIsTaken DEF ReleaseOldest
  <2>2. moved \in Int /\ -overwritten \in Int
    BY <1>1, <2>1
  <2>3. ((moved % Wrap) + (-overwritten)) % Wrap = (moved + (-overwritten)) % Wrap
    <3> HIDE DEF moved
    <3>1. QED
      BY <1>1, <2>2, ModAdd
  <2>4. (((tail - overwritten) % Wrap) + c) % Wrap = ((tail - overwritten) + c) % Wrap
    <3> DEFINE d == tail - overwritten
    <3>1. d \in Int
      BY <1>1
    <3> HIDE DEF d, c
    <3>2. ((d % Wrap) + c) % Wrap = (d + c) % Wrap
      BY <1>1, <2>1, <3>1, ModAdd
    <3>3. QED
      BY <3>2 DEF d
  <2>5. ((r % Wrap) + c) % Wrap = (r + c) % Wrap
    <3> HIDE DEF c
    <3>1. QED
      BY <1>1, <2>1, ModAdd
  <2>6. (tail - overwritten) % Wrap = r % Wrap
    BY <1>1, <2>1 DEF records_read
  <2>7. /\ (moved % Wrap) + (-overwritten) = tail' - overwritten'
        /\ moved + (-overwritten) = (tail - overwritten) + c
    BY <1>1, <2>1, ModRange
  <2>8. records_read' = (r + c) % Wrap
    BY <2>3, <2>4, <2>5, <2>6, <2>7 DEF records_read
  <2>9. QED
    BY <2>1, <2>8
<1>5. CASE consumer_process_record
  <2>1. /\ received' = (received + 1) % Wrap /\ UNCHANGED <<tail, overwritten, cpc>>
        /\ cpc = "process" /\ batch # <<>> /\ batch' = Tail(batch) /\ batch \in Seq(Record)
    BY <1>5, UnprocessedTypes DEF consumer_process_record, rbVars
  <2>2. Taken' = Taken - 1
    BY <2>1 DEF Taken, Unprocessed
  <2>3. (((received + 1) % Wrap) + (Taken - 1)) % Wrap = ((received + 1) + (Taken - 1)) % Wrap
    <3> DEFINE x == received + 1
               y == Taken - 1
    <3>1. x \in Int /\ y \in Int
      BY <1>1
    <3> HIDE DEF x, y
    <3>2. ((x % Wrap) + y) % Wrap = (x + y) % Wrap
      BY <1>1, <3>1, ModAdd
    <3>3. QED
      BY <3>2 DEF x, y
  <2>4. (received + 1) + (Taken - 1) = received + Taken
    BY <1>1
  <2>5. QED
    BY <1>1, <2>1, <2>2, <2>3, <2>4 DEF records_read
<1>6. QED
  BY <1>2, <1>3, <1>4, <1>5, ConsumerBooks

(* Two terms of a sum may be reduced first.                                *)
LEMMA ModAddTwo ==
  ASSUME NEW n \in Nat \ {0}, NEW x \in Int, NEW y \in Int, NEW z \in Int
  PROVE  ((x % n) + (y % n) + z) % n = (x + y + z) % n
<1> DEFINE u == (y % n) + z
           v == x + z
<1>1. u \in Int /\ v \in Int /\ x % n \in Int /\ y % n \in Int
  BY ModRange
<1>2. ((x % n) + u) % n = (x + u) % n
  <2> HIDE DEF u
  <2>1. QED
    BY <1>1, ModAdd
<1>3. ((y % n) + v) % n = (y + v) % n
  <2> HIDE DEF v
  <2>1. QED
    BY <1>1, ModAdd
<1>4. x + u = (y % n) + v /\ y + v = x + y + z /\ (x % n) + u = (x % n) + (y % n) + z
  BY <1>1
<1>5. QED
  BY <1>2, <1>3, <1>4

LEMMA TicksBalanced ==
  ASSUME AccountInv, [Step]_vars
  PROVE  TicksAccounted'
<1> DEFINE rest == samples + overruns + BeingSampled
           total == samples + overruns + notified + BeingSampled
<1>1. /\ ticks % Wrap = total % Wrap
      /\ ticks \in Int /\ rest \in Int /\ total \in Int
      /\ Wrap \in Nat \ {0} /\ total = notified + rest
      /\ samples \in Int /\ overruns \in Int /\ notified \in Int /\ pending_ticks \in Int
  <2>1. ticks \in Nat
    BY FlowConstants DEF AccountInv, FlowInv, FlowTypeOK, KernelTypeOK
  <2>2. QED
    BY <2>1, AccountFacts DEF AccountInv, TicksAccounted, BeingSampled
<1>2. CASE UNCHANGED <<ticks, samples, overruns, notified, BeingSampled>>
  BY <1>1, <1>2 DEF TicksAccounted
<1>3. CASE TimerTick /\ UNCHANGED BeingSampled
  <2>1. /\ ticks' = ticks + 1 /\ notified' = (notified + 1) % Wrap
        /\ UNCHANGED <<samples, overruns, BeingSampled>>
    BY <1>3 DEF TimerTick, producerVars, producerStats
  <2>2. ((ticks % Wrap) + 1) % Wrap = (ticks + 1) % Wrap
    <3> DEFINE x == ticks
               y == 1
    <3>1. x \in Int /\ y \in Int /\ Wrap \in Nat \ {0}
      BY <1>1
    <3> HIDE DEF x, y, total, rest
    <3>2. ((x % Wrap) + y) % Wrap = (x + y) % Wrap
      BY <3>1, ModAdd
    <3>3. QED
      BY <3>2 DEF x, y
  <2>3. ((total % Wrap) + 1) % Wrap = (total + 1) % Wrap
    <3> HIDE DEF total
    <3>1. QED
      BY <1>1, ModAdd
  <2>4. (((notified + 1) % Wrap) + rest) % Wrap = ((notified + 1) + rest) % Wrap
    <3> DEFINE x == notified + 1
    <3>1. x \in Int
      BY <1>1
    <3> HIDE DEF x, rest
    <3>2. ((x % Wrap) + rest) % Wrap = (x + rest) % Wrap
      BY <1>1, <3>1, ModAdd
    <3>3. QED
      BY <3>2 DEF x
  <2>5. /\ (notified + 1) + rest = total + 1
        /\ ((notified + 1) % Wrap) + rest = samples' + overruns' + notified' + BeingSampled'
    <3>1. (notified + 1) % Wrap \in Int
      BY <1>1, ModRange
    <3>2. BeingSampled \in Int
      BY <1>1 DEF BeingSampled
    <3>3. QED
      BY <1>1, <2>1, <3>1, <3>2
  <2>6. QED
    BY <1>1, <2>1, <2>2, <2>3, <2>4, <2>5 DEF TicksAccounted
<1>4. CASE NotifyTake
  <2>1. /\ UNCHANGED <<ticks, samples, overruns>> /\ notified' = 0
        /\ BeingSampled = 0 /\ BeingSampled' = notified
    BY <1>4 DEF NotifyTake, BeingSampled, producerStats
  <2>2. samples' + overruns' + notified' + BeingSampled' = total
    BY <1>1, <2>1
  <2>3. QED
    BY <1>1, <2>1, <2>2 DEF TicksAccounted
<1>5. CASE producer_update_stats
  <2> DEFINE x == samples + 1
             y == overruns + missed_ticks
  <2>1. /\ UNCHANGED <<ticks, notified>> /\ samples' = x % Wrap /\ overruns' = y % Wrap
        /\ BeingSampled = pending_ticks /\ BeingSampled' = 0
    BY <1>5 DEF producer_update_stats, BeingSampled, kernelVars
  <2>2. x \in Int /\ y \in Int /\ x + y + notified = total
    BY <1>1, <2>1 DEF missed_ticks
  <2>3. ((x % Wrap) + (y % Wrap) + notified) % Wrap = (x + y + notified) % Wrap
    <3> DEFINE z == notified
    <3>1. x \in Int /\ y \in Int /\ z \in Int /\ Wrap \in Nat \ {0}
      BY <1>1, <2>2
    <3> HIDE DEF x, y, z
    <3>2. ((x % Wrap) + (y % Wrap) + z) % Wrap = (x + y + z) % Wrap
      BY <3>1, ModAddTwo
    <3>3. QED
      BY <3>2 DEF z
  <2>4. samples' + overruns' + notified' + BeingSampled' = (x % Wrap) + (y % Wrap) + notified
    <3> HIDE DEF x, y
    <3>1. x % Wrap \in Int /\ y % Wrap \in Int
      BY <1>1, <2>2, ModRange
    <3>2. QED
      BY <1>1, <2>1, <3>1
  <2>5. QED
    BY <1>1, <2>1, <2>2, <2>3, <2>4 DEF TicksAccounted
<1>6. QED
  BY <1>2, <1>3, <1>4, <1>5, TickBooks

LEMMA BatchNext ==
  ASSUME AccountInv, [Step]_vars
  PROVE  CopyStillTrue' /\ RungIfWritten'
<1>1. RungIfWritten'
  BY DEF AccountInv, RungIfWritten, vars, producerVars, producerLocals,
       Step, TimerTick, UiScan, UiStep, ui_send, ProducerStep, ProducerTimeout,
       NotifyTake, WriteLock, WriteTestEmpty, WritePush, WriteUnlock, RingDoorbell,
       producer_update_stats, NotifyTimeout, WriteLockTimeout,
       ConsumerStep, ConsumerTimeout,
       QueueReceive, QueueGlance, NoteQueueDepth, consumer_handle_msg, CountWrites,
       LookLock, Look, PrintReport, DrainPaused, DrainStart, ReadLock, ReadCopy, ReadRelease,
       ReadUnlock, consumer_process_record, DrainNext, QueuePollTimeout, LookLockTimeout,
       ReadLockTimeout
<1>2. \/ UNCHANGED <<cpc, batch>>
      \/ ReadCopy
      \/ cpc # "release" /\ cpc' # "release" /\ UNCHANGED batch
         /\ (cpc' \in {"unlock", "process"} \/ batch = <<>>)
      \/ cpc = "release" /\ cpc' = "unlock"
      \/ consumer_process_record
  BY DEF AccountInv, CopyStillTrue, vars, consumerVars, batchVars,
       Step, TimerTick, UiScan, UiStep, ui_send, ProducerStep, ProducerTimeout,
       NotifyTake, WriteLock, WriteTestEmpty, WritePush, WriteUnlock, RingDoorbell,
       producer_update_stats, NotifyTimeout, WriteLockTimeout,
       ConsumerStep, ConsumerTimeout,
       QueueReceive, QueueGlance, NoteQueueDepth, consumer_handle_msg, CountWrites,
       LookLock, Look, PrintReport, DrainPaused, DrainStart, ReadLock, ReadRelease,
       ReadUnlock, DrainNext, QueuePollTimeout, LookLockTimeout, ReadLockTimeout
<1>3. CASE UNCHANGED <<cpc, batch>>
  <2>1. CASE cpc = "release"
    <3>1. ~WritePush
      BY <2>1 DEF AccountInv, FlowInv, LockHeld, WritePush, Task, NoTask
    <3>2. ~ReadRelease
      BY <2>1, <1>3 DEF ReadRelease
    <3>3. UNCHANGED rbVars
      BY <3>1, <3>2, RingStep DEF AccountInv, vars, rbVars
    <3>4. records_out(ReadBatch)' = records_out(ReadBatch)
      BY <3>3 DEF rbVars, records_out, pop_count, ring_buffer_count
    <3>5. QED
      BY <1>1, <1>3, <2>1, <3>4 DEF AccountInv, CopyStillTrue
  <2>2. CASE cpc # "release"
    BY <1>1, <1>3, <2>2 DEF AccountInv, CopyStillTrue
  <2>3. QED
    BY <2>1, <2>2
<1>4. CASE ReadCopy
  <2>1. /\ UNCHANGED rbVars /\ cpc' = "release" /\ batch' = records_out(ReadBatch)
    BY <1>4 DEF ReadCopy
  <2>2. records_out(ReadBatch)' = records_out(ReadBatch)
    BY <2>1 DEF rbVars, records_out, pop_count, ring_buffer_count
  <2>3. QED
    BY <1>1, <2>1, <2>2 DEF CopyStillTrue
<1>5. CASE /\ cpc # "release" /\ cpc' # "release" /\ UNCHANGED batch
           /\ (cpc' \in {"unlock", "process"} \/ batch = <<>>)
  BY <1>1, <1>5 DEF CopyStillTrue
<1>6. CASE cpc = "release" /\ cpc' = "unlock"
  BY <1>1, <1>6 DEF CopyStillTrue
<1>7. CASE consumer_process_record
  BY <1>1, <1>7 DEF consumer_process_record, CopyStillTrue
<1>8. QED
  BY <1>2, <1>3, <1>4, <1>5, <1>6, <1>7

-----------------------------------------------------------------------------
(* What arrives last.                                                      *)

LastOf(first, second, third) ==
  IF third # <<>> THEN third[Len(third)] ELSE IF second # <<>> THEN second[Len(second)] ELSE first

LEMMA LastUnderWay ==
  ASSUME NEW S, NEW first \in S, NEW second \in Seq(S), NEW third \in Seq(S)
  PROVE  LET all == <<first>> \o second \o third IN all[Len(all)] = LastOf(first, second, third)
<1> DEFINE all == <<first>> \o second \o third
<1>1. Len(all) = 1 + Len(second) + Len(third) /\ Len(second) \in Nat /\ Len(third) \in Nat
  OBVIOUS
<1>2. CASE third # <<>>
  <2>1. all[Len(all)] = third[Len(third)]
    BY <1>1, <1>2
  <2>2. QED
    BY <1>2, <2>1 DEF LastOf
<1>3. CASE third = <<>> /\ second # <<>>
  <2>1. all[Len(all)] = second[Len(second)]
    BY <1>1, <1>3
  <2>2. QED
    BY <1>3, <2>1 DEF LastOf
<1>4. CASE third = <<>> /\ second = <<>>
  <2>1. all[Len(all)] = first
    BY <1>1, <1>4
  <2>2. QED
    BY <1>4, <2>1 DEF LastOf
<1>5. QED
  BY <1>2, <1>3, <1>4

LEMMA LastIs ==
  ASSUME last_seq \in Record, Unprocessed \in Seq(Record), Contents \in Seq(Record)
  PROVE  Outstanding[Len(Outstanding)] = LastOf(last_seq, Unprocessed, Contents)
BY LastUnderWay DEF Outstanding

LEMMA OneLeft ==
  ASSUME NEW S, NEW s \in Seq(S), s # <<>>, Tail(s) = <<>>
  PROVE  Len(s) = 1
<1>1. Len(Tail(s)) = Len(s) - 1
  OBVIOUS
<1>2. Len(Tail(s)) = Len(<<>>)
  BY Zenon
<1>3. Len(<<>>) = 0 /\ Len(s) \in Nat
  OBVIOUS
<1>4. QED
  BY <1>1, <1>2, <1>3

LEMMA NewestNext ==
  ASSUME AccountInv, [Step]_vars,
         last_seq' \in Record, Unprocessed' \in Seq(Record), Contents' \in Seq(Record)
  PROVE  NewestLast'
<1> DEFINE last == LastOf(last_seq, Unprocessed, Contents)
           lastNext == LastOf(last_seq', Unprocessed', Contents')
<1>1. /\ last_seq \in Record /\ Unprocessed \in Seq(Record) /\ Contents \in Seq(Record)
      /\ RBInv /\ Len(Contents) = ring_buffer_count
      /\ has_newest => ring_buffer_peek_newest = <<last>>
  <2>1. /\ last_seq \in Record /\ Unprocessed \in Seq(Record) /\ Contents \in Seq(Record)
        /\ RBInv
    BY AccountFacts, UnprocessedTypes, FlowConstants
       DEF WrittenOnly, FlowInv, FlowTypeOK, ConsumerTypeOK
  <2>2. QED
    BY <2>1, LastIs, ContentsIs DEF AccountInv, NewestLast, ContentsShape
<1>2. lastNext = (Outstanding[Len(Outstanding)])'
  BY LastUnderWay DEF Outstanding
<1> SUFFICES ASSUME has_newest' PROVE ring_buffer_peek_newest' = <<lastNext>>
  BY <1>2 DEF NewestLast
<1>3. CASE UNCHANGED <<rbVars, received, last_seq, Unprocessed>>
  <2>1. /\ UNCHANGED <<last_seq, Unprocessed, has_newest>> /\ UNCHANGED rbVars
    BY <1>3 DEF rbVars
  <2>2. Contents' = Contents /\ ring_buffer_peek_newest' = ring_buffer_peek_newest
    BY <2>1, RingUntouched
  <2>3. QED
    BY <1>1, <2>1, <2>2
<1>4. CASE WritePush /\ UNCHANGED <<received, last_seq, Unprocessed>>
  <2>1. ring_buffer_push(seq) /\ seq \in Record
    BY <1>4, FlowConstants DEF WritePush, AccountInv, FlowInv, FlowTypeOK, ProducerTypeOK
  <2>2. ring_buffer_peek_newest' = <<seq>>
    BY <1>1, <2>1, PushIsNewest
  <2>3. \E older \in Seq(Record) : Contents' = Append(older, seq)
    <3>1. CASE dropped_oldest
      <4>1. Contents' = Append(Tail(Contents), seq)
        BY <1>1, <2>1, <3>1, PushShifts
      <4>2. Contents # <<>>
        BY <1>1, <3>1, ConstantsOK DEF dropped_oldest
      <4>3. Tail(Contents) \in Seq(Record)
        BY <1>1, <4>2
      <4>4. QED
        BY <4>1, <4>3
    <3>2. CASE ~dropped_oldest
      <4>1. Contents' = Append(Contents, seq)
        BY <1>1, <2>1, <3>2, PushAppends
      <4>2. QED
        BY <1>1, <4>1
    <3>3. QED
      BY <3>1, <3>2
  <2>4. PICK older \in Seq(Record) : Contents' = Append(older, seq)
    BY <2>3
  <2>5. lastNext = seq
    BY <2>1, <2>4 DEF LastOf
  <2>6. QED
    BY <2>2, <2>5
<1>5. CASE ReadRelease
  <2>1. /\ batch_count \in 0 .. Len(Contents) /\ Len(batch) = batch_count
        /\ batch = SubSeq(Contents, 1, batch_count)
        /\ Unprocessed = <<>> /\ Unprocessed' = batch /\ last_seq' = last_seq
        /\ ReleaseOldest(batch_count)
    BY <1>1, <1>5, ReleasedIsTaken
  <2>2. Contents' = SubSeq(Contents, batch_count + 1, Len(Contents))
    BY <1>1, <2>1, ReleaseDropsPrefix
  <2>3. ring_buffer_peek_newest' = ring_buffer_peek_newest /\ has_newest' = has_newest
    BY <2>1 DEF ReleaseOldest, ring_buffer_peek_newest, Slot
  <2>4. lastNext = last
    <3>1. CASE batch_count < Len(Contents)
      <4>1. /\ Contents' # <<>> /\ Len(Contents') = Len(Contents) - batch_count
            /\ Contents'[Len(Contents')] = Contents[Len(Contents)]
        BY <1>1, <2>1, <2>2, <3>1
      <4>2. Contents # <<>>
        BY <1>1, <2>1, <3>1
      <4>3. QED
        BY <4>1, <4>2 DEF LastOf
    <3>2. CASE batch_count = Len(Contents)
      <4>1. Contents' = <<>> /\ batch = Contents
        BY <1>1, <2>1, <2>2, <3>2
      <4>2. QED
        BY <2>1, <4>1 DEF LastOf
    <3>3. QED
      BY <1>1, <2>1, <3>1, <3>2
  <2>5. QED
    BY <1>1, <2>3, <2>4
<1>6. CASE consumer_process_record
  <2>1. /\ UNCHANGED <<cpc, has_newest>> /\ UNCHANGED rbVars /\ cpc = "process"
        /\ batch # <<>> /\ batch' = Tail(batch) /\ last_seq' = Head(batch)
    BY <1>6 DEF consumer_process_record, rbVars
  <2>2. Contents' = Contents /\ ring_buffer_peek_newest' = ring_buffer_peek_newest
    BY <2>1, RingUntouched
  <2>3. Unprocessed = batch /\ Unprocessed' = Tail(batch) /\ batch \in Seq(Record)
    BY <1>1, <2>1 DEF Unprocessed
  <2>4. lastNext = last
    <3>1. CASE Tail(batch) = <<>>
      <4>1. Len(batch) = 1
        BY <2>1, <2>3, <3>1, OneLeft
      <4>2. QED
        BY <2>1, <2>2, <2>3, <3>1, <4>1 DEF LastOf
    <3>2. CASE Tail(batch) # <<>>
      <4>1. Tail(batch)[Len(Tail(batch))] = batch[Len(batch)]
        BY <2>1, <2>3, <3>2
      <4>2. QED
        BY <2>1, <2>2, <2>3, <3>2, <4>1 DEF LastOf
    <3>3. QED
      BY <3>1, <3>2
  <2>5. QED
    BY <1>1, <2>1, <2>2, <2>4
<1>7. QED
  BY <1>3, <1>4, <1>5, <1>6, ConsumerBooks

-----------------------------------------------------------------------------
LEMMA AccountInvInit == Init => AccountInv
<1> SUFFICES ASSUME Init PROVE AccountInv
  OBVIOUS
<1>1. FlowInv
  BY FlowInvInit
<1>2. CopyStillTrue /\ RungIfWritten /\ NewestLast
  BY DEF Init, ring_buffer_init, CopyStillTrue, RungIfWritten, NewestLast
<1>3. /\ seq = 0 /\ head = 0 /\ tail = 0 /\ overwritten = 0 /\ log_write_drops = 0 /\ received = 0
      /\ ticks = 0 /\ samples = 0 /\ overruns = 0 /\ notified = 0
      /\ Unwritten = 0 /\ Taken = 0 /\ BeingSampled = 0
  BY DEF Init, ring_buffer_init, Unwritten, Taken, Unprocessed, BeingSampled
<1>4. 0 % Wrap = 0
  BY ConstantsOK, ModSmall
<1>5. LogStatsTrue /\ TicksAccounted
  BY <1>3, <1>4 DEF LogStatsTrue, TicksAccounted, records_read
<1>6. QED
  BY <1>1, <1>2, <1>5 DEF AccountInv

LEMMA AccountInvNext == AccountInv /\ [Next]_vars => AccountInv'
<1> SUFFICES ASSUME AccountInv, [Next]_vars PROVE AccountInv'
  OBVIOUS
<1>1. [Step]_vars
  BY NextIsStep
<1>2. FlowInv'
  BY FlowInvNext DEF AccountInv
<1>3. CopyStillTrue' /\ RungIfWritten' /\ TicksAccounted'
  BY <1>1, BatchNext, TicksBalanced
<1>4. LogStatsTrue'
  BY <1>1, WrittenBalanced, ReadBalanced DEF LogStatsTrue
<1>5. /\ last_seq' \in Record /\ Unprocessed' \in Seq(Record) /\ Contents' \in Seq(Record)
  BY <1>2, FlowConstants DEF FlowInv, FlowTypeOK, ConsumerTypeOK, WrittenOnly, Unprocessed
<1>6. NewestLast'
  BY <1>1, <1>5, NewestNext
<1>7. QED
  BY <1>2, <1>3, <1>4, <1>6 DEF AccountInv

(* AccountInv is an invariant.                                             *)
THEOREM AccountInvariant == Spec => []AccountInv
BY AccountInvInit, AccountInvNext, PTL DEF Spec

(* The log's own statistics agree with both tasks' books, across any       *)
(* number of wraps of any of the counters.                                 *)
THEOREM LogStatsAgree == Spec => []LogStatsTrue
<1>1. AccountInv => LogStatsTrue
  BY DEF AccountInv
<1>2. QED
  BY <1>1, AccountInvariant, PTL

(* No timer interrupt is lost or counted twice.                            *)
LEMMA NoTickLost == Spec => []TicksAccounted
<1>1. AccountInv => TicksAccounted
  BY DEF AccountInv
<1>2. QED
  BY <1>1, AccountInvariant, PTL

(* The sum of all the places a sample can be in is the number of samples.  *)
LEMMA BooksAddUp == AccountInv => SamplesAccounted
<1> SUFFICES ASSUME AccountInv PROVE SamplesAccounted
  OBVIOUS
<1> DEFINE k == Unwritten + log_write_drops
           q == received + Taken
           f == head - tail
           d == tail - overwritten
<1>0. /\ {head, tail, overwritten, received, Taken, Unwritten, log_write_drops} \subseteq Int
      /\ seq \in 0 .. Wrap - 1 /\ Wrap \in Nat \ {0}
  <2>1. Taken \in Int
    BY UnprocessedTypes DEF AccountInv, Taken
  <2>2. Unwritten \in Int
    BY DEF Unwritten
  <2>3. QED
    BY <2>1, <2>2, AccountFacts
       DEF AccountInv, FlowInv, FlowTypeOK, ProducerTypeOK, ConsumerTypeOK, RBTypeOK, Uint32
<1>1. /\ head = (seq - k) % Wrap /\ d % Wrap = q % Wrap /\ ring_buffer_count = f % Wrap
      /\ k \in Int /\ q \in Int /\ f \in Int /\ d \in Int /\ Wrap \in Nat \ {0}
      /\ seq \in 0 .. Wrap - 1
      /\ {head, tail, overwritten, received, Taken, Unwritten, log_write_drops} \subseteq Int
  <2>1. head = (seq - k) % Wrap
    BY DEF AccountInv, LogStatsTrue
  <2>2. d % Wrap = q % Wrap
    BY DEF AccountInv, LogStatsTrue, records_read
  <2>3. ring_buffer_count = f % Wrap
    BY DEF ring_buffer_count
  <2>4. k \in Int /\ q \in Int /\ f \in Int /\ d \in Int
    BY <1>0
  <2>5. QED
    BY <1>0, <2>1, <2>2, <2>3, <2>4
<1> DEFINE a == k + overwritten + q
           b == head + k - d
<1>2. a \in Int /\ b \in Int /\ f + a = q + b /\ d + b = head + k
  BY <1>1
<1>3. ((f % Wrap) + a) % Wrap = (f + a) % Wrap
  <2> HIDE DEF f, a
  <2>1. f \in Int /\ a \in Int /\ Wrap \in Nat \ {0}
    BY <1>1, <1>2
  <2>2. QED
    BY <2>1, ModAdd, Zenon
<1>4. ((q % Wrap) + b) % Wrap = (q + b) % Wrap
  <2> HIDE DEF q, b, d, f, k
  <2>1. q \in Int /\ b \in Int /\ Wrap \in Nat \ {0}
    BY <1>1, <1>2
  <2>2. QED
    BY <2>1, ModAdd, Zenon
<1>5. ((d % Wrap) + b) % Wrap = (d + b) % Wrap
  <2> HIDE DEF d, b, q, f, k
  <2>1. d \in Int /\ b \in Int /\ Wrap \in Nat \ {0}
    BY <1>1, <1>2
  <2>2. QED
    BY <2>1, ModAdd, Zenon
<1>6. (head + k) % Wrap = seq
  <2> DEFINE s == seq - k
  <2>1. s \in Int
    BY <1>1
  <2> HIDE DEF s, k
  <2>2. ((s % Wrap) + k) % Wrap = (s + k) % Wrap
    BY <1>1, <2>1, ModAdd
  <2>3. s + k = seq
    BY <1>1 DEF s
  <2>4. seq % Wrap = seq
    BY <1>1, ModSmall
  <2>5. QED
    BY <1>1, <2>2, <2>3, <2>4 DEF s
<1>7. ((f % Wrap) + a) % Wrap = seq
  BY <1>1, <1>2, <1>3, <1>4, <1>5, <1>6
<1>8. (f % Wrap) + a
        = Unwritten + ring_buffer_count + overwritten + log_write_drops + Taken + received
  <2>1. f % Wrap \in Int
    BY <1>1, ModRange
  <2> DEFINE fill == f % Wrap
  <2>2. fill + a = Unwritten + fill + overwritten + log_write_drops + Taken + received
    <3>1. fill \in Int
      BY <2>1
    <3> HIDE DEF fill
    <3>2. QED
      BY <1>0, <3>1
  <2>3. ring_buffer_count = fill
    BY <1>1
  <2>4. QED
    BY <2>2, <2>3
<1>9. QED
  BY <1>7, <1>8 DEF SamplesAccounted

(* No sample is unaccounted for, whatever was overwritten, dropped or      *)
(* still under way, and across any number of wraps.                        *)
LEMMA NoSampleLost == Spec => []SamplesAccounted
BY BooksAddUp, AccountInvariant, PTL

(* Whatever the timer's interrupts bring is received, counted as lost or   *)
(* still on its way, across any number of wraps of any of the counters.    *)
THEOREM NothingIsUncounted == Spec => []NothingUncounted
<1>1. TicksAccounted /\ SamplesAccounted => NothingUncounted
  BY DEF NothingUncounted
<1>2. QED
  BY <1>1, NoTickLost, NoSampleLost, PTL

(* With the log drained, the newest record stored is the last received.    *)
THEOREM NewestArrives == Spec => []LastStoredArrives
<1>1. AccountInv => LastStoredArrives
  <2> SUFFICES ASSUME AccountInv, has_newest, log_mutex = NoTask,
                      ring_buffer_count = 0, batch = <<>>
               PROVE  ring_buffer_peek_newest = <<last_seq>>
    BY DEF LastStoredArrives
  <2>1. /\ last_seq \in Record /\ Unprocessed \in Seq(Record) /\ Contents \in Seq(Record)
        /\ Len(Contents) = 0
    BY AccountFacts, UnprocessedTypes, FlowConstants, ContentsIs
       DEF WrittenOnly, FlowInv, FlowTypeOK, ConsumerTypeOK, ContentsShape
  <2>2. Contents = <<>> /\ Unprocessed = <<>>
    BY <2>1 DEF Unprocessed
  <2>3. QED
    BY <2>1, <2>2, LastIs DEF AccountInv, NewestLast, LastOf
<1>2. QED
  BY <1>1, AccountInvariant, PTL

-----------------------------------------------------------------------------
(* What the priorities of app_config.h give.                               *)

AppPriorities == Prio["producer"] > Prio["ui"] /\ Prio["ui"] > Prio["consumer"]

LEMMA PrioNat == \A t \in Task : Prio[t] \in Nat
BY FlowAssumption

(* Whoever holds the mutex can go on: only the other task waits for it.    *)
LEMMA ConsumerHolds ==
  ASSUME FlowInv, AppPriorities, Waits("producer")
  PROVE  Ready("consumer") /\ EffectivePrio("consumer") = Prio["producer"]
<1>1. log_mutex = "consumer" /\ cpc \in {"look", "copy", "release", "unlock"}
  BY DEF FlowInv, FlowTypeOK, KernelTypeOK, LockHeld, Waits, AtLock, Task
<1>2. \A t \in Task : Waits(t) <=> t = "producer"
  BY <1>1 DEF Waits, AtLock, Task
<1>3. Ready("consumer")
  BY <1>1, <1>2 DEF Ready, Task
<1>4. {Prio[u] : u \in {w \in Task : Waits(w)}} = {Prio["producer"]}
  BY <1>2 DEF Task
<1>5. \A u \in Task : Waits(u) => Prio[u] <= Prio["producer"]
  BY <1>2, PrioNat DEF Task
<1>6. EffectivePrio("consumer") =
        CHOOSE p \in {Prio["producer"]} : \A u \in Task : Waits(u) => Prio[u] <= p
  <2>1. \E u \in Task : Waits(u) /\ Prio[u] > Prio["consumer"]
    BY <1>2, PrioNat DEF Task, AppPriorities
  <2>2. QED
    BY <1>1, <1>4, <2>1 DEF EffectivePrio
<1>7. QED
  BY <1>3, <1>5, <1>6

LEMMA UiKeptOut ==
  ASSUME FlowInv, AppPriorities, Waits("producer")
  PROVE  ~CanRun("ui")
<1>1. Ready("consumer") /\ EffectivePrio("consumer") = Prio["producer"]
  BY ConsumerHolds
<1>2. EffectivePrio("ui") = Prio["ui"]
  BY DEF EffectivePrio, FlowInv, LockHeld
<1>3. QED
  BY <1>1, <1>2, PrioNat DEF CanRun, Task, AppPriorities

(* Bounded priority inversion: the task between the two never runs while   *)
(* the producer waits for the consumer to give the mutex back.             *)
THEOREM InversionBounded == AppPriorities /\ Spec => NoInversion
<1> SUFFICES ASSUME AppPriorities PROVE Spec => NoInversion
  OBVIOUS
<1>1. FlowInv /\ [Next]_vars => [Waits("producer") => ~UiStep]_vars
  <2> SUFFICES ASSUME FlowInv, Next, Waits("producer"), UiStep PROVE FALSE
    OBVIOUS
  <2>1. upc = "send" /\ upc' = "scan"
    BY DEF UiStep, ui_send
  <2>2. CanRun("ui")
    BY <2>1
       DEF Next, TimerTick, UiScan, uiVars, ProducerStep, ProducerTimeout,
       NotifyTake, WriteLock, WriteTestEmpty, WritePush, WriteUnlock, RingDoorbell,
       producer_update_stats, NotifyTimeout, WriteLockTimeout,
       ConsumerStep, ConsumerTimeout,
       QueueReceive, QueueGlance, NoteQueueDepth, consumer_handle_msg, CountWrites,
       LookLock, Look, PrintReport, DrainPaused, DrainStart, ReadLock, ReadCopy, ReadRelease,
       ReadUnlock, consumer_process_record, DrainNext, QueuePollTimeout, LookLockTimeout,
       ReadLockTimeout
  <2>3. QED
    BY <2>2, UiKeptOut
<1>2. QED
  BY <1>1, FlowInvariant, PTL DEF Spec, NoInversion

(* The consumer's wait for the mutex is never long enough to run out: the  *)
(* producer, which holds it, keeps the consumer off the CPU until it has   *)
(* given it back.                                                          *)
LEMMA ConsumerKeptOut ==
  ASSUME FlowInv, AppPriorities, Waits("consumer")
  PROVE  ~CanRun("consumer")
<1>1. log_mutex = "producer" /\ ppc \in {"test", "push", "unlock"}
  BY DEF FlowInv, FlowTypeOK, KernelTypeOK, LockHeld, Waits, AtLock, Task
<1>2. \A t \in Task : Waits(t) <=> t = "consumer"
  BY <1>1 DEF Waits, AtLock, Task
<1>3. Ready("producer")
  BY <1>1, <1>2 DEF Ready, Task
<1>4. ~\E u \in Task : Waits(u) /\ Prio[u] > Prio["producer"]
  BY <1>2, PrioNat DEF Task, AppPriorities
<1>5. EffectivePrio("producer") = Prio["producer"]
  BY <1>4 DEF EffectivePrio
<1>6. EffectivePrio("consumer") = Prio["consumer"]
  BY <1>1 DEF EffectivePrio
<1>7. QED
  BY <1>3, <1>5, <1>6, PrioNat DEF CanRun, Task, AppPriorities

THEOREM NoReadTimesOut == AppPriorities /\ Spec => []ReadsNeverTimeOut
<1> SUFFICES ASSUME AppPriorities PROVE Spec => []ReadsNeverTimeOut
  OBVIOUS
<1>1. Init => ReadsNeverTimeOut
  BY DEF Init, ReadsNeverTimeOut
<1>2. FlowInv /\ ReadsNeverTimeOut /\ [Next]_vars => ReadsNeverTimeOut'
  <2> SUFFICES ASSUME FlowInv, ReadsNeverTimeOut, [Next]_vars PROVE ReadsNeverTimeOut'
    OBVIOUS
  <2>1. CASE UNCHANGED log_lock_timeouts
    BY <2>1 DEF ReadsNeverTimeOut
  <2>2. CASE CanRun("consumer") /\ ReadLockTimeout
    BY <2>2, ConsumerKeptOut DEF ReadLockTimeout, sensor_log_lock_fails
  <2>3. \/ UNCHANGED log_lock_timeouts
        \/ CanRun("consumer") /\ ReadLockTimeout
    BY DEF Next, vars, TimerTick, UiScan, UiStep, ui_send, consumerVars, ProducerStep,
       ProducerTimeout,
       NotifyTake, WriteLock, WriteTestEmpty, WritePush, WriteUnlock, RingDoorbell,
       producer_update_stats, NotifyTimeout, WriteLockTimeout,
       ConsumerStep, ConsumerTimeout,
       QueueReceive, QueueGlance, NoteQueueDepth, consumer_handle_msg, CountWrites,
       LookLock, Look, PrintReport, DrainPaused, DrainStart, ReadLock, ReadCopy, ReadRelease,
       ReadUnlock, consumer_process_record, DrainNext, QueuePollTimeout, LookLockTimeout
  <2>4. QED
    BY <2>1, <2>2, <2>3
<1>3. QED
  BY <1>1, <1>2, FlowInvariant, PTL DEF Spec

-----------------------------------------------------------------------------
(* The order of the samples and what is made of it, for all runs of fewer  *)
(* ticks than a counter can count, so that none of them wraps.             *)

FewTicks == MaxTicks < Wrap

(* Sequences of numbers that rise, with gaps no wider than the losses.     *)
LEMMA RisingTail ==
  ASSUME NEW s \in Seq(Uint32), s # <<>>, NEW before \in Int, NEW losses \in Int,
         Rising(s), GapsWithin(s, before, losses)
  PROVE  Rising(Tail(s)) /\ GapsWithin(Tail(s), before + 1, losses)
<1>1. /\ Len(Tail(s)) = Len(s) - 1 /\ Len(s) \in Nat
      /\ \A i \in 1 .. Len(Tail(s)) : Tail(s)[i] = s[i + 1] /\ i + 1 \in 1 .. Len(s)
  OBVIOUS
<1>2. \A i \in 1 .. Len(s) : s[i] \in Int
  <2>1. \A i \in 1 .. Len(s) : s[i] \in Uint32
    OBVIOUS
  <2>2. QED
    BY <2>1, Uint32Closed
<1>3. ASSUME NEW i \in 1 .. Len(Tail(s)), NEW j \in 1 .. Len(Tail(s)), i < j
      PROVE  Tail(s)[i] < Tail(s)[j]
  BY <1>1, <1>3 DEF Rising
<1>4. ASSUME NEW i \in 1 .. Len(Tail(s))
      PROVE  Tail(s)[i] - ((before + 1) + i - 1) \in 0 .. losses
  <2>1. Tail(s)[i] = s[i + 1] /\ i + 1 \in 1 .. Len(s) /\ i \in Int
    BY <1>1
  <2>2. s[i + 1] - (before + (i + 1) - 1) \in 0 .. losses
    BY <2>1 DEF GapsWithin
  <2>3. (before + 1) + i - 1 = before + (i + 1) - 1
    BY <2>1
  <2>4. QED
    BY <2>1, <2>2, <2>3
<1>5. QED
  BY <1>3, <1>4 DEF Rising, GapsWithin

(* The next number, when everything missing is a loss.                     *)
LEMMA RisingAppend ==
  ASSUME NEW s \in Seq(Uint32), NEW before \in Int, NEW losses \in Nat, NEW n \in Uint32,
         n = before + Len(s) + losses, Rising(s), GapsWithin(s, before, losses)
  PROVE  Rising(Append(s, n)) /\ GapsWithin(Append(s, n), before, losses)
<1>1. \A i \in 1 .. Len(s) : s[i] \in Int
  <2>1. \A i \in 1 .. Len(s) : s[i] \in Uint32
    OBVIOUS
  <2>2. QED
    BY <2>1, Uint32Closed
<1>2. n \in Int
  BY Uint32Closed
<1> DEFINE t == Append(s, n)
<1>3. /\ Len(t) = Len(s) + 1 /\ Len(s) \in Nat /\ t[Len(s) + 1] = n
      /\ \A i \in 1 .. Len(s) : t[i] = s[i]
  OBVIOUS
<1> HIDE DEF t
<1>4. ASSUME NEW i \in 1 .. Len(s) PROVE s[i] < n
  BY <1>3, <1>1 DEF GapsWithin
<1>5. ASSUME NEW i \in 1 .. Len(t), NEW j \in 1 .. Len(t), i < j
      PROVE  t[i] < t[j]
  <2>1. i \in 1 .. Len(s)
    BY <1>3, <1>5
  <2>2. CASE j \in 1 .. Len(s)
    BY <1>3, <1>5, <2>1, <2>2 DEF Rising
  <2>3. CASE j = Len(s) + 1
    BY <1>3, <1>4, <2>1, <2>3
  <2>4. QED
    BY <1>3, <2>2, <2>3
<1>6. ASSUME NEW i \in 1 .. Len(t) PROVE t[i] - (before + i - 1) \in 0 .. losses
  <2>1. CASE i \in 1 .. Len(s)
    BY <1>3, <2>1 DEF GapsWithin
  <2>2. CASE i = Len(s) + 1
    <3>1. n - (before + i - 1) = losses
      BY <1>3, <1>2, <2>2
    <3>2. QED
      BY <1>3, <2>2, <3>1
  <2>3. QED
    BY <1>3, <2>1, <2>2
<1>7. QED
  BY <1>5, <1>6 DEF Rising, GapsWithin, t

(* One number given up is one loss more.                                   *)
LEMMA RisingWithout ==
  ASSUME NEW s \in Seq(Uint32), NEW t \in Seq(Uint32), NEW k \in Nat \ {0},
         NEW before \in Int, NEW losses \in Int,
         Len(t) = Len(s) - 1,
         \A i \in 1 .. Len(t) : t[i] = IF i < k THEN s[i] ELSE s[i + 1],
         Rising(s), GapsWithin(s, before, losses)
  PROVE  Rising(t) /\ GapsWithin(t, before, losses + 1)
<1>1. /\ \A i \in 1 .. Len(s) : s[i] \in Int
      /\ Len(s) \in Nat /\ Len(t) \in Nat
  <2>1. Len(s) \in Nat /\ Len(t) \in Nat /\ \A i \in 1 .. Len(s) : s[i] \in Uint32
    OBVIOUS
  <2>2. QED
    BY <2>1, Uint32Closed
<1>2. ASSUME NEW i \in 1 .. Len(t), NEW j \in 1 .. Len(t), i < j
      PROVE  t[i] < t[j]
  <2> DEFINE at(x) == IF x < k THEN x ELSE x + 1
  <2>1. at(i) \in 1 .. Len(s) /\ at(j) \in 1 .. Len(s) /\ at(i) < at(j)
    BY <1>1, <1>2
  <2>2. t[i] = s[at(i)] /\ t[j] = s[at(j)]
    OBVIOUS
  <2> HIDE DEF at
  <2>3. QED
    BY <2>1, <2>2 DEF Rising
<1>3. ASSUME NEW i \in 1 .. Len(t) PROVE t[i] - (before + i - 1) \in 0 .. losses + 1
  <2>1. CASE i < k
    <3>1. t[i] = s[i] /\ i \in 1 .. Len(s)
      BY <1>1, <2>1
    <3>2. s[i] - (before + i - 1) \in 0 .. losses
      BY <3>1 DEF GapsWithin
    <3>3. s[i] \in Int /\ i \in Int
      BY <1>1, <3>1
    <3>4. s[i] - (before + i - 1) \in 0 .. losses + 1
      BY <3>2
    <3>5. QED
      BY <3>1, <3>4
  <2>2. CASE ~(i < k)
    <3>1. t[i] = s[i + 1] /\ i + 1 \in 1 .. Len(s) /\ i \in Int
      BY <1>1, <2>2
    <3>2. s[i + 1] - (before + (i + 1) - 1) \in 0 .. losses
      BY <3>1 DEF GapsWithin
    <3> DEFINE v == s[i + 1]
    <3>3. v \in Int
      BY <1>1, <3>1
    <3>4. v - (before + (i + 1) - 1) \in 0 .. losses
      BY <3>2
    <3> HIDE DEF v
    <3>5. v - (before + i - 1) \in 0 .. losses + 1
      BY <3>1, <3>3, <3>4
    <3>6. QED
      BY <3>1, <3>5 DEF v
  <2>3. QED
    BY <2>1, <2>2
<1>4. QED
  BY <1>2, <1>3 DEF Rising, GapsWithin

(* Where the parts of what is under way lie.                               *)
LEMMA PartsLie ==
  ASSUME NEW S, NEW a \in S, NEW b \in Seq(S), NEW c \in Seq(S)
  PROVE  LET all == <<a>> \o b \o c IN
         /\ all \in Seq(S) /\ Len(all) = 1 + Len(b) + Len(c)
         /\ Len(b) \in Nat /\ Len(c) \in Nat
         /\ \A i \in 1 .. Len(all) :
              all[i] = IF i = 1 THEN a
                       ELSE IF i <= 1 + Len(b) THEN b[i - 1] ELSE c[i - (1 + Len(b))]
OBVIOUS

(* A sequence cut anywhere is the whole when joined again.                 *)
LEMMA CutAnywhere ==
  ASSUME NEW S, NEW c \in Seq(S), NEW k \in 0 .. Len(c)
  PROVE  /\ SubSeq(c, 1, k) \in Seq(S) /\ SubSeq(c, k + 1, Len(c)) \in Seq(S)
         /\ SubSeq(c, 1, k) \o SubSeq(c, k + 1, Len(c)) = c
<1> DEFINE p == SubSeq(c, 1, k)
           q == SubSeq(c, k + 1, Len(c))
<1>1. /\ p \in Seq(S) /\ Len(p) = k /\ \A i \in 1 .. k : p[i] = c[i]
  OBVIOUS
<1>2. /\ q \in Seq(S) /\ Len(q) = Len(c) - k /\ Len(c) \in Nat
      /\ \A i \in 1 .. Len(c) - k : q[i] = c[i + k]
  OBVIOUS
<1> HIDE DEF p, q
<1>3. p \o q = c
  <2> DEFINE pq == p \o q
  <2>1. /\ pq \in Seq(S) /\ Len(pq) = Len(c)
        /\ \A i \in 1 .. Len(pq) : pq[i] = IF i <= k THEN p[i] ELSE q[i - k]
    BY <1>1, <1>2
  <2>2. ASSUME NEW i \in 1 .. Len(c) PROVE pq[i] = c[i]
    <3>1. CASE i <= k
      BY <1>1, <2>1, <3>1
    <3>2. CASE ~(i <= k)
      <4>1. i - k \in 1 .. Len(c) - k /\ (i - k) + k = i
        BY <1>2, <3>2
      <4>2. QED
        BY <1>2, <2>1, <3>2, <4>1
    <3>3. QED
      BY <3>1, <3>2
  <2>3. /\ pq = [i \in 1 .. Len(pq) |-> pq[i]]
        /\ c = [i \in 1 .. Len(c) |-> c[i]]
    <3> HIDE DEF pq
    <3>1. QED
      BY <2>1
  <2> HIDE DEF pq
  <2>4. [i \in 1 .. Len(pq) |-> pq[i]] = [i \in 1 .. Len(c) |-> c[i]]
    BY <2>1, <2>2
  <2>5. QED
    BY <2>3, <2>4, Zenon DEF pq
<1>4. QED
  BY <1>1, <1>2, <1>3, Zenon DEF p, q

(* Parts joined at another place are the same whole.                       *)
LEMMA JoinedAnew ==
  ASSUME NEW S, NEW a \in S, NEW c \in Seq(S), NEW k \in 0 .. Len(c)
  PROVE  <<a>> \o SubSeq(c, 1, k) \o SubSeq(c, k + 1, Len(c)) = <<a>> \o <<>> \o c
<1> DEFINE p == SubSeq(c, 1, k)
           q == SubSeq(c, k + 1, Len(c))
<1>1. p \in Seq(S) /\ q \in Seq(S) /\ p \o q = c
  BY CutAnywhere
<1> HIDE DEF p, q
<1>2. <<a>> \in Seq(S)
  OBVIOUS
<1>3. <<a>> \o p \o q = <<a>> \o (p \o q)
  <2>1. \A x, y, z \in Seq(S) : x \o y \o z = x \o (y \o z)
    OBVIOUS
  <2>2. QED
    BY <1>1, <1>2, <2>1, Zenon
<1>4. <<a>> \o <<>> = <<a>>
  OBVIOUS
<1>5. QED
  BY <1>1, <1>3, <1>4, Zenon DEF p, q

(* The last number processed, the batch's and the log's, in a row.         *)
Joined(a, b, c) == <<a>> \o b \o c

LEMMA HeadMovesOn ==
  ASSUME NEW a \in Uint32, NEW b \in Seq(Uint32), NEW c \in Seq(Uint32), b # <<>>
  PROVE  Joined(Head(b), Tail(b), c) = Tail(Joined(a, b, c))
<1>1. b = <<Head(b)>> \o Tail(b)
  OBVIOUS
<1>2. b \o c \in Seq(Uint32) /\ <<a>> \o b \o c = <<a>> \o (b \o c)
  OBVIOUS
<1>3. \A s \in Seq(Uint32) : Tail(<<a>> \o s) = s
  OBVIOUS
<1>4. Tail(<<a>> \o b \o c) = b \o c
  BY <1>2, <1>3, Zenon
<1>5. QED
  BY <1>1, <1>4, Zenon DEF Joined

LEMMA OutstandingJoined == Outstanding = Joined(last_seq, Unprocessed, Contents)
BY Zenon DEF Outstanding, Joined

LEMMA AppendedLast ==
  ASSUME NEW a \in Uint32, NEW b \in Seq(Uint32), NEW c \in Seq(Uint32), NEW n \in Uint32
  PROVE  Joined(a, b, Append(c, n)) = Append(Joined(a, b, c), n)
BY DEF Joined

LEMMA TailLeavesOut ==
  ASSUME NEW a \in Uint32, NEW b \in Seq(Uint32), NEW c \in Seq(Uint32), c # <<>>
  PROVE  LET all == Joined(a, b, c)
             rest == Joined(a, b, Tail(c))
         IN  /\ rest \in Seq(Uint32) /\ Len(rest) = Len(all) - 1
             /\ \A i \in 1 .. Len(rest) :
                  rest[i] = IF i < 2 + Len(b) THEN all[i] ELSE all[i + 1]
<1> DEFINE all == Joined(a, b, c)
           rest == Joined(a, b, Tail(c))
<1>1. /\ Tail(c) \in Seq(Uint32) /\ Len(Tail(c)) = Len(c) - 1 /\ Len(b) \in Nat /\ Len(c) \in Nat
      /\ \A i \in 1 .. Len(Tail(c)) : Tail(c)[i] = c[i + 1]
  OBVIOUS
<1>2. /\ all \in Seq(Uint32) /\ Len(all) = 1 + Len(b) + Len(c)
      /\ \A i \in 1 .. Len(all) :
           all[i] = IF i = 1 THEN a
                    ELSE IF i <= 1 + Len(b) THEN b[i - 1] ELSE c[i - (1 + Len(b))]
  BY PartsLie DEF Joined
<1>3. /\ rest \in Seq(Uint32) /\ Len(rest) = 1 + Len(b) + Len(Tail(c))
      /\ \A i \in 1 .. Len(rest) :
           rest[i] = IF i = 1 THEN a
                     ELSE IF i <= 1 + Len(b) THEN b[i - 1] ELSE Tail(c)[i - (1 + Len(b))]
  BY <1>1, PartsLie DEF Joined
<1> HIDE DEF all, rest
<1>4. ASSUME NEW i \in 1 .. Len(rest)
      PROVE  rest[i] = IF i < 2 + Len(b) THEN all[i] ELSE all[i + 1]
  <2>1. i \in 1 .. Len(all) /\ i + 1 \in 1 .. Len(all)
    BY <1>1, <1>2, <1>3
  <2>2. CASE i < 2 + Len(b)
    <3>1. i <= 1 + Len(b)
      BY <1>1, <2>1, <2>2
    <3>2. rest[i] = IF i = 1 THEN a ELSE b[i - 1]
      BY <1>3, <3>1
    <3>3. all[i] = IF i = 1 THEN a ELSE b[i - 1]
      BY <1>2, <2>1, <3>1
    <3>4. QED
      BY <2>2, <3>2, <3>3
  <2>3. CASE ~(i < 2 + Len(b))
    <3>1. i - (1 + Len(b)) \in 1 .. Len(Tail(c))
      BY <1>1, <1>3, <2>3
    <3>2. rest[i] = c[(i - (1 + Len(b))) + 1]
      BY <1>1, <1>3, <2>3, <3>1
    <3>3. all[i + 1] = c[(i + 1) - (1 + Len(b))]
      BY <1>1, <1>2, <2>1, <2>3
    <3>4. (i - (1 + Len(b))) + 1 = (i + 1) - (1 + Len(b))
      BY <1>1
    <3>5. QED
      BY <2>3, <3>2, <3>3, <3>4
  <2>4. QED
    BY <2>2, <2>3
<1>5. QED
  BY <1>1, <1>2, <1>3, <1>4 DEF all, rest

-----------------------------------------------------------------------------
(* What the steps do to the numbers and to the books.                      *)

(* What the steps do that change a number, a record or a count of either.  *)
LEMMA OrderStep ==
  ASSUME AccountInv, [Step]_vars
  PROVE  \/ UNCHANGED <<rbVars, seq, log_write_drops, Unwritten, received, last_seq, lost,
                        Unprocessed>>
         \/ NotifyTake \/ WritePush \/ producer_update_stats
         \/ ReadRelease \/ consumer_process_record
BY ProducerBooks, ConsumerBooks, Zenon

LEMMA OrderTypes ==
  ASSUME AccountInv
  PROVE  /\ RBInv /\ WrittenOnly
         /\ seq \in Uint32 /\ last_seq \in Uint32 /\ Wrap \in Nat \ {0}
         /\ Unprocessed \in Seq(Uint32) /\ Contents \in Seq(Uint32) /\ batch \in Seq(Uint32)
         /\ Taken = Len(Unprocessed) /\ ring_buffer_count = Len(Contents)
         /\ seq \in Nat /\ overwritten \in Nat /\ log_write_drops \in Nat /\ received \in Nat
         /\ samples \in Nat /\ lost \in Nat /\ notified \in Nat /\ ticks \in Nat
         /\ Taken \in Nat /\ ring_buffer_count \in Nat /\ shown \in Nat
         /\ Unwritten \in {0, 1}
         /\ ticks <= MaxTicks /\ MaxTicks \in Nat
<1>1. /\ RBInv /\ WrittenOnly /\ Contents \in Seq(Uint32) /\ Wrap \in Nat \ {0}
      /\ ring_buffer_count = Len(Contents) /\ MaxTicks \in Nat
  BY AccountFacts, FlowConstants, ContentsIs DEF WrittenOnly, ContentsShape
<1>2. Unprocessed \in Seq(Uint32) /\ batch \in Seq(Uint32) /\ Taken = Len(Unprocessed)
  BY UnprocessedTypes, FlowConstants DEF Taken
<1>3. /\ {seq, overwritten, log_write_drops, received, samples, lost, notified, last_seq, shown}
           \subseteq Uint32
      /\ ticks \in 0 .. MaxTicks
  BY <1>1 DEF AccountInv, FlowInv, FlowTypeOK, RBInv, RBTypeOK, KernelTypeOK, ProducerTypeOK,
              ConsumerTypeOK
<1>4. \A n \in Uint32 : n \in Nat
  BY <1>1 DEF Uint32
<1>5. Unwritten \in {0, 1}
  BY DEF Unwritten
<1>6. QED
  BY <1>1, <1>2, <1>3, <1>4, <1>5

UnderWayTypes ==
  /\ Unprocessed \in Seq(Uint32) /\ Contents \in Seq(Uint32)
  /\ Taken = Len(Unprocessed) /\ ring_buffer_count = Len(Contents)
  /\ overwritten \in Nat /\ log_write_drops \in Nat /\ received \in Nat
  /\ ring_buffer_count \in Nat /\ samples \in Nat

LEMMA OrderTypesNext == AccountInv' => UnderWayTypes'
<1>1. AccountInv => UnderWayTypes
  BY OrderTypes DEF UnderWayTypes
<1>2. QED
  BY <1>1, PTL

LEMMA NoWrap ==
  ASSUME NEW n \in Nat, n < Wrap
  PROVE  n % Wrap = n
BY ConstantsOK, ModSmall

(* No number is handed out for which there was no tick.                    *)
LEMMA NothingWrappedNext ==
  ASSUME OrderInv, FewTicks, [Step]_vars
  PROVE  NothingWrapped'
<1>1. /\ AccountInv /\ seq + notified <= ticks
      /\ {seq, notified, ticks} \subseteq Nat /\ ticks <= MaxTicks /\ MaxTicks \in Nat
      /\ Wrap \in Nat \ {0}
  BY OrderTypes DEF OrderInv, NothingWrapped
<1>2. \/ UNCHANGED <<seq, notified, ticks>>
      \/ TimerTick \/ NotifyTake
  BY DEF vars, kernelVars, producerVars, producerLocals,
       Step, UiScan, UiStep, ui_send, ProducerStep, ProducerTimeout,
       WriteLock, WriteTestEmpty, WritePush, WriteUnlock, RingDoorbell, NotifyTimeout,
       WriteLockTimeout, producer_update_stats, ConsumerStep, ConsumerTimeout,
       QueueReceive, QueueGlance, NoteQueueDepth, consumer_handle_msg, CountWrites,
       LookLock, Look, PrintReport, DrainPaused, DrainStart, ReadLock, ReadCopy, ReadRelease,
       ReadUnlock, consumer_process_record, DrainNext, QueuePollTimeout, LookLockTimeout,
       ReadLockTimeout
<1>3. CASE UNCHANGED <<seq, notified, ticks>>
  BY <1>1, <1>3 DEF NothingWrapped
<1>4. CASE TimerTick
  <2>1. ticks < MaxTicks /\ ticks' = ticks + 1 /\ seq' = seq
        /\ notified' = (notified + 1) % Wrap
    BY <1>4 DEF TimerTick, producerVars, producerLocals
  <2>2. notified + 1 < Wrap
    BY <1>1, <2>1 DEF FewTicks
  <2>3. notified' = notified + 1
    BY <1>1, <2>1, <2>2, NoWrap
  <2>4. QED
    BY <1>1, <2>1, <2>3 DEF NothingWrapped
<1>5. CASE NotifyTake
  <2>1. notified > 0 /\ notified' = 0 /\ seq' = (seq + 1) % Wrap /\ ticks' = ticks
    BY <1>5 DEF NotifyTake
  <2>2. seq' = seq + 1
    BY <1>1, <2>1, NoWrap DEF FewTicks
  <2>3. QED
    BY <1>1, <2>1, <2>2 DEF NothingWrapped
<1>6. QED
  BY <1>2, <1>3, <1>4, <1>5

(* What a push does to the ring and to the books.                          *)
LEMMA PushEffects ==
  ASSUME AccountInv, WritePush
  PROVE  /\ UNCHANGED <<seq, log_write_drops, received, last_seq, lost, Unprocessed, Taken>>
         /\ Unwritten = 1 /\ Unwritten' = 0
         /\ \/ /\ Contents # <<>> /\ Contents' = Append(Tail(Contents), seq)
               /\ ring_buffer_count' = ring_buffer_count
               /\ overwritten' = (overwritten + 1) % Wrap
            \/ /\ Contents' = Append(Contents, seq)
               /\ ring_buffer_count' = ring_buffer_count + 1
               /\ overwritten' = overwritten
<1>1. /\ UNCHANGED <<seq, log_write_drops, received, last_seq, lost, Unprocessed, Taken>>
      /\ Unwritten = 1 /\ Unwritten' = 0
  BY DEF WritePush, producerLocals, producerStats, consumerVars, drainState, batchVars,
         Unprocessed, Taken, Unwritten
<1>2. ring_buffer_push(seq) /\ seq \in Record /\ RBInv
  BY OrderTypes, FlowConstants DEF WritePush
<1>3. CASE dropped_oldest
  <2>1. ring_buffer_count = Capacity /\ ring_buffer_count' = Capacity
    BY <1>2, <1>3, PushCount DEF dropped_oldest
  <2>2. overwritten' = (overwritten + 1) % Wrap
    BY <1>2, <1>3 DEF ring_buffer_push, GiveUpOldest, KeepOldest
  <2>3. Contents # <<>>
    <3>1. Len(Contents) > 0
      BY <2>1, OrderTypes, ConstantsOK
    <3>2. QED
      BY <3>1
  <2>4. QED
    BY <1>1, <1>2, <1>3, <2>1, <2>2, <2>3, PushShifts
<1>4. CASE ~dropped_oldest
  <2>1. ring_buffer_count' = ring_buffer_count + 1
    BY <1>2, <1>4, PushCount
  <2>2. overwritten' = overwritten
    BY <1>2, <1>4 DEF ring_buffer_push, GiveUpOldest, KeepOldest
  <2>3. QED
    BY <1>1, <1>2, <1>4, <2>1, <2>2, PushAppends
<1>5. QED
  BY <1>3, <1>4

LEMMA ReleaseEffects ==
  ASSUME AccountInv, ReadRelease
  PROVE  /\ UNCHANGED <<seq, Unwritten, overwritten, log_write_drops, received, last_seq, lost>>
         /\ batch_count \in 0 .. Len(Contents)
         /\ Unprocessed = <<>> /\ Unprocessed' = SubSeq(Contents, 1, batch_count)
         /\ Contents' = SubSeq(Contents, batch_count + 1, Len(Contents))
         /\ Taken = 0 /\ Taken' = batch_count
         /\ ring_buffer_count' = ring_buffer_count - batch_count
<1>1. UNCHANGED <<seq, Unwritten, log_write_drops, lost>>
  BY DEF ReadRelease, producerVars, producerLocals, producerStats, drainState, Unwritten
<1>2. /\ batch_count \in 0 .. ring_buffer_count /\ ReleaseOldest(batch_count) /\ RBInv
      /\ ring_buffer_count = Len(Contents)
  BY ReleasedIsTaken, OrderTypes
<1>3. overwritten' = overwritten
  BY <1>2 DEF ReleaseOldest
<1>4. Contents' = SubSeq(Contents, batch_count + 1, Len(Contents))
  BY <1>2, ReleaseDropsPrefix
<1>5. ring_buffer_count' = ring_buffer_count - batch_count
  BY <1>2, ReleaseCount
<1>6. QED
  BY <1>1, <1>2, <1>3, <1>4, <1>5, ReleasedIsTaken

LEMMA ProcessEffects ==
  ASSUME AccountInv, consumer_process_record
  PROVE  /\ UNCHANGED <<seq, Unwritten, overwritten, log_write_drops, ring_buffer_count, Contents>>
         /\ Unprocessed # <<>> /\ Unprocessed' = Tail(Unprocessed)
         /\ last_seq' = Head(Unprocessed)
         /\ received' = (received + 1) % Wrap /\ lost' = lost_at(Head(Unprocessed))
<1>1. UNCHANGED <<seq, Unwritten, log_write_drops, overwritten>> /\ UNCHANGED rbVars
  BY DEF consumer_process_record, rbVars, producerVars, producerLocals, producerStats, Unwritten
<1>2. /\ cpc = "process" /\ cpc' = cpc /\ batch # <<>> /\ batch' = Tail(batch)
      /\ last_seq' = Head(batch) /\ received' = (received + 1) % Wrap
      /\ lost' = lost_at(Head(batch))
  BY DEF consumer_process_record
<1>3. Unprocessed = batch /\ Unprocessed' = batch'
  BY <1>2 DEF Unprocessed
<1>4. QED
  BY <1>1, <1>2, <1>3, RingUntouched

(* Tail is one shorter.                                                    *)
LEMMA OneLess ==
  ASSUME NEW S, NEW s \in Seq(S), s # <<>>
  PROVE  /\ Head(s) \in S /\ Tail(s) \in Seq(S) /\ Len(s) \in Nat /\ Len(s) > 0
         /\ Len(Tail(s)) = Len(s) - 1
OBVIOUS

(* No count wraps, so each step changes the books by what it does.         *)
LEMMA BooksNext ==
  ASSUME OrderInv, FewTicks, [Step]_vars, AccountInv', NothingWrapped'
  PROVE  /\ ExactBooks'
         /\ overwritten' + log_write_drops' >= overwritten + log_write_drops
         /\ consumer_process_record => received' = received + 1
         /\ received' + overwritten' + ring_buffer_count' + Taken'
              >= received + overwritten + ring_buffer_count + Taken
         /\ producer_update_stats =>
              log_write_drops' \in {log_write_drops, log_write_drops + 1}
<1>1. /\ AccountInv
      /\ seq = Unwritten + ring_buffer_count + overwritten + log_write_drops + Taken + received
      /\ {seq, Unwritten, ring_buffer_count, overwritten, log_write_drops, Taken, received,
          notified, ticks} \subseteq Nat
      /\ Wrap \in Nat \ {0} /\ seq + notified <= ticks /\ ticks < Wrap
      /\ Unwritten \in {0, 1}
  <2>1. AccountInv /\ ExactBooks /\ NothingWrapped
    BY DEF OrderInv
  <2>2. /\ {seq, ring_buffer_count, overwritten, log_write_drops, Taken, received,
             notified, ticks} \subseteq Nat
        /\ Unwritten \in {0, 1} /\ Wrap \in Nat \ {0}
        /\ ticks <= MaxTicks /\ MaxTicks \in Nat
    BY <2>1, OrderTypes
  <2>3. ticks < Wrap /\ Unwritten \in Nat
    BY <2>2 DEF FewTicks
  <2>4. QED
    BY <2>1, <2>2, <2>3 DEF ExactBooks, NothingWrapped
<1>2. \A n \in Nat : n <= seq => n % Wrap = n
  BY <1>1, NoWrap
<1>3. CASE UNCHANGED <<rbVars, seq, log_write_drops, Unwritten, received, last_seq, lost,
                       Unprocessed>>
  <2>1. UNCHANGED <<ring_buffer_count, overwritten, Taken>> /\ ~consumer_process_record
    <3>1. UNCHANGED rbVars
      BY <1>3
    <3>2. UNCHANGED <<ring_buffer_count, overwritten, Taken>>
      BY <1>3, <3>1, RingUntouched DEF rbVars, Taken
    <3>3. ASSUME consumer_process_record PROVE FALSE
      <4>1. Unprocessed # <<>> /\ Unprocessed' = Tail(Unprocessed)
        BY <1>1, <3>3, ProcessEffects
      <4>2. Len(Unprocessed') = Len(Unprocessed) - 1 /\ Len(Unprocessed) \in Nat
        BY <1>1, <4>1, OrderTypes, OneLess
      <4>3. QED
        BY <1>3, <4>2
    <3>4. QED
      BY <3>2, <3>3
  <2>2. QED
    BY <1>1, <1>3, <2>1 DEF ExactBooks
<1>4. CASE NotifyTake
  <2>1. /\ UNCHANGED <<log_write_drops, received, ring_buffer_count, overwritten, Taken>>
        /\ ~consumer_process_record
        /\ Unwritten = 0 /\ Unwritten' = 1 /\ seq' = (seq + 1) % Wrap /\ notified > 0
    <3>1. UNCHANGED rbVars
      BY <1>4 DEF NotifyTake
    <3>2. UNCHANGED <<ring_buffer_count, overwritten>>
      BY <3>1, RingUntouched DEF rbVars
    <3>3. ~consumer_process_record
      BY <1>4 DEF NotifyTake, consumer_process_record, producerVars
    <3>4. QED
      BY <1>4, <3>2, <3>3 DEF NotifyTake, producerStats, consumerVars, drainState, batchVars,
                              Taken, Unprocessed, Unwritten
  <2>2. seq' = seq + 1
    BY <1>1, <2>1, NoWrap
  <2>3. QED
    BY <1>1, <2>1, <2>2 DEF ExactBooks
<1>5. CASE WritePush
  <2>1. ~consumer_process_record
    BY <1>5 DEF WritePush, consumer_process_record, producerVars
  <2>2. /\ UNCHANGED <<seq, log_write_drops, received, Taken>>
        /\ Unwritten = 1 /\ Unwritten' = 0
        /\ \/ /\ ring_buffer_count' = ring_buffer_count
              /\ overwritten' = (overwritten + 1) % Wrap
           \/ /\ ring_buffer_count' = ring_buffer_count + 1
              /\ overwritten' = overwritten
    BY <1>1, <1>5, PushEffects
  <2>3. (overwritten + 1) % Wrap = overwritten + 1
    BY <1>1, <1>2, <2>2
  <2>4. QED
    BY <1>1, <2>1, <2>2, <2>3 DEF ExactBooks
<1>6. CASE producer_update_stats
  <2>1. /\ UNCHANGED <<seq, received, ring_buffer_count, overwritten, Taken>>
        /\ ~consumer_process_record
        /\ log_write_drops' = (log_write_drops + drop) % Wrap
        /\ Unwritten = drop /\ Unwritten' = 0
    <3>1. UNCHANGED rbVars
      BY <1>6 DEF producer_update_stats
    <3>2. UNCHANGED <<ring_buffer_count, overwritten>>
      BY <3>1, RingUntouched DEF rbVars
    <3>3. ~consumer_process_record
      BY <1>6 DEF producer_update_stats, consumer_process_record, producerVars
    <3>4. QED
      BY <1>6, <3>2, <3>3 DEF producer_update_stats, producerLocals, consumerVars, drainState,
                              batchVars, Taken, Unprocessed, Unwritten, drop
  <2>2. (log_write_drops + drop) % Wrap = log_write_drops + drop
    BY <1>1, <1>2, <2>1
  <2>3. log_write_drops' \in {log_write_drops, log_write_drops + 1}
    BY <1>1, <2>1, <2>2 DEF drop
  <2>4. QED
    BY <1>1, <2>1, <2>2, <2>3 DEF ExactBooks
<1>7. CASE ReadRelease
  <2>1. ~consumer_process_record
    BY <1>7 DEF ReadRelease, consumer_process_record
  <2>2. /\ UNCHANGED <<seq, Unwritten, overwritten, log_write_drops, received>>
        /\ Taken = 0 /\ Taken' = batch_count
        /\ ring_buffer_count' = ring_buffer_count - batch_count
        /\ batch_count \in Int
    BY <1>1, <1>7, ReleaseEffects
  <2>3. QED
    BY <1>1, <2>1, <2>2 DEF ExactBooks
<1>8. CASE consumer_process_record
  <2>1. /\ UNCHANGED <<seq, Unwritten, overwritten, log_write_drops, ring_buffer_count>>
        /\ received' = (received + 1) % Wrap
        /\ Unprocessed # <<>> /\ Unprocessed' = Tail(Unprocessed)
    BY <1>1, <1>8, ProcessEffects
  <2>2. Taken > 0 /\ Taken' = Taken - 1
    <3>1. Unprocessed \in Seq(Uint32) /\ Taken = Len(Unprocessed)
      BY <1>1, OrderTypes
    <3>2. Taken' = Len(Unprocessed')
      BY DEF Taken
    <3>3. QED
      BY <2>1, <3>1, <3>2, OneLess
  <2>3. received' = received + 1
    <3>1. received + 1 \in Nat /\ received + 1 <= seq
      BY <1>1, <2>2
    <3>2. QED
      BY <1>2, <2>1, <3>1
  <2>4. UNCHANGED <<seq, Unwritten, overwritten, log_write_drops, ring_buffer_count>>
    BY <2>1
  <2>5. ExactBooks'
    <3>1. /\ Unwritten \in Nat /\ ring_buffer_count \in Nat /\ overwritten \in Nat
          /\ log_write_drops \in Nat /\ Taken \in Nat /\ received \in Nat
          /\ seq = Unwritten + ring_buffer_count + overwritten + log_write_drops + Taken + received
      BY <1>1
    <3>2. Taken' = Taken - 1 /\ received' = received + 1
      BY <2>2, <2>3
    <3>3. seq = Unwritten + ring_buffer_count + overwritten + log_write_drops
                  + Taken' + received'
      BY <3>1, <3>2
    <3>4. QED
      BY <2>4, <3>3 DEF ExactBooks
  <2>6. received' + overwritten' + ring_buffer_count' + Taken'
          >= received + overwritten + ring_buffer_count + Taken
    <3>1. /\ ring_buffer_count \in Nat /\ overwritten \in Nat
          /\ Taken \in Nat /\ received \in Nat
      BY <1>1
    <3>2. Taken' = Taken - 1 /\ received' = received + 1
      BY <2>2, <2>3
    <3>3. UNCHANGED <<overwritten, ring_buffer_count>>
      BY <2>4
    <3>4. QED
      BY <3>1, <3>2, <3>3
  <2>7. ~producer_update_stats
    BY <1>8 DEF consumer_process_record, producer_update_stats, producerVars
  <2>8. QED
    BY <1>1, <2>3, <2>4, <2>5, <2>6, <2>7
<1>9. QED
  BY <1>1, <1>3, <1>4, <1>5, <1>6, <1>7, <1>8, OrderStep

LEMMA MoreLosses ==
  ASSUME NEW s \in Seq(Uint32), NEW before, NEW losses \in Int, NEW more \in Int, losses <= more,
         GapsWithin(s, before, losses)
  PROVE  GapsWithin(s, before, more)
BY DEF GapsWithin

(* What is under way keeps rising, and its gaps are losses.                *)
LEMMA NumbersNext ==
  ASSUME OrderInv, FewTicks, [Step]_vars, AccountInv', NothingWrapped'
  PROVE  /\ Rising(Outstanding')
         /\ GapsAreLosses'
<1> DEFINE losses == overwritten + log_write_drops
           lossesNext == overwritten' + log_write_drops'
<1> SUFFICES Rising(Outstanding') /\ GapsWithin(Outstanding', received', lossesNext)
  BY DEF GapsAreLosses
<1>1. /\ AccountInv /\ Rising(Outstanding) /\ GapsWithin(Outstanding, received, losses)
      /\ ExactBooks
  BY DEF OrderInv, GapsAreLosses
<1>2. /\ last_seq \in Uint32 /\ Unprocessed \in Seq(Uint32) /\ Contents \in Seq(Uint32)
      /\ seq \in Uint32
      /\ Taken = Len(Unprocessed) /\ ring_buffer_count = Len(Contents)
      /\ losses \in Nat /\ received \in Nat /\ seq \in Nat
      /\ Taken \in Nat /\ ring_buffer_count \in Nat
      /\ overwritten \in Nat /\ log_write_drops \in Nat
  <2>1. AccountInv
    BY <1>1
  <2>2. overwritten \in Nat /\ log_write_drops \in Nat => losses \in Nat
    OBVIOUS
  <2> HIDE DEF losses
  <2>3. QED
    BY <2>1, <2>2, OrderTypes, Zenon
<1>3. /\ losses <= lossesNext
      /\ consumer_process_record => received' = received + 1
  BY <1>2, BooksNext
<1>4. /\ Outstanding \in Seq(Uint32)
      /\ Len(Outstanding) = 1 + Taken + ring_buffer_count
  BY <1>2, PartsLie DEF Outstanding
<1>5. ASSUME UNCHANGED <<received, Outstanding, overwritten, log_write_drops>>
      PROVE  /\ Rising(Outstanding')
             /\ GapsWithin(Outstanding', received', lossesNext)
  BY <1>1, <1>5
<1>6. ASSUME UNCHANGED <<received, Outstanding>>, lossesNext \in Int
      PROVE  /\ Rising(Outstanding')
             /\ GapsWithin(Outstanding', received', lossesNext)
  BY <1>1, <1>2, <1>3, <1>4, <1>6, MoreLosses
<1>7. CASE UNCHANGED <<rbVars, seq, log_write_drops, Unwritten, received, last_seq, lost,
                       Unprocessed>>
  <2>1. UNCHANGED <<Contents, overwritten>>
    <3>1. UNCHANGED rbVars
      BY <1>7
    <3>2. QED
      BY <3>1, RingUntouched DEF rbVars
  <2>2. QED
    BY <1>5, <1>7, <2>1 DEF Outstanding
<1>8. CASE NotifyTake
  <2>1. UNCHANGED rbVars /\ UNCHANGED <<log_write_drops, received, last_seq, Unprocessed>>
    BY <1>8 DEF NotifyTake, producerStats, consumerVars, drainState, batchVars, Unprocessed
  <2>2. UNCHANGED <<Contents, overwritten>>
    BY <2>1, RingUntouched DEF rbVars
  <2>3. QED
    BY <1>5, <2>1, <2>2 DEF Outstanding
<1>9. CASE producer_update_stats
  <2>1. UNCHANGED rbVars /\ UNCHANGED <<received, last_seq, Unprocessed>>
    BY <1>9 DEF producer_update_stats, consumerVars, drainState, batchVars, Unprocessed
  <2>2. UNCHANGED <<Contents, overwritten>>
    BY <2>1, RingUntouched DEF rbVars
  <2>3. log_write_drops' \in Int
    BY <1>9, Uint32Closed, ConstantsOK, <1>2, ModRange DEF producer_update_stats, drop
  <2>4. QED
    BY <1>2, <1>6, <2>1, <2>2, <2>3 DEF Outstanding
<1>10. CASE WritePush
  <2>1. /\ UNCHANGED <<seq, log_write_drops, received, last_seq, lost, Unprocessed>>
        /\ Unwritten = 1
        /\ \/ /\ Contents # <<>> /\ Contents' = Append(Tail(Contents), seq)
              /\ ring_buffer_count' = ring_buffer_count
              /\ overwritten' = (overwritten + 1) % Wrap
           \/ /\ Contents' = Append(Contents, seq)
              /\ ring_buffer_count' = ring_buffer_count + 1
              /\ overwritten' = overwritten
    BY <1>1, <1>10, PushEffects
  <2>2. seq = 1 + ring_buffer_count + losses + Taken + received
    BY <1>1, <1>2, <2>1 DEF ExactBooks
  <2>3. CASE /\ Contents # <<>> /\ Contents' = Append(Tail(Contents), seq)
             /\ ring_buffer_count' = ring_buffer_count
             /\ overwritten' = (overwritten + 1) % Wrap
    <3> DEFINE rest == Joined(last_seq, Unprocessed, Tail(Contents))
    <3>1. lossesNext = losses + 1
      <4>1. Unwritten' = 0 /\ UNCHANGED <<seq, Taken, log_write_drops, received>>
        BY <1>1, <1>10, PushEffects
      <4>2. ExactBooks'
        BY BooksNext
      <4>3. overwritten' \in Int
        BY <2>3, <1>2, ConstantsOK, ModRange
      <4>x. /\ ring_buffer_count \in Int /\ overwritten \in Int /\ log_write_drops \in Int
            /\ Taken \in Int /\ received \in Int
        BY <1>2
      <4>4. seq = 0 + ring_buffer_count + overwritten' + log_write_drops + Taken + received
        BY <2>3, <4>1, <4>2 DEF ExactBooks
      <4>5. overwritten' = overwritten + 1
        <5> DEFINE now == overwritten
                   next == overwritten'
                   others == ring_buffer_count + log_write_drops + Taken + received
        <5>1. now \in Int /\ next \in Int /\ others \in Int
          BY <4>x, <4>3
        <5>2. seq = 1 + others + now
          BY <4>x, <2>2
        <5>3. seq = others + next
          BY <4>x, <4>3, <4>4
        <5> HIDE DEF now, next, others
        <5>4. next = now + 1
          BY <5>1, <5>2, <5>3
        <5>5. QED
          BY <5>4 DEF now, next
      <4>6. QED
        BY <1>2, <4>1, <4>5
    <3>2. /\ rest \in Seq(Uint32) /\ Len(rest) = Len(Outstanding) - 1
          /\ \A i \in 1 .. Len(rest) :
               rest[i] = IF i < 2 + Len(Unprocessed) THEN Outstanding[i] ELSE Outstanding[i + 1]
      <4>1. /\ last_seq \in Uint32 /\ Unprocessed \in Seq(Uint32)
            /\ Contents \in Seq(Uint32) /\ Contents # <<>>
        BY <1>2, <2>3
      <4>2. QED
        BY <4>1, TailLeavesOut, OutstandingJoined
    <3>3. Outstanding' = Append(rest, seq)
      <4>1. Tail(Contents) \in Seq(Uint32) /\ last_seq \in Uint32
            /\ Unprocessed \in Seq(Uint32) /\ seq \in Uint32
        BY <1>2, <2>3, OneLess
      <4>2. Outstanding' = Joined(last_seq, Unprocessed, Append(Tail(Contents), seq))
        BY <2>1, <2>3, Zenon DEF Outstanding, Joined
      <4>3. QED
        BY <4>1, <4>2, AppendedLast
    <3> DEFINE k == 2 + Len(Unprocessed)
    <3>4. k \in Nat \ {0} /\ received \in Int /\ losses \in Int /\ lossesNext \in Nat
      BY <1>2, <3>1
    <3>5. seq = received + Len(rest) + lossesNext
      BY <1>2, <1>4, <2>2, <3>1, <3>2
    <3>6. /\ Len(rest) = Len(Outstanding) - 1
          /\ \A i \in 1 .. Len(rest) :
               rest[i] = IF i < k THEN Outstanding[i] ELSE Outstanding[i + 1]
      BY <3>2
    <3> HIDE DEF rest, losses, lossesNext, k
    <3>7. Rising(rest) /\ GapsWithin(rest, received, losses + 1)
      <4>1. rest \in Seq(Uint32) /\ Outstanding \in Seq(Uint32)
        BY <1>4, <3>2
      <4>2. QED
        BY <1>1, <3>4, <3>6, <4>1, RisingWithout
    <3>8. Rising(Append(rest, seq)) /\ GapsWithin(Append(rest, seq), received, lossesNext)
      <4>1. rest \in Seq(Uint32) /\ seq \in Uint32
        BY <1>2, <3>2
      <4>2. GapsWithin(rest, received, lossesNext)
        BY <3>1, <3>7
      <4>3. QED
        BY <3>4, <3>5, <3>7, <4>1, <4>2, RisingAppend
    <3>9. QED
      BY <2>1, <3>3, <3>8 DEF lossesNext
  <2>4. CASE /\ Contents' = Append(Contents, seq)
             /\ ring_buffer_count' = ring_buffer_count + 1
             /\ overwritten' = overwritten
    <3>1. Outstanding' = Append(Outstanding, seq)
      <4>1. Outstanding' = Joined(last_seq, Unprocessed, Append(Contents, seq))
        BY <2>1, <2>4, Zenon DEF Outstanding, Joined
      <4>2. QED
        BY <1>2, <4>1, AppendedLast, OutstandingJoined
    <3>2. lossesNext = losses
      BY <2>1, <2>4
    <3>3. seq = received + Len(Outstanding) + losses
      BY <1>2, <1>4, <2>2
    <3> HIDE DEF losses, lossesNext
    <3>4. /\ Rising(Append(Outstanding, seq))
          /\ GapsWithin(Append(Outstanding, seq), received, losses)
      <4>1. /\ Outstanding \in Seq(Uint32) /\ seq \in Uint32
            /\ received \in Int /\ losses \in Nat
        BY <1>2, <1>4
      <4>2. QED
        BY <1>1, <3>3, <4>1, RisingAppend
    <3>5. QED
      BY <2>1, <3>1, <3>2, <3>4 DEF lossesNext
  <2>5. QED
    BY <2>1, <2>3, <2>4
<1>11. CASE ReadRelease
  <2>1. /\ UNCHANGED <<overwritten, log_write_drops, received, last_seq>>
        /\ batch_count \in 0 .. Len(Contents)
        /\ Unprocessed = <<>> /\ Unprocessed' = SubSeq(Contents, 1, batch_count)
        /\ Contents' = SubSeq(Contents, batch_count + 1, Len(Contents))
    BY <1>1, <1>11, ReleaseEffects
  <2>2. Outstanding' = Outstanding
    BY <1>2, <2>1, JoinedAnew DEF Outstanding
  <2>3. QED
    BY <1>5, <2>1, <2>2
<1>12. CASE consumer_process_record
  <2>1. /\ UNCHANGED <<overwritten, log_write_drops, Contents>>
        /\ Unprocessed # <<>> /\ Unprocessed' = Tail(Unprocessed)
        /\ last_seq' = Head(Unprocessed) /\ received' = received + 1
    BY <1>1, <1>3, <1>12, ProcessEffects
  <2>2. Outstanding' = Tail(Outstanding)
    <3>1. Joined(Head(Unprocessed), Tail(Unprocessed), Contents)
            = Tail(Joined(last_seq, Unprocessed, Contents))
      <4>1. /\ last_seq \in Uint32 /\ Unprocessed \in Seq(Uint32) /\ Contents \in Seq(Uint32)
            /\ Unprocessed # <<>>
        BY <1>2, <2>1
      <4>2. QED
        BY <4>1, HeadMovesOn
    <3>2. Outstanding' = Joined(Head(Unprocessed), Tail(Unprocessed), Contents)
      BY <2>1, Zenon DEF Outstanding, Joined
    <3>3. QED
      BY <3>1, <3>2, OutstandingJoined
  <2>3. Outstanding # <<>>
    BY <1>2, <1>4
  <2>4. lossesNext = losses
    BY <2>1
  <2> HIDE DEF losses, lossesNext
  <2>5. Rising(Tail(Outstanding)) /\ GapsWithin(Tail(Outstanding), received + 1, losses)
    BY <1>1, <1>2, <1>4, <2>3, RisingTail
  <2>6. QED
    BY <2>1, <2>2, <2>4, <2>5 DEF lossesNext
<1>13. QED
  BY <1>1, <1>7, <1>8, <1>9, <1>10, <1>11, <1>12, OrderStep

(* The numbers under way stay below the one still to be written.           *)
NumbersWithin ==
  /\ Outstanding \in Seq(Uint32) /\ Len(Outstanding) = 1 + Taken + ring_buffer_count
  /\ Len(Outstanding) \in Nat /\ Len(Outstanding) >= 1 /\ Outstanding[1] = last_seq
  /\ \A i \in 1 .. Len(Outstanding) :
       Outstanding[i] \in Nat /\ Outstanding[i] <= seq - Unwritten

LEMMA NumbersBounded == AccountInv /\ ExactBooks /\ GapsAreLosses => NumbersWithin
<1> SUFFICES ASSUME AccountInv, ExactBooks, GapsAreLosses PROVE NumbersWithin
  OBVIOUS
<1>1. /\ last_seq \in Uint32 /\ Unprocessed \in Seq(Uint32) /\ Contents \in Seq(Uint32)
      /\ Taken = Len(Unprocessed) /\ ring_buffer_count = Len(Contents)
      /\ overwritten \in Nat /\ log_write_drops \in Nat /\ received \in Nat
      /\ Taken \in Nat /\ ring_buffer_count \in Nat /\ Unwritten \in Nat
  <2>1. Unwritten \in {0, 1} => Unwritten \in Nat
    OBVIOUS
  <2>2. QED
    BY <2>1, OrderTypes, Zenon
<1>2. /\ Outstanding \in Seq(Uint32) /\ Len(Outstanding) = 1 + Taken + ring_buffer_count
      /\ Outstanding[1] = last_seq
  BY <1>1, PartsLie DEF Outstanding
<1>3. Len(Outstanding) \in Nat /\ Len(Outstanding) >= 1
  BY <1>1, <1>2
<1>4. ASSUME NEW i \in 1 .. Len(Outstanding)
      PROVE  Outstanding[i] \in Nat /\ Outstanding[i] <= seq - Unwritten
  <2>1. Outstanding[i] \in Uint32
    BY <1>2
  <2>2. Outstanding[i] \in Nat
    BY <2>1, ConstantsOK DEF Uint32
  <2>3. Outstanding[i] - (received + i - 1) <= overwritten + log_write_drops
    BY <1>1 DEF GapsAreLosses, GapsWithin
  <2>4. i <= 1 + Taken + ring_buffer_count /\ i \in Nat
    BY <1>2, <1>3
  <2>5. Outstanding[i] <= received + (Taken + ring_buffer_count) + (overwritten + log_write_drops)
    <3> DEFINE o == Outstanding[i]
               m == Taken + ring_buffer_count
               l == overwritten + log_write_drops
    <3>1. /\ o \in Nat /\ m \in Nat /\ l \in Nat /\ i <= 1 + m
          /\ o - (received + i - 1) <= l
      BY <1>1, <2>2, <2>3, <2>4
    <3> HIDE DEF o, m, l
    <3>2. o <= received + m + l
      BY <1>1, <2>4, <3>1
    <3>3. QED
      BY <3>2 DEF o, m, l
  <2>6. seq = Unwritten + ring_buffer_count + overwritten + log_write_drops + Taken + received
    BY DEF ExactBooks
  <2>7. seq - Unwritten
          = received + (Taken + ring_buffer_count) + (overwritten + log_write_drops)
    <3>1. /\ overwritten \in Nat /\ log_write_drops \in Nat /\ received \in Nat
          /\ Taken \in Nat /\ ring_buffer_count \in Nat /\ Unwritten \in Nat
      BY <1>1
    <3>2. QED
      BY <2>6, <3>1
  <2>8. QED
    BY <2>2, <2>5, <2>7
<1>5. QED
  BY <1>2, <1>3, <1>4 DEF NumbersWithin

LEMMA NumbersBoundedNext == (AccountInv /\ ExactBooks /\ GapsAreLosses)' => NumbersWithin'
BY NumbersBounded, PTL

(* lost is what the last number received is ahead of the number of them.   *)
LEMMA LostNext ==
  ASSUME OrderInv, FewTicks, [Step]_vars, AccountInv', NothingWrapped', ExactBooks', GapsAreLosses'
  PROVE  LostIsGap'
<1>1. AccountInv /\ lost = last_seq - received
  BY DEF OrderInv, LostIsGap
<1>2. CASE UNCHANGED <<received, last_seq, lost>>
  BY <1>1, <1>2 DEF LostIsGap
<1>3. CASE consumer_process_record
  <2>1. /\ last_seq' = Head(Unprocessed) /\ received' = (received + 1) % Wrap
        /\ lost' = (Head(Unprocessed) - (received + 1)) % Wrap
    BY <1>1, <1>3, ProcessEffects DEF lost_at
  <2>2. received' = received + 1 /\ received \in Nat
    BY <1>1, <1>3, BooksNext, OrderTypes
  <2>3. /\ Outstanding' \in Seq(Uint32) /\ Len(Outstanding') \in Nat /\ Len(Outstanding') >= 1
        /\ Outstanding'[1] = last_seq'
    BY NumbersBoundedNext DEF NumbersWithin
  <2>4. Outstanding'[1] \in Uint32 /\ 1 \in 1 .. Len(Outstanding')
    BY <2>3
  <2>5. Outstanding'[1] - (received' + 1 - 1) \in 0 .. overwritten' + log_write_drops'
    BY <2>4 DEF GapsAreLosses, GapsWithin
  <2>6. last_seq' - received' \in 0 .. Wrap - 1
    <3>1. last_seq' \in Nat /\ last_seq' < Wrap /\ received' \in Nat /\ Wrap \in Nat
      BY <2>2, <2>3, <2>4, ConstantsOK DEF Uint32
    <3>2. overwritten' + log_write_drops' \in Nat
      BY OrderTypesNext DEF UnderWayTypes
    <3>3. last_seq' - received' >= 0
      <4> DEFINE o == last_seq'
                 r == received'
                 l == overwritten' + log_write_drops'
      <4>1. o - (r + 1 - 1) \in 0 .. l
        BY <2>3, <2>5, Zenon
      <4>2. o \in Nat /\ r \in Nat /\ l \in Nat
        BY <3>1, <3>2
      <4> HIDE DEF o, r, l
      <4>3. o - r >= 0
        BY <4>1, <4>2
      <4>4. QED
        BY <4>3 DEF o, r
    <3>4. \A o, r, w \in Nat : o < w /\ o - r >= 0 => o - r \in 0 .. w - 1
      OBVIOUS
    <3>5. QED
      BY <3>1, <3>3, <3>4
  <2>7. (last_seq' - received') % Wrap = last_seq' - received'
    BY <2>6, ConstantsOK, ModSmall
  <2>8. QED
    BY <2>1, <2>2, <2>7 DEF LostIsGap
<1>4. CASE NotifyTake \/ WritePush \/ producer_update_stats \/ ReadRelease
  <2>1. UNCHANGED <<received, last_seq, lost>>
    BY <1>4 DEF NotifyTake, WritePush, producer_update_stats, ReadRelease, consumerVars, drainState
  <2>2. QED
    BY <1>2, <2>1
<1>5. QED
  BY <1>1, <1>2, <1>3, <1>4, OrderStep

(* Each sample is counted once the producer is through with it.            *)
LEMMA SamplesNext ==
  ASSUME OrderInv, FewTicks, [Step]_vars
  PROVE  SamplesNumbered' /\ samples' >= samples
<1>1. /\ AccountInv /\ SamplesNumbered /\ NothingWrapped
      /\ seq \in Nat /\ samples \in Nat /\ log_write_drops \in Nat /\ notified \in Nat
      /\ ticks \in Nat /\ ticks < Wrap /\ seq <= ticks
  <2>1. AccountInv /\ SamplesNumbered /\ NothingWrapped
    BY DEF OrderInv
  <2>2. /\ seq \in Nat /\ samples \in Nat /\ log_write_drops \in Nat /\ notified \in Nat
        /\ ticks \in Nat /\ ticks <= MaxTicks /\ MaxTicks \in Nat /\ Wrap \in Nat
    BY <2>1, OrderTypes
  <2>3. QED
    BY <2>1, <2>2 DEF FewTicks, NothingWrapped
<1>2. \/ UNCHANGED <<seq, samples, log_write_drops>> /\ (ppc' = "wait" <=> ppc = "wait")
      \/ NotifyTake \/ producer_update_stats
  BY DEF vars, producerVars, producerLocals, producerStats,
       Step, TimerTick, UiScan, UiStep, ui_send, ProducerStep, ProducerTimeout,
       WriteLock, WriteTestEmpty, WritePush, WriteUnlock, RingDoorbell, NotifyTimeout,
       WriteLockTimeout, ConsumerStep, ConsumerTimeout,
       QueueReceive, QueueGlance, NoteQueueDepth, consumer_handle_msg, CountWrites,
       LookLock, Look, PrintReport, DrainPaused, DrainStart, ReadLock, ReadCopy, ReadRelease,
       ReadUnlock, consumer_process_record, DrainNext, QueuePollTimeout, LookLockTimeout,
       ReadLockTimeout
<1>3. CASE UNCHANGED <<seq, samples, log_write_drops>> /\ (ppc' = "wait" <=> ppc = "wait")
  BY <1>1, <1>3 DEF SamplesNumbered
<1>4. CASE NotifyTake
  <2>1. /\ ppc = "wait" /\ ppc' = "lock" /\ notified > 0 /\ seq' = (seq + 1) % Wrap
        /\ UNCHANGED <<samples, log_write_drops>>
    BY <1>4 DEF NotifyTake, producerStats
  <2>2. seq + 1 \in Nat /\ seq + 1 < Wrap
    BY <1>1, <2>1, ConstantsOK DEF NothingWrapped
  <2>3. seq' = seq + 1
    BY <2>1, <2>2, NoWrap
  <2>4. QED
    BY <1>1, <2>1, <2>3 DEF SamplesNumbered
<1>5. CASE producer_update_stats
  <2>1. /\ ppc = "stats" /\ ppc' = "wait" /\ samples' = (samples + 1) % Wrap /\ seq' = seq
        /\ log_write_drops' = (log_write_drops + drop) % Wrap /\ drop \in {0, 1}
    BY <1>5 DEF producer_update_stats, producerLocals, drop
  <2>2. /\ samples + 1 \in Nat /\ samples + 1 < Wrap
        /\ log_write_drops + drop \in Nat /\ log_write_drops + drop < Wrap
        /\ log_write_drops + drop <= samples + 1 /\ seq = samples + 1
    BY <1>1, <2>1, ConstantsOK DEF SamplesNumbered
  <2>3. samples' = samples + 1 /\ log_write_drops' = log_write_drops + drop
    BY <2>1, <2>2, NoWrap
  <2>4. QED
    BY <1>1, <2>1, <2>2, <2>3 DEF SamplesNumbered
<1>6. QED
  BY <1>2, <1>3, <1>4, <1>5

(* The writes the diagnostics have counted stay covered.                   *)
LEMMA WritesShownNext ==
  ASSUME OrderInv, FewTicks, [Step]_vars, AccountInv', NothingWrapped'
  PROVE  WritesShown'
<1>1. /\ AccountInv /\ SamplesNumbered /\ ExactBooks /\ WritesShown /\ NothingWrapped
      /\ CopyStillTrue
  BY DEF OrderInv, AccountInv
<1>2. /\ samples \in Nat /\ log_write_drops \in Nat /\ received \in Nat /\ overwritten \in Nat
      /\ ring_buffer_count \in Nat /\ shown \in Nat /\ seq \in Nat /\ Unwritten \in {0, 1}
      /\ notified \in Nat /\ Wrap \in Nat
      /\ ticks \in Nat /\ ticks <= MaxTicks /\ MaxTicks \in Nat
  BY <1>1, OrderTypes
<1>3. cpc \in {"count", "lookLock", "look"} => Taken = 0
  BY <1>1 DEF CopyStillTrue, Taken, Unprocessed
<1>4. cpc' \in {"count", "lookLock", "look"} => Taken' = 0
  BY DEF AccountInv, CopyStillTrue, Taken, Unprocessed
<1> SUFFICES ASSUME cpc' \in {"lookLock", "look"}, msg' = "STATS"
             PROVE  shown' <= received' + overwritten' + ring_buffer_count'
  BY DEF WritesShown
<1>5. \/ cpc \in {"lookLock", "look"} /\ UNCHANGED <<msg, shown>>
      \/ CountWrites
  BY DEF vars, consumerVars,
       Step, TimerTick, UiScan, UiStep, ui_send, ProducerStep, ProducerTimeout,
       NotifyTake, WriteLock, WriteTestEmpty, WritePush, WriteUnlock, RingDoorbell,
       producer_update_stats, NotifyTimeout,
       WriteLockTimeout, ConsumerStep, ConsumerTimeout,
       QueueReceive, QueueGlance, NoteQueueDepth, consumer_handle_msg,
       LookLock, Look, PrintReport, DrainPaused, DrainStart, ReadLock, ReadCopy, ReadRelease,
       ReadUnlock, consumer_process_record, DrainNext, QueuePollTimeout, LookLockTimeout,
       ReadLockTimeout
<1>6. CASE cpc \in {"lookLock", "look"} /\ UNCHANGED <<msg, shown>>
  <2> DEFINE now == received + overwritten + ring_buffer_count
             then == received' + overwritten' + ring_buffer_count'
  <2>1. then + Taken' >= now + Taken
    BY BooksNext
  <2>2. Taken = 0 /\ Taken' = 0 /\ shown' <= now /\ shown' \in Nat
    BY <1>1, <1>2, <1>3, <1>4, <1>6 DEF WritesShown
  <2>3. now \in Nat /\ then \in Nat
    <3>1. \A a, b, c \in Nat : a + b + c \in Nat
      OBVIOUS
    <3>2. received' \in Nat /\ overwritten' \in Nat /\ ring_buffer_count' \in Nat
      BY OrderTypesNext DEF UnderWayTypes
    <3>3. then \in Nat
      BY <3>1, <3>2, Zenon
    <3>4. QED
      BY <1>2, <3>3
  <2> HIDE DEF now, then
  <2>4. shown' <= then
    BY <2>1, <2>2, <2>3
  <2>5. QED
    BY <2>4 DEF then
<1>7. CASE CountWrites
  <2>1. /\ cpc = "count" /\ shown' = (samples - log_write_drops) % Wrap
        /\ UNCHANGED rbVars /\ received' = received
    BY <1>7 DEF CountWrites, drainState
  <2>2. UNCHANGED <<overwritten, ring_buffer_count>>
    BY <2>1, RingUntouched DEF rbVars
  <2>3. samples <= seq - Unwritten
    BY <1>1, <1>2 DEF SamplesNumbered, Unwritten
  <2>4. seq - Unwritten - log_write_drops = received + overwritten + ring_buffer_count
    BY <1>1, <1>2, <1>3, <2>1 DEF ExactBooks
  <2>5. samples - log_write_drops \in Nat /\ samples - log_write_drops < Wrap
    BY <1>1, <1>2, <2>3 DEF SamplesNumbered, NothingWrapped, FewTicks
  <2>6. shown' = samples - log_write_drops
    BY <2>1, <2>5, NoWrap
  <2>7. QED
    BY <1>2, <2>1, <2>2, <2>3, <2>4, <2>6
<1>8. QED
  BY <1>5, <1>6, <1>7

LEMMA OrderInit == Init => OrderInv
<1> SUFFICES ASSUME Init PROVE OrderInv
  OBVIOUS
<1>1. AccountInv
  BY AccountInvInit
<1>2. /\ seq = 0 /\ notified = 0 /\ ticks = 0 /\ overwritten = 0 /\ log_write_drops = 0
      /\ received = 0 /\ lost = 0 /\ last_seq = 0 /\ samples = 0
      /\ ppc = "wait" /\ cpc = "recv" /\ Unwritten = 0 /\ Taken = 0 /\ Unprocessed = <<>>
  BY DEF Init, ring_buffer_init, Unwritten, Taken, Unprocessed
<1>3. ring_buffer_count = 0
  BY ConstantsOK, ModSmall DEF Init, ring_buffer_init, ring_buffer_count
<1>4. Contents = <<>>
  BY <1>1, <1>3, OrderTypes
<1>5. Outstanding = <<0>>
  BY <1>2, <1>4 DEF Outstanding
<1>6. /\ NothingWrapped /\ ExactBooks /\ LostIsGap /\ SamplesNumbered /\ WritesShown
  BY <1>2, <1>3
     DEF NothingWrapped, ExactBooks, LostIsGap, SamplesNumbered, WritesShown
<1>7. Rising(Outstanding) /\ GapsAreLosses
  BY <1>2, <1>5 DEF Rising, GapsAreLosses, GapsWithin
<1>8. QED
  BY <1>1, <1>6, <1>7 DEF OrderInv

LEMMA OrderNext == FewTicks /\ OrderInv /\ [Next]_vars => OrderInv'
<1> SUFFICES ASSUME FewTicks, OrderInv, [Next]_vars PROVE OrderInv'
  OBVIOUS
<1>1. [Step]_vars
  BY NextIsStep
<1>2. AccountInv'
  BY AccountInvNext DEF OrderInv
<1>3. NothingWrapped'
  BY <1>1, NothingWrappedNext
<1>4. ExactBooks'
  BY <1>1, <1>2, <1>3, BooksNext
<1>5. Rising(Outstanding)' /\ GapsAreLosses'
  BY <1>1, <1>2, <1>3, NumbersNext DEF Rising
<1>6. LostIsGap'
  BY <1>1, <1>2, <1>3, <1>4, <1>5, LostNext
<1>7. SamplesNumbered' /\ WritesShown'
  BY <1>1, <1>2, <1>3, SamplesNext, WritesShownNext
<1>8. QED
  BY <1>2, <1>3, <1>4, <1>5, <1>6, <1>7 DEF OrderInv

LEMMA OrderInvariant == FewTicks /\ Spec => []OrderInv
<1> SUFFICES ASSUME FewTicks PROVE Spec => []OrderInv
  OBVIOUS
<1>1. OrderInv /\ [Next]_vars => OrderInv'
  BY OrderNext
<1>2. QED
  BY OrderInit, <1>1, PTL DEF Spec

(* Records reach the consumer in order, each at most once, and the log     *)
(* never holds an older one than the consumer has received: in every run   *)
(* of fewer ticks than seq can count, for any capacity, batch size,        *)
(* priorities and time-outs.                                               *)
THEOREM ArriveInOrder == FewTicks /\ Spec => []InOrder
<1>1. ASSUME OrderInv PROVE InOrder
  <2>1. NumbersWithin /\ Rising(Outstanding) /\ seq \in Uint32 /\ Unwritten \in {0, 1}
    BY <1>1, NumbersBounded, OrderTypes DEF OrderInv
  <2>2. ASSUME NEW i \in 1 .. Len(Outstanding) PROVE Age(Outstanding[i]) = seq - Outstanding[i]
    <3>1. Outstanding[i] \in Nat /\ Outstanding[i] <= seq - Unwritten
      BY <2>1 DEF NumbersWithin
    <3>2. seq \in Nat /\ seq < Wrap /\ Wrap \in Nat
      BY <2>1, ConstantsOK DEF Uint32
    <3>3. seq - Outstanding[i] \in Nat /\ seq - Outstanding[i] < Wrap
      BY <2>1, <3>1, <3>2
    <3>4. QED
      BY <3>3, NoWrap DEF Age
  <2>3. ASSUME NEW i \in 1 .. Len(Outstanding) - 1
        PROVE  Age(Outstanding[i]) > Age(Outstanding[i + 1])
    <3>1. /\ i \in 1 .. Len(Outstanding) /\ i + 1 \in 1 .. Len(Outstanding) /\ i < i + 1
      BY <2>1 DEF NumbersWithin
    <3>2. Outstanding[i] < Outstanding[i + 1]
      BY <2>1, <3>1 DEF Rising
    <3>3. Outstanding[i] \in Nat /\ Outstanding[i + 1] \in Nat /\ seq \in Nat
      BY <2>1, <3>1, ConstantsOK DEF NumbersWithin, Uint32
    <3>4. QED
      BY <2>2, <3>1, <3>2, <3>3
  <2>4. QED
    BY <2>3 DEF InOrder
<1>2. QED
  BY <1>1, OrderInvariant, PTL

(* What the consumer reports as lost really was: never more than was       *)
(* overwritten or dropped (consumer_process_record's lost), in such a run. *)
THEOREM NoLossInvented == FewTicks /\ Spec => []LossesReal
<1>1. ASSUME OrderInv PROVE LossesReal
  <2> DEFINE losses == overwritten + log_write_drops
  <2>1. /\ AccountInv /\ NumbersWithin /\ GapsAreLosses /\ LostIsGap /\ ExactBooks
    BY <1>1, NumbersBounded DEF OrderInv
  <2>2. /\ overwritten \in Nat /\ log_write_drops \in Nat /\ received \in Nat
        /\ Taken \in Nat /\ ring_buffer_count \in Nat /\ Unwritten \in {0, 1}
        /\ seq \in Uint32
    BY <2>1, OrderTypes
  <2>3. losses \in Nat /\ losses < Wrap
    BY <2>1, <2>2, ConstantsOK DEF ExactBooks, Uint32
  <2>4. Outstanding[1] - (received + 1 - 1) \in 0 .. losses
    BY <2>1 DEF GapsAreLosses, GapsWithin, NumbersWithin
  <2>5. lost \in 0 .. losses
    <3>1. Outstanding[1] = last_seq /\ received + 1 - 1 = received
      BY <2>1, <2>2 DEF NumbersWithin
    <3>2. QED
      BY <2>1, <2>4, <3>1 DEF LostIsGap
  <2> HIDE DEF losses
  <2>6. losses % Wrap = losses
    BY <2>3, NoWrap
  <2>7. lost <= losses
    BY <2>3, <2>5
  <2>8. QED
    BY <2>6, <2>7 DEF losses, LossesReal
<1>2. QED
  BY <1>1, OrderInvariant, PTL

(* Whoever looks at the newest record does so while the producer waits:    *)
(* with the mutex the consumer runs only when nothing above it is ready.   *)
LEMMA ProducerWaitsForLook ==
  ASSUME FlowInv, AppPriorities, CanRun("consumer"), cpc = "look"
  PROVE  ppc \in {"wait", "lock"}
<1>1. log_mutex = "consumer" /\ ppc \notin {"test", "push", "unlock"} /\ ppc \in PPc
  BY DEF FlowInv, FlowTypeOK, ProducerTypeOK, LockHeld
<1> SUFFICES ASSUME ppc \in {"ring", "stats"} PROVE FALSE
  BY <1>1 DEF PPc
<1>2. \A t \in Task : ~Waits(t)
  BY DEF Waits, AtLock, Task
<1>3. Ready("producer")
  BY <1>2 DEF Ready, Task
<1>4. /\ EffectivePrio("producer") = Prio["producer"]
      /\ EffectivePrio("consumer") = Prio["consumer"]
  BY <1>2 DEF EffectivePrio
<1>5. QED
  BY <1>3, <1>4, PrioNat DEF CanRun, Task, AppPriorities

LEMMA RecordShownNext ==
  ASSUME OrderInv, RecordShown, FewTicks, AppPriorities, [Next]_vars
  PROVE  RecordShown'
<1>1. [Step]_vars
  BY NextIsStep
<1>2. /\ AccountInv /\ FlowInv /\ NumbersWithin /\ SamplesNumbered /\ NewestLast
  BY NumbersBounded DEF OrderInv, AccountInv
<1>3. samples' >= samples /\ samples \in Nat /\ samples' \in Int /\ shown \in Nat
  <2>1. samples' \in Int
    BY <1>2, AccountInvNext, OrderTypesNext DEF UnderWayTypes
  <2>2. QED
    BY <1>1, <1>2, <2>1, SamplesNext, OrderTypes
<1> SUFFICES ASSUME cpc' = "report" PROVE shown' <= samples'
  BY DEF RecordShown
<1>4. \/ cpc = "report" /\ UNCHANGED shown
      \/ CanRun("consumer") /\ Look
  BY DEF Next, vars, consumerVars,
       TimerTick, UiScan, UiStep, ui_send, ProducerStep, ProducerTimeout,
       NotifyTake, WriteLock, WriteTestEmpty, WritePush, WriteUnlock, RingDoorbell,
       producer_update_stats, NotifyTimeout,
       WriteLockTimeout, ConsumerStep, ConsumerTimeout,
       QueueReceive, QueueGlance, NoteQueueDepth, consumer_handle_msg, CountWrites,
       LookLock, PrintReport, DrainPaused, DrainStart, ReadLock, ReadCopy, ReadRelease,
       ReadUnlock, consumer_process_record, DrainNext, QueuePollTimeout, LookLockTimeout,
       ReadLockTimeout
<1>5. CASE cpc = "report" /\ UNCHANGED shown
  BY <1>3, <1>5 DEF RecordShown
<1>6. CASE CanRun("consumer") /\ Look
  <2>1. /\ cpc = "look" /\ has_newest /\ shown' = ring_buffer_peek_newest[1]
        /\ samples' = samples
    BY <1>6 DEF Look, producerVars, producerStats
  <2>2. shown' = Outstanding[Len(Outstanding)]
    BY <1>2, <2>1 DEF NewestLast
  <2>3. shown' \in Nat /\ shown' <= seq - Unwritten
    BY <1>2, <2>2 DEF NumbersWithin
  <2>4. ppc \in {"wait", "lock"}
    BY <1>2, <1>6, <2>1, ProducerWaitsForLook
  <2>5. seq - Unwritten = samples
    BY <1>2, <1>3, <2>4 DEF SamplesNumbered, Unwritten
  <2>6. QED
    BY <1>3, <2>1, <2>3, <2>5
<1>7. QED
  BY <1>4, <1>5, <1>6

(* A report's record is among the samples it counts, and the diagnostics   *)
(* miss no sample they have shown as written. For the record that takes    *)
(* the priorities: the producer counts a sample after it has stored it.    *)
THEOREM PrintedCountsRight == FewTicks /\ AppPriorities /\ Spec => []PrintedCountsAgree
<1> SUFFICES ASSUME FewTicks, AppPriorities PROVE Spec => []PrintedCountsAgree
  OBVIOUS
<1>1. Init => CountsInv
  BY OrderInit DEF CountsInv, Init, RecordShown
<1>2. CountsInv /\ [Next]_vars => CountsInv'
  BY OrderNext, RecordShownNext DEF CountsInv
<1>3. CountsInv => PrintedCountsAgree
  <2> SUFFICES ASSUME CountsInv PROVE ReportCovered /\ DiagnosticsCover
    BY DEF PrintedCountsAgree
  <2>1. /\ AccountInv /\ ExactBooks /\ SamplesNumbered /\ WritesShown /\ RecordShown
    BY DEF CountsInv, OrderInv
  <2>2. /\ seq \in Nat /\ samples \in Nat /\ shown \in Nat /\ received \in Nat
        /\ overwritten \in Nat /\ ring_buffer_count \in Nat /\ log_write_drops \in Nat
        /\ Taken \in Nat /\ Unwritten \in Nat
        /\ seq < Wrap /\ Wrap \in Nat
    <3>1. seq \in Uint32 /\ seq \in Nat
      BY <2>1, OrderTypes
    <3>2. seq < Wrap /\ Wrap \in Nat
      BY <3>1, ConstantsOK DEF Uint32
    <3>3. AccountInv
      BY <2>1
    <3>4. Unwritten \in {0, 1} => Unwritten \in Nat
      OBVIOUS
    <3>5. QED
      BY <3>1, <3>2, <3>3, <3>4, OrderTypes, Zenon
  <2>3. \A n \in Nat : n <= seq => Age(n) = seq - n
    <3> SUFFICES ASSUME NEW n \in Nat, n <= seq PROVE Age(n) = seq - n
      OBVIOUS
    <3>1. seq - n \in Nat /\ seq - n < Wrap
      BY <2>2
    <3>2. QED
      BY <3>1, NoWrap DEF Age
  <2>4. ReportCovered
    <3> SUFFICES ASSUME cpc = "report" PROVE Age(samples) <= Age(shown)
      BY DEF ReportCovered
    <3>1. shown <= samples /\ samples <= seq
      BY <2>1, <2>2 DEF RecordShown, SamplesNumbered
    <3>2. Age(shown) = seq - shown /\ Age(samples) = seq - samples
      BY <2>2, <2>3, <3>1
    <3>3. QED
      BY <2>2, <3>1, <3>2
  <2>5. DiagnosticsCover
    <3> DEFINE covered == received + overwritten + ring_buffer_count
    <3> SUFFICES ASSUME cpc = "look", msg = "STATS"
                 PROVE  Age(covered % Wrap) <= Age(shown)
      BY DEF DiagnosticsCover
    <3>1. covered \in Nat /\ covered <= seq
      BY <2>1, <2>2 DEF ExactBooks
    <3>2. shown <= covered
      BY <2>1 DEF WritesShown
    <3> HIDE DEF covered
    <3>3. covered % Wrap = covered
      BY <2>2, <3>1, NoWrap
    <3>4. Age(shown) = seq - shown /\ Age(covered) = seq - covered
      BY <2>2, <2>3, <3>1, <3>2
    <3>5. QED
      BY <2>2, <3>1, <3>2, <3>3, <3>4
  <2>6. QED
    BY <2>4, <2>5
<1>4. QED
  BY <1>1, <1>2, <1>3, PTL DEF Spec

-----------------------------------------------------------------------------
(* The stream of samples: what happens to a row of three parts.            *)

LEMMA LeavesLast ==
  ASSUME NEW S, NEW s \in Seq(S), NEW n \in S
  PROVE  LET all == s \o <<n>> IN
         /\ all = Append(s, n) /\ all \in Seq(S) /\ Len(all) = Len(s) + 1 /\ all # <<>>
         /\ SubSeq(all, 1, Len(all) - 1) \o SubSeq(all, Len(all) + 1, Len(all)) = s \o <<>>
         /\ s \o <<>> = s
<1> DEFINE all == s \o <<n>>
<1>1. /\ all = Append(s, n) /\ all \in Seq(S) /\ Len(all) = Len(s) + 1
      /\ Len(s) \in Nat /\ s \o <<>> = s
  OBVIOUS
<1>2. SubSeq(all, 1, Len(all) - 1) = s
  BY <1>1
<1>3. SubSeq(all, Len(all) + 1, Len(all)) = <<>>
  BY <1>1
<1> HIDE DEF all
<1>4. all # <<>>
  BY <1>1
<1>5. QED
  BY <1>1, <1>2, <1>3, <1>4 DEF all

(* Without its element after the first part: the first part, and the       *)
(* others less the first element.                                          *)
LEMMA LeavesMiddle ==
  ASSUME NEW S, NEW b \in Seq(S), NEW r \in Seq(S), r # <<>>
  PROVE  LET all == b \o r IN
         /\ all \in Seq(S) /\ Len(all) = Len(b) + Len(r)
         /\ SubSeq(all, 1, Len(b)) \o SubSeq(all, Len(b) + 2, Len(all)) = b \o Tail(r)
<1> DEFINE all == b \o r
           rest == SubSeq(all, Len(b) + 2, Len(all))
<1>1. /\ all \in Seq(S) /\ Len(all) = Len(b) + Len(r) /\ Len(b) \in Nat /\ Len(r) \in Nat
      /\ Len(r) > 0 /\ Tail(r) \in Seq(S) /\ Len(Tail(r)) = Len(r) - 1
      /\ \A i \in 1 .. Len(r) - 1 : Tail(r)[i] = r[i + 1]
  OBVIOUS
<1>2. \A i \in 1 .. Len(all) : all[i] = IF i <= Len(b) THEN b[i] ELSE r[i - Len(b)]
  BY <1>1
<1> HIDE DEF all
<1>3. SubSeq(all, 1, Len(b)) = b
  BY <1>1, <1>2
<1>4. /\ rest \in Seq(S) /\ Len(rest) = Len(r) - 1
      /\ \A i \in 1 .. Len(r) - 1 : rest[i] = all[(Len(b) + 1) + i]
  BY <1>1
<1> HIDE DEF rest
<1>5. ASSUME NEW i \in 1 .. Len(r) - 1
      PROVE  rest[i] = Tail(r)[i]
  <2>1. /\ (Len(b) + 1) + i \in 1 .. Len(all) /\ ~((Len(b) + 1) + i <= Len(b))
        /\ ((Len(b) + 1) + i) - Len(b) = i + 1
    BY <1>1
  <2>2. QED
    BY <1>1, <1>2, <1>4, <2>1
<1>6. rest = Tail(r)
  BY <1>1, <1>4, <1>5
<1>7. QED
  BY <1>1, <1>3, <1>6 DEF all, rest

LEMMA ThreeParts ==
  ASSUME NEW S, NEW a \in Seq(S), NEW b \in Seq(S), NEW c \in Seq(S)
  PROVE  /\ a \o b \o c = a \o (b \o c)
         /\ b \o c \in Seq(S) /\ a \o b \in Seq(S) /\ a \o b \o c \in Seq(S)
         /\ Len(a \o b \o c) = Len(a) + Len(b) + Len(c)
OBVIOUS

LEMMA FirstArrives ==
  ASSUME NEW S, NEW a \in Seq(S), NEW b \in Seq(S), a # <<>>
  PROVE  a \o b # <<>> /\ Head(a \o b) = Head(a) /\ Tail(a \o b) = Tail(a) \o b
OBVIOUS

LEMMA EmptyLast ==
  ASSUME NEW S, NEW a \in Seq(S), NEW b \in Seq(S)
  PROVE  a \o b \o <<>> = a \o b
OBVIOUS

(* Each step that matters is a step of the stream, the others stutter.     *)
LEMMA StreamTypes ==
  ASSUME AccountInv
  PROVE  /\ Unprocessed \in Seq(Uint32) /\ Contents \in Seq(Uint32) /\ InHand \in Seq(Uint32)
         /\ UnderWay = Unprocessed \o (Contents \o InHand) /\ UnderWay \in Seq(Uint32)
         /\ Len(UnderWay) = Len(Unprocessed) + Len(Contents) + Len(InHand)
         /\ Len(Unprocessed) \in 0 .. ReadBatch /\ Len(Contents) \in 0 .. Capacity
         /\ ReadBatch \in Nat /\ Capacity \in Nat /\ seq \in Uint32 /\ Wrap \in Nat \ {0}
<1>1. /\ Unprocessed \in Seq(Uint32) /\ Contents \in Seq(Uint32) /\ seq \in Uint32
      /\ Wrap \in Nat \ {0}
  BY OrderTypes
<1>2. InHand \in Seq(Uint32)
  BY <1>1 DEF InHand
<1>3. Len(Unprocessed) \in 0 .. ReadBatch /\ ReadBatch \in Nat
  <2>1. Len(batch) <= batch_count /\ batch_count \in 0 .. ReadBatch /\ batch \in Seq(Record)
    BY DEF AccountInv, FlowInv, FlowTypeOK, ConsumerTypeOK
  <2>2. QED
    BY <2>1, FlowConstants DEF Unprocessed
<1>4. Len(Contents) \in 0 .. Capacity /\ Capacity \in Nat
  BY AccountFacts, ContentsIs, ConstantsOK DEF ContentsShape
<1>5. /\ UnderWay = Unprocessed \o (Contents \o InHand) /\ UnderWay \in Seq(Uint32)
      /\ Len(UnderWay) = Len(Unprocessed) + Len(Contents) + Len(InHand)
  BY <1>1, <1>2, ThreeParts DEF UnderWay
<1>6. QED
  BY <1>1, <1>2, <1>3, <1>4, <1>5

LEMMA StreamTakes ==
  ASSUME AccountInv, NotifyTake
  PROVE  Stream!TakeSample
<1>1. /\ UNCHANGED <<Unprocessed, Contents, overwritten, log_write_drops, received, last_seq, lost>>
      /\ seq' = (seq + 1) % Wrap /\ InHand = <<>> /\ InHand' = <<seq'>>
  <2>1. UNCHANGED <<Unprocessed, overwritten, log_write_drops, received, last_seq, lost>>
    BY DEF NotifyTake, rbVars, producerStats, consumerVars, batchVars, drainState, Unprocessed
  <2>2. Contents' = Contents
    BY RingUntouched DEF NotifyTake
  <2>3. seq' = (seq + 1) % Wrap /\ InHand = <<>> /\ InHand' = <<seq'>>
    BY DEF NotifyTake, InHand, Unwritten
  <2>4. QED
    BY <2>1, <2>2, <2>3
<1>2. seq' \in Uint32
  <2>1. seq + 1 \in Int
    BY StreamTypes, Uint32Closed
  <2>2. QED
    BY <1>1, <2>1, Uint32Closed
<1>3. UnderWay' = Append(UnderWay, seq')
  <2>1. UnderWay = Unprocessed \o Contents /\ UnderWay' = (Unprocessed \o Contents) \o <<seq'>>
    <3>1. /\ UnderWay = (Unprocessed \o Contents) \o <<>>
          /\ UnderWay' = (Unprocessed \o Contents) \o <<seq'>>
          /\ Unprocessed \o Contents \in Seq(Uint32)
      BY <1>1, StreamTypes, ThreeParts DEF UnderWay
    <3>2. QED
      BY <1>2, <3>1, LeavesLast
  <2>2. QED
    BY <1>2, <2>1, StreamTypes, LeavesLast
<1>4. Len(UnderWay) <= ReadBatch + Capacity
  BY <1>1, StreamTypes
<1>5. QED
  BY <1>1, <1>3, <1>4 DEF Stream!TakeSample

LEMMA StreamPushes ==
  ASSUME AccountInv, WritePush
  PROVE  Stream!MakeRoom \/ UNCHANGED Stream!vars
<1>1. /\ UNCHANGED <<seq, log_write_drops, received, last_seq, lost, Unprocessed>>
      /\ InHand = <<seq>> /\ InHand' = <<>>
  BY PushEffects DEF InHand
<1>2. CASE Contents' = Append(Contents, seq) /\ overwritten' = overwritten
  <2>1. Contents \o <<seq>> = Append(Contents, seq) /\ Append(Contents, seq) \in Seq(Uint32)
    BY StreamTypes
  <2>2. UnderWay' = Unprocessed \o Append(Contents, seq) \o <<>>
    BY <1>1, <1>2, Zenon DEF UnderWay
  <2>3. UnderWay' = UnderWay
    <3>1. UnderWay' = Unprocessed \o Append(Contents, seq)
      BY <2>1, <2>2, StreamTypes, EmptyLast
    <3>2. UnderWay = Unprocessed \o Append(Contents, seq)
      BY <1>1, <2>1, StreamTypes, Zenon
    <3>3. QED
      BY <3>1, <3>2
  <2>4. QED
    BY <1>1, <1>2, <2>3 DEF Stream!vars
<1>3. CASE /\ Contents # <<>> /\ Contents' = Append(Tail(Contents), seq)
           /\ ring_buffer_count' = ring_buffer_count /\ dropped_oldest
           /\ overwritten' = (overwritten + 1) % Wrap
  <2> DEFINE behind == Contents \o <<seq>>
             i == Len(Unprocessed) + 1
  <2>1. /\ behind \in Seq(Uint32) /\ behind # <<>> /\ Tail(behind) = Append(Tail(Contents), seq)
        /\ Append(Tail(Contents), seq) \in Seq(Uint32)
    <3>1. Contents \in Seq(Uint32) /\ seq \in Uint32
      BY StreamTypes
    <3>2. QED
      BY <1>3, <3>1
  <2>2. UnderWay' = Unprocessed \o Tail(behind)
    <3>1. UnderWay' = Unprocessed \o Append(Tail(Contents), seq) \o <<>>
      BY <1>1, <1>3, Zenon DEF UnderWay
    <3>2. QED
      <4> HIDE DEF behind
      <4>1. UnderWay' = Unprocessed \o Append(Tail(Contents), seq)
        BY <2>1, <3>1, StreamTypes, EmptyLast
      <4>2. QED
        BY <2>1, <4>1
  <2>3. UnderWay = Unprocessed \o behind
    BY <1>1, StreamTypes, Zenon
  <2>4. /\ i \in 1 .. ReadBatch + 1 /\ Len(UnderWay) = Capacity + i
        /\ i - 1 = Len(Unprocessed) /\ i + 1 = Len(Unprocessed) + 2
    <3>1. Len(Contents) = Capacity
      BY <1>3, OrderTypes DEF dropped_oldest
    <3>2. QED
      BY <1>1, <3>1, StreamTypes
  <2> HIDE DEF behind, i
  <2>5. UnderWay' = Stream!Without(i)
    BY <2>1, <2>2, <2>3, <2>4, StreamTypes, LeavesMiddle DEF Stream!Without
  <2>6. QED
    BY <1>1, <1>3, <2>4, <2>5 DEF Stream!MakeRoom
<1>4. QED
  <2>1. ring_buffer_push(seq) /\ seq \in Record /\ RBInv
    <3>1. RBInv /\ seq \in Uint32
      BY OrderTypes, Zenon
    <3>2. QED
      BY <3>1, FlowConstants DEF WritePush
  <2>2. CASE dropped_oldest
    <3>1. /\ ring_buffer_count \in Nat /\ ring_buffer_count' # ring_buffer_count + 1
      <4>1. ring_buffer_count' = Capacity /\ ring_buffer_count = Capacity
        BY <2>1, <2>2, PushCount DEF dropped_oldest
      <4>2. QED
        BY <4>1, ConstantsOK
    <3>2. QED
      BY <1>3, <2>2, <3>1, PushEffects
  <2>3. CASE ~dropped_oldest
    <3>1. Contents' = Append(Contents, seq) /\ overwritten' = overwritten
      BY <2>1, <2>3, PushAppends DEF ring_buffer_push, GiveUpOldest, KeepOldest
    <3>2. QED
      BY <1>2, <3>1
  <2>4. QED
    BY <2>2, <2>3

LEMMA StreamReads ==
  ASSUME AccountInv, ReadRelease
  PROVE  UNCHANGED Stream!vars
<1>1. /\ UNCHANGED <<seq, overwritten, log_write_drops, received, last_seq, lost, InHand>>
      /\ batch_count \in 0 .. Len(Contents)
      /\ Unprocessed = <<>> /\ Unprocessed' = SubSeq(Contents, 1, batch_count)
      /\ Contents' = SubSeq(Contents, batch_count + 1, Len(Contents))
  BY ReleaseEffects DEF InHand
<1>2. Unprocessed' \o Contents' = Contents
  <2>1. Contents \in Seq(Uint32)
    BY StreamTypes
  <2>2. SubSeq(Contents, 1, batch_count) \o SubSeq(Contents, batch_count + 1, Len(Contents))
          = Contents
    BY <1>1, <2>1, CutAnywhere, Zenon
  <2>3. QED
    BY <1>1, <2>2, Zenon
<1>3. UnderWay' = UnderWay
  <2>1. UnderWay' = Contents \o InHand
    BY <1>1, <1>2, Zenon DEF UnderWay
  <2>2. UnderWay = Contents \o InHand
    <3>1. Contents \in Seq(Uint32)
      BY StreamTypes
    <3>2. <<>> \o Contents = Contents
      BY <3>1
    <3>3. QED
      BY <1>1, <3>2, Zenon DEF UnderWay
  <2>3. QED
    BY <2>1, <2>2
<1>4. QED
  BY <1>1, <1>3 DEF Stream!vars

LEMMA StreamArrives ==
  ASSUME AccountInv, consumer_process_record
  PROVE  Stream!Arrive
<1>1. /\ UNCHANGED <<seq, InHand, overwritten, log_write_drops, Contents>>
      /\ Unprocessed # <<>> /\ Unprocessed' = Tail(Unprocessed) /\ last_seq' = Head(Unprocessed)
      /\ received' = (received + 1) % Wrap
      /\ lost' = (Head(Unprocessed) - (received + 1)) % Wrap
  BY ProcessEffects DEF InHand, lost_at
<1> DEFINE behind == Contents \o InHand
<1>2. behind \in Seq(Uint32) /\ UnderWay = Unprocessed \o behind
  <2>1. Contents \in Seq(Uint32) /\ InHand \in Seq(Uint32)
    BY StreamTypes
  <2>2. UnderWay = Unprocessed \o behind
    BY StreamTypes, Zenon
  <2>3. QED
    BY <2>1, <2>2
<1>3. UnderWay' = Tail(Unprocessed) \o behind
  <2>1. UnderWay' = Tail(Unprocessed) \o Contents \o InHand
    BY <1>1, Zenon DEF UnderWay
  <2> DEFINE rest == Tail(Unprocessed)
  <2>2. rest \in Seq(Uint32)
    BY <1>1, StreamTypes
  <2> HIDE DEF rest
  <2>3. rest \o Contents \o InHand = rest \o (Contents \o InHand)
    <3>1. Contents \in Seq(Uint32) /\ InHand \in Seq(Uint32)
      BY StreamTypes
    <3>2. \A x, y, z \in Seq(Uint32) : x \o y \o z = x \o (y \o z)
      OBVIOUS
    <3>3. QED
      BY <2>2, <3>1, <3>2, Zenon
  <2>4. QED
    BY <2>1, <2>3, Zenon DEF rest
<1> HIDE DEF behind
<1>4. /\ UnderWay # <<>> /\ Head(UnderWay) = Head(Unprocessed)
      /\ Tail(UnderWay) = Tail(Unprocessed) \o behind
  <2>1. Unprocessed \in Seq(Uint32)
    BY StreamTypes
  <2>2. QED
    BY <1>1, <1>2, <2>1, FirstArrives
<1>5. lost' = (last_seq' - received') % Wrap
  <2>1. /\ Head(Unprocessed) \in Int /\ received + 1 \in Int /\ Wrap \in Nat \ {0}
    <3>1. Head(Unprocessed) \in Uint32
      BY <1>1, StreamTypes
    <3>2. received \in Nat /\ Wrap \in Nat \ {0}
      BY OrderTypes
    <3>3. QED
      BY <3>1, <3>2, Uint32Closed
  <2>2. (Head(Unprocessed) - ((received + 1) % Wrap)) % Wrap
          = (Head(Unprocessed) - (received + 1)) % Wrap
    BY <2>1, ModSub
  <2>3. QED
    BY <1>1, <2>2
<1>6. QED
  BY <1>1, <1>3, <1>4, <1>5 DEF Stream!Arrive

LEMMA StreamGivesUp ==
  ASSUME AccountInv, producer_update_stats
  PROVE  Stream!GiveUpNewest \/ UNCHANGED Stream!vars
<1>1. UNCHANGED <<seq, Unprocessed, Contents, overwritten, received, last_seq, lost>>
  <2>1. UNCHANGED <<seq, Unprocessed, overwritten, received, last_seq, lost>>
    BY DEF producer_update_stats, rbVars, producerLocals, consumerVars, batchVars, drainState,
           Unprocessed
  <2>2. Contents' = Contents
    BY RingUntouched DEF producer_update_stats
  <2>3. QED
    BY <2>1, <2>2
<1>2. InHand' = <<>> /\ log_write_drops' = (log_write_drops + drop) % Wrap
  BY DEF producer_update_stats, InHand, Unwritten
<1>3. /\ Unprocessed \o Contents \in Seq(Uint32) /\ seq \in Uint32
      /\ UnderWay' = (Unprocessed \o Contents) \o <<>>
  BY <1>1, <1>2, StreamTypes, ThreeParts DEF UnderWay
<1>4. CASE write_dropped
  <2>1. UnderWay = (Unprocessed \o Contents) \o <<seq>> /\ drop = 1
    BY <1>4 DEF producer_update_stats, UnderWay, InHand, Unwritten, drop
  <2>2. UnderWay # <<>> /\ UnderWay' = Stream!Without(Len(UnderWay))
    BY <1>3, <2>1, LeavesLast DEF Stream!Without
  <2>3. QED
    BY <1>1, <1>2, <2>1, <2>2 DEF Stream!GiveUpNewest
<1>5. CASE ~write_dropped
  <2>1. UnderWay = (Unprocessed \o Contents) \o <<>> /\ drop = 0
    BY <1>5 DEF producer_update_stats, UnderWay, InHand, Unwritten, drop
  <2>2. log_write_drops' = log_write_drops
    <3>1. log_write_drops \in 0 .. Wrap - 1 /\ Wrap \in Nat \ {0}
      BY StreamTypes DEF AccountInv, FlowInv, FlowTypeOK, ProducerTypeOK, Uint32
    <3>2. log_write_drops % Wrap = log_write_drops
      BY <3>1, ModSmall
    <3>3. QED
      BY <1>2, <2>1, <3>1, <3>2
  <2>3. QED
    BY <1>1, <1>3, <2>1, <2>2 DEF Stream!vars
<1>6. QED
  BY <1>4, <1>5

(* The refinement: the tasks, their mutex and the ring between them behave *)
(* like a stream that delivers samples in the order in which they were     *)
(* taken and gives one up only for want of room in the log or of the       *)
(* mutex, counting each. It holds across the wrap of every counter.        *)
THEOREM FlowImplementsStream == Spec => ImplementsSampleStream
<1>1. Init => Stream!Init
  <2> SUFFICES ASSUME Init PROVE Stream!Init
    OBVIOUS
  <2>1. /\ seq = 0 /\ overwritten = 0 /\ log_write_drops = 0 /\ received = 0 /\ last_seq = 0
        /\ lost = 0 /\ Unprocessed = <<>> /\ InHand = <<>>
    BY DEF Init, ring_buffer_init, Unprocessed, InHand, Unwritten
  <2>2. Contents = <<>>
    <3>1. Len(Contents) = 0 /\ Contents \in Seq(Uint32)
      <4>1. AccountInv
        BY AccountInvInit
      <4>2. ring_buffer_count = 0
        BY ConstantsOK, ModSmall DEF Init, ring_buffer_init, ring_buffer_count
      <4>3. QED
        BY <4>1, <4>2, OrderTypes
    <3>2. QED
      BY <3>1
  <2>3. UnderWay = <<>>
    BY <2>1, <2>2 DEF UnderWay
  <2>4. QED
    BY <2>1, <2>3 DEF Stream!Init
<1>2. AccountInv /\ [Next]_vars => [Stream!Next]_(Stream!vars)
  <2> SUFFICES ASSUME AccountInv, [Next]_vars
               PROVE  [Stream!Next]_(Stream!vars)
    OBVIOUS
  <2>1. CASE UNCHANGED <<rbVars, seq, log_write_drops, Unwritten, received, last_seq, lost,
                         Unprocessed>>
    <3>1. Contents' = Contents /\ overwritten' = overwritten
      BY <2>1, RingUntouched DEF rbVars
    <3>2. UnderWay' = UnderWay
      BY <2>1, <3>1 DEF UnderWay, InHand
    <3>3. QED
      BY <2>1, <3>1, <3>2 DEF Stream!vars
  <2>2. [Step]_vars
    BY NextIsStep
  <2>3. QED
    BY <2>1, <2>2, OrderStep, StreamTakes, StreamPushes, StreamGivesUp, StreamReads,
       StreamArrives, Zenon DEF Stream!Next
<1>3. QED
  BY <1>1, <1>2, AccountInvariant, PTL DEF Spec, ImplementsSampleStream, Stream!Spec
=============================================================================
