----------------------------- MODULE RingBuffer -----------------------------
(***************************************************************************)
(* datalog/ring_buffer.c: the state of a ring_buffer_t and what each of    *)
(* its functions does to it. The functions are actions, so that a caller   *)
(* composes them with what it does itself (RingBufferCalls, SampleFlow).   *)
(*                                                                         *)
(* head and tail are free-running uint32_t counters: they wrap at Wrap     *)
(* (2^32 in the program) and are never reset to an index.                  *)
(* ring_buffer_init rejects a Capacity that is not a power of two, so it   *)
(* divides 2^32 and masking with capacity - 1 is the remainder modulo      *)
(* Capacity; RBAssumption is what is left of those two facts.              *)
(***************************************************************************)
EXTENDS Integers, Sequences

CONSTANTS Capacity,     \* rb->capacity
          Wrap,         \* values of a uint32_t
          Record,       \* the records that may be pushed
          Blank         \* what an unused slot of the .bss storage holds

ASSUME RBAssumption ==
  /\ Capacity \in Nat \ {0}
  /\ Wrap \in Nat
  /\ Wrap >= 2 * Capacity
  /\ Wrap % Capacity = 0

VARIABLES storage, head, tail, overwritten, fill_high_water, has_newest

rbVars == <<storage, head, tail, overwritten, fill_high_water, has_newest>>

Uint32 == 0 .. Wrap - 1

\* counter & index_mask
Slot(counter) == (counter % Wrap) % Capacity

ring_buffer_count == (head - tail) % Wrap

ring_buffer_init ==
  /\ storage = [s \in 0 .. Capacity - 1 |-> Blank]
  /\ head = 0
  /\ tail = 0
  /\ overwritten = 0
  /\ fill_high_water = 0
  /\ has_newest = FALSE

-----------------------------------------------------------------------------
(* ring_buffer_push returns dropped_oldest: whether it had to make room.   *)

\* mutant: room is made one record too late
FullTooLate == ring_buffer_count > Capacity

dropped_oldest == ring_buffer_count = Capacity

\* mutant: the record given up is not counted
GiveUpUncounted ==
  /\ dropped_oldest
  /\ tail' = (tail + 1) % Wrap
  /\ overwritten' = overwritten

GiveUpOldest ==
  /\ dropped_oldest
  /\ tail' = (tail + 1) % Wrap
  /\ overwritten' = (overwritten + 1) % Wrap

KeepOldest ==
  /\ ~dropped_oldest
  /\ UNCHANGED <<tail, overwritten>>

RaiseHighWater(fill) ==
  fill_high_water' = IF fill > fill_high_water THEN fill ELSE fill_high_water

ring_buffer_push(record) ==
  /\ GiveUpOldest \/ KeepOldest
  /\ storage' = [storage EXCEPT ![Slot(head)] = record]
  /\ head' = (head + 1) % Wrap
  /\ has_newest' = TRUE
  /\ RaiseHighWater((head' - tail') % Wrap)

-----------------------------------------------------------------------------
(* ring_buffer_pop copies the oldest records out and then moves tail. The  *)
(* two parts are named apart because another task could run between them   *)
(* if the caller's lock did not prevent it.                                *)

pop_count(max_records) ==
  IF ring_buffer_count > max_records THEN max_records ELSE ring_buffer_count

records_out(max_records) ==
  [idx \in 1 .. pop_count(max_records) |-> storage[Slot(tail + idx - 1)]]

ReleaseOldest(count) ==
  /\ tail' = (tail + count) % Wrap
  /\ UNCHANGED <<storage, head, overwritten, fill_high_water, has_newest>>

ring_buffer_pop(max_records) == ReleaseOldest(pop_count(max_records))

\* mutant: looks at the slot that is written next
NextSlot == IF has_newest THEN <<storage[Slot(head)]>> ELSE <<>>

\* <<record>>, or <<>> when nothing was ever pushed
ring_buffer_peek_newest ==
  IF has_newest THEN <<storage[Slot(head - 1)]>> ELSE <<>>

\* mutant: what was overwritten counts as read
ReadOrOverwritten == tail

\* sensor_log_get_stats: stats_out->read
records_read == (tail - overwritten) % Wrap

-----------------------------------------------------------------------------
RBTypeOK ==
  /\ storage \in [0 .. Capacity - 1 -> Record \cup {Blank}]
  /\ head \in Uint32
  /\ tail \in Uint32
  /\ overwritten \in Uint32
  /\ fill_high_water \in Uint32
  /\ has_newest \in BOOLEAN

(* The counters never drift further apart than the storage is long, also   *)
(* across a wrap, and the high-water mark covers the present fill: what    *)
(* makes head - tail a fill level and every index a slot.                  *)
FillWithinCapacity ==
  /\ ring_buffer_count <= Capacity
  /\ ring_buffer_count <= fill_high_water
  /\ fill_high_water <= Capacity

(* The inductive invariant of the calls: with a type alone the fill level  *)
(* could leave the bounds after a wrap, and the high-water mark its type.  *)
RBInv == RBTypeOK /\ FillWithinCapacity

(* The records waiting, oldest first. *)
Contents == records_out(Capacity)
=============================================================================
