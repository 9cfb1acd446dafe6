-------------------------- MODULE DropOldestQueue --------------------------
(***************************************************************************)
(* What the ring buffer promises its callers, without counters, slots or   *)
(* wrap-around: a first-in first-out queue of at most Capacity records     *)
(* that makes room by giving up its oldest record, counts what it gave up, *)
(* remembers the newest record even after it was taken, and reports what   *)
(* each call returned.                                                     *)
(*                                                                         *)
(* It is the reference model that tests/host/test_ring_buffer.c compares   *)
(* the code with, stated as a specification.                               *)
(***************************************************************************)
EXTENDS Naturals, Sequences

CONSTANTS Capacity,     \* records the queue can hold
          Record,       \* the records that may be put in
          Wrap          \* the statistics count modulo Wrap

VARIABLES queue,        \* the records waiting, oldest first
          newest,       \* <<r>> once r was put in last, <<>> before the first
          taken,        \* records handed out, modulo Wrap
          discarded,    \* records given up to make room, modulo Wrap
          peak,         \* the longest the queue has been
          result        \* what the last call returned

vars == <<queue, newest, taken, discarded, peak, result>>

Longer(m, n) == IF m > n THEN m ELSE n

Init ==
  /\ queue = <<>>
  /\ newest = <<>>
  /\ taken = 0
  /\ discarded = 0
  /\ peak = 0
  /\ result = <<>>

PutInRoom(r) ==
  /\ Len(queue) < Capacity
  /\ queue' = Append(queue, r)
  /\ discarded' = discarded
  /\ result' = <<FALSE>>

PutOverOldest(r) ==
  /\ Len(queue) = Capacity
  /\ queue' = Append(Tail(queue), r)
  /\ discarded' = (discarded + 1) % Wrap
  /\ result' = <<TRUE>>

Put(r) ==
  /\ PutInRoom(r) \/ PutOverOldest(r)
  /\ newest' = <<r>>
  /\ peak' = Longer(peak, Len(queue'))
  /\ taken' = taken

Take(k) ==
  /\ k \in 0 .. Len(queue)
  /\ result' = SubSeq(queue, 1, k)
  /\ queue' = SubSeq(queue, k + 1, Len(queue))
  /\ taken' = (taken + k) % Wrap
  /\ UNCHANGED <<newest, discarded, peak>>

Peek ==
  /\ result' = newest
  /\ UNCHANGED <<queue, newest, taken, discarded, peak>>

Next ==
  \/ \E r \in Record : Put(r)
  \/ \E k \in 0 .. Capacity : Take(k)
  \/ Peek

Spec == Init /\ [][Next]_vars
=============================================================================
