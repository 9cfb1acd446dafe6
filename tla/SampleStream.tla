---------------------------- MODULE SampleStream ----------------------------
(***************************************************************************)
(* What the firmware promises about its samples, without tasks, locks,     *)
(* doorbells or slots: they are numbered as they are taken, stay in a row  *)
(* while under way and arrive in that order, each at most once. Only two   *)
(* things take a sample out of the row: room is made for a new one, at the *)
(* expense of the one older than the Capacity newest, or the newest is     *)
(* given up because it could not be stored. Either is counted, and each    *)
(* arrival shows how many are missing by then (docs/stage-3-ringbuffer-    *)
(* sync.md).                                                               *)
(***************************************************************************)
EXTENDS Naturals, Sequences

CONSTANTS Capacity,     \* samples the log can hold
          Batch,        \* samples handed out by one read of it
          Wrap          \* numbers and counts are modulo Wrap

VARIABLES taken,        \* the number of the newest sample
          under_way,    \* the numbers taken that may still arrive, oldest first
          made_room,    \* given up for a newer one
          not_stored,   \* given up as the newest
          arrived, last, \* how many arrived, and the number of the last
          missing       \* how many should have arrived before it, but did not

vars == <<taken, under_way, made_room, not_stored, arrived, last, missing>>

Init ==
  /\ taken = 0 /\ under_way = <<>>
  /\ made_room = 0 /\ not_stored = 0
  /\ arrived = 0 /\ last = 0 /\ missing = 0

Without(i) == SubSeq(under_way, 1, i - 1) \o SubSeq(under_way, i + 1, Len(under_way))

TakeSample ==
  /\ Len(under_way) <= Batch + Capacity
  /\ taken' = (taken + 1) % Wrap
  /\ under_way' = Append(under_way, taken')
  /\ UNCHANGED <<made_room, not_stored, arrived, last, missing>>

\* those older still have been handed out and are safe
MakeRoom ==
  /\ \E i \in 1 .. Batch + 1 :
       /\ Len(under_way) = Capacity + i
       /\ under_way' = Without(i)
  /\ made_room' = (made_room + 1) % Wrap
  /\ UNCHANGED <<taken, not_stored, arrived, last, missing>>

GiveUpNewest ==
  /\ under_way # <<>>
  /\ under_way' = Without(Len(under_way))
  /\ not_stored' = (not_stored + 1) % Wrap
  /\ UNCHANGED <<taken, made_room, arrived, last, missing>>

Arrive ==
  /\ under_way # <<>>
  /\ under_way' = Tail(under_way)
  /\ last' = Head(under_way)
  /\ arrived' = (arrived + 1) % Wrap
  /\ missing' = (last' - arrived') % Wrap
  /\ UNCHANGED <<taken, made_room, not_stored>>

Next == TakeSample \/ MakeRoom \/ GiveUpNewest \/ Arrive

Spec == Init /\ [][Next]_vars
=============================================================================
