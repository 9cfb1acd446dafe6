--------------------------- MODULE RingBufferCalls ---------------------------
(***************************************************************************)
(* The ring buffer with one caller at a time, which is what                *)
(* sensor_log.c's mutex makes of it: each step is one whole call of        *)
(* ring_buffer.c and leaves what the call returned in result. This is the  *)
(* specification that implements DropOldestQueue.                          *)
(***************************************************************************)
EXTENDS RingBuffer

CONSTANT MaxRecords     \* the largest max_records a caller asks for

ASSUME RBCAssumption == MaxRecords \in Nat

VARIABLE result

rbcVars == <<storage, head, tail, overwritten, fill_high_water, has_newest, result>>

RBCInit ==
  /\ ring_buffer_init
  /\ result = <<>>

CallPush(record) ==
  /\ ring_buffer_push(record)
  /\ result' = <<dropped_oldest>>

CallPop(max_records) ==
  /\ ring_buffer_pop(max_records)
  /\ result' = records_out(max_records)

CallPeek ==
  /\ result' = ring_buffer_peek_newest
  /\ UNCHANGED rbVars

RBCNext ==
  \/ \E record \in Record : CallPush(record)
  \/ \E max_records \in 0 .. MaxRecords : CallPop(max_records)
  \/ CallPeek

RBCSpec == RBCInit /\ [][RBCNext]_rbcVars

-----------------------------------------------------------------------------
(* The calls behave like those of a bounded drop-oldest queue: FIFO order, *)
(* nothing lost but what is counted as overwritten, the newest record      *)
(* still there after it was popped, and the statistics that sensor_log.c   *)
(* derives from head, tail and overwritten true across a counter wrap.     *)
Queue == INSTANCE DropOldestQueue WITH
  queue     <- Contents,
  newest    <- ring_buffer_peek_newest,
  taken     <- records_read,
  discarded <- overwritten,
  peak      <- fill_high_water

ImplementsDropOldestQueue == Queue!Spec
=============================================================================
