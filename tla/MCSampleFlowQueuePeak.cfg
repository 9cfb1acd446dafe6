CONSTANTS
  blank = blank
  Capacity = 2
  Wrap = 8
  Record <- MCRecord
  Blank = blank
  ReadBatch = 1
  DrainBatchesMax = 2
  QueueLen = 1
  Prio <- AppPrio
  MaxTicks = 4
  MaxKeys = 2
  MaxTimeouts = 1
SPECIFICATION Spec
INVARIANT QueuePeakWithinLength
