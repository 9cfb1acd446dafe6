CONSTANTS
  blank = blank
  Capacity = 2
  Wrap = 8
  Record <- MCRecord
  Blank = blank
  ReadBatch = 1
  DrainBatchesMax = 2
  QueueLen = 1
  Prio <- AppPrio
  MaxTicks = 3
  MaxKeys = 2
  MaxTimeouts = 1
SPECIFICATION FairSpec
INVARIANT FlowInv
INVARIANT NoLostWakeup
INVARIANT NothingUncounted
INVARIANT LogStatsTrue
INVARIANT InOrder
INVARIANT LastStoredArrives
INVARIANT LossesReal
INVARIANT PrintedCountsAgree
INVARIANT ReadsNeverTimeOut
PROPERTY NoInversion
PROPERTY ImplementsSampleStream
PROPERTY LogDrains
