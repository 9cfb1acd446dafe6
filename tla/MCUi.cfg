CONSTANTS
  ButtonCount = 1
  DebounceScans = 3
  RxFifoLen = 1
  QueueLen = 1
  MaxScans = 5
  MaxBytes = 2
  MaxErrors = 1
  ScanPeriod = 1
  MaxLate = 1
SPECIFICATION TimedSpec
INVARIANT UiInv
INVARIANT EveryInputAccounted
INVARIANT DebouncedLevelStable
INVARIANT LineErrorsNoticed
INVARIANT HeldLevelSeen
PROPERTY FlipsInTime
