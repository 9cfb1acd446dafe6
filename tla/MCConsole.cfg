CONSTANTS
  FifoLen = 2
  TextLen <- MCTextLen
SPECIFICATION Spec
CHECK_DEADLOCK FALSE
INVARIANT ConsoleInv
INVARIANT ConsumerLosesOneByte
INVARIANT AlarmsWhole
