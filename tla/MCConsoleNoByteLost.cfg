CONSTANTS
  FifoLen = 2
  TextLen <- MCTextLen
SPECIFICATION Spec
INVARIANT NoByteLost
CHECK_DEADLOCK FALSE
