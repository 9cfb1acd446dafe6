CONSTANTS
  r1 = r1
  r2 = r2
  r3 = r3
  blank = blank
  Capacity = 4
  Wrap = 8
  Record <- MCRecord
  Blank = blank
  MaxRecords = 5
SPECIFICATION RBCSpec
INVARIANT RBInv
PROPERTY ImplementsDropOldestQueue
