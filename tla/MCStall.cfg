CONSTANTS
  StallTicks = 4
  LoopTicks = 3
  ReadTicks = 1
  Wrap = 9
  SampleWrap = 3
SPECIFICATION Spec
INVARIANT StallsReported
PROPERTY WarningsTrue
