CONSTANTS
  Wrap32 = 262144
  Wrap64 = 16777216
  FullScale = 32
  TempGain = 3937
  TempOffset = 2134
  SupplyScale = 23
  CountsPerSec = 333
  UsecPerSec = 100
  ClockHz = 10000
  Dividers <- MCDividers
  CrvMax = 15
  Block = 4
  Millis <- MCMillis
  Values <- MCValues
  Counts <- MCCounts
  Timeouts <- MCTimeouts
  Capacities <- MCCapacities
SPECIFICATION Spec
INVARIANT PrintedAccurately
INVARIANT TextsReadBack
INVARIANT UptimeExact
INVARIANT TimeoutRight
INVARIANT MaskIsRemainder
