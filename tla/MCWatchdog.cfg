CONSTANTS
  ClientCount = 2
  Ui = 0
  Consumer = 1
  limit_ms <- MCLimits
  TickRateHz = 1000
  CheckPeriod = 2
  Timeout = 5
  PassTicks = 1
  StartTicks = 1
  Wrap = 12
  TestCommands = TRUE
SPECIFICATION FairSpec
INVARIANT NoFalseAlarm
INVARIANT ResetOnlyForAReason
INVARIANT SilenceEndsInReset
PROPERTY NoSecondChance
PROPERTY HangEndsInReset
