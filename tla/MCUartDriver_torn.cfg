SPECIFICATION DriverSpec
CONSTANTS
  MaxChar = 4
  Char <- MCChar
  NUL = 0
  Upper <- MCUpper
  ControlVals <- MCControlVals
  StatusVals <- MCNone
  DivisorVals <- MCDivisorVals
  CLK_FREQ = 4
  NANOSECONDS_PER_SECOND = 10
  REG32 = 8
  InitialDivisor = 2
INVARIANT
  BusyMeansTimer
CHECK_DEADLOCK FALSE
