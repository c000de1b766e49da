SPECIFICATION DisciplinedFairSpec
CONSTANTS
  Char = {0, 1}
  NUL = 0
  Upper <- MCUpper
  ControlVals <- MCControlFew
  StatusVals <- MCStatusVals
  CLK_FREQ = 4
  NANOSECONDS_PER_SECOND = 10
  REG32 = 8
  DivisorVals <- MCDivisorsGood
INVARIANT
  FlagsMatchTimers
PROPERTY
  ImplementsPort
