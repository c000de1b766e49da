SPECIFICATION Spec
CONSTANTS
  Char = {0, 1}
  NUL = 0
  Upper <- MCUpper
  ControlVals <- MCControlVals
  StatusVals <- MCStatusVals
  CLK_FREQ = 4
  NANOSECONDS_PER_SECOND = 10
  REG32 = 8
  DivisorVals <- MCDivisorsAny
INVARIANTS
  TypeOK
  IrqIsLevel
  RxBusyHasTimer
  TimingInSync
PROPERTY
  ErrorsSticky
CHECK_DEADLOCK FALSE
