SPECIFICATION Spec
SYMMETRY Symmetry
CONSTANTS
  Node = {can0, can1, can2, apart}
  OnBus = {can0, can1, can2}
  Byte <- MCByte
  Top <- MCTop
  Mid <- MCBit
  Low <- MCBit
  TfiVals <- MCNone
  TidVals <- MCNone
  TdaVals <- MCNone
  TdbVals <- MCNone
  IerVals <- MCIerVals
  CmrVals <- MCCmrVals
INVARIANTS
  TypeOK
  IrqFollowsReceive
