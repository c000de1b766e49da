SPECIFICATION Spec
CONSTANTS
  Node = {can0, can1}
  OnBus = {can0, can1}
  Byte <- MCByte
  Top <- MCTop
  Mid <- MCBit
  Low <- MCBit
  TfiVals <- MCTfiVals
  TidVals <- MCTidVals
  TdaVals <- MCTdaVals
  TdbVals <- MCTdbVals
  IerVals <- MCIerVals
  CmrVals <- MCCmrVals
PROPERTY
  IdOfFormat
