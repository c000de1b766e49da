SPECIFICATION Spec
SYMMETRY Symmetry
CONSTANTS
  Node = {can0, can1}
  OnBus = {can0, can1}
  Byte <- MCByte
  Top <- MCTop
  Mid <- MCBit
  Low <- MCBit
  TfiVals <- MCTfiMail
  TidVals <- MCTidVals
  TdaVals <- MCTdaVals
  TdbVals <- MCTdbVals
  IerVals <- MCIerOff
  CmrVals <- MCCmrVals
PROPERTY
  ImplementsMailboxes
