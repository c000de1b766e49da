SPECIFICATION DriverSpec
CONSTANTS
  Node = {can0, can1}
  OnBus = {can0, can1}
  can0 = can0
  can1 = can1
  Byte <- MCByte
  Top <- MCBit
  Mid <- MCBit
  Low <- MCBit
  TfiVals <- FrameInfo
  TidVals <- IdWord
  TdaVals <- DataWord
  TdbVals <- DataWord
  IerVals <- MCSubsets
  CmrVals <- MCSubsets
  Messages <- MCMessages
  MaxSent = 3
INVARIANTS
  ReadIsSent
  EachMessageOnce
PROPERTIES
  
  InterruptEnds
  MessageSeen
CHECK_DEADLOCK FALSE
