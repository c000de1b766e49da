SPECIFICATION Spec
CONSTANTS
  N = 2
  Typed <- MCTyped
  Mark = 2
INVARIANTS
  OneTurn
  FrameIsThere
  NoCanOverrun
PROPERTIES
  ImplementsEcho
  TurnsInOrder
  
  
