SPECIFICATION Spec
CONSTANTS
  Irq <- MCIrq
  Watched = 16
  Internal <- MCInternal
  Settings <- MCSettings
  PrioStep = 16
  Groups <- MCGroups
  Basepris <- MCBasepris
INVARIANTS
  CacheExact
  OutputCovers
  AssertionsHold
  NoReentry
  Nested
PROPERTIES
  EntryIsDue
  LineLatches
CHECK_DEADLOCK FALSE
