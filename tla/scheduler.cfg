CONSTANTS
  callback = callback
  none = none
  Callbacks <- MCCallbacks
  NoCallback = none
  Cycles <- MCCycles
  TickMax = 5
  MaxId = 3
SPECIFICATION FairSpec
INVARIANTS
  NoMissedEvent
PROPERTIES
  FiresOnceInOrder
  ImplementsTimers
  EveryEventLeaves
