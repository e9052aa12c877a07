CONSTANTS
  TickMax = 20
  Callbacks <- Devices
  Charges <- OneOrThreeCycles
  DiscSize = 2
  MemorySize = 2
  CyclesPerSample = 2
  SampleModulus = 4
  StartDelay = 1
  DmaPeriod = 2
  HighUnit = 2
  Guests <- MCGuests
SPECIFICATION FairSpec
INVARIANTS
  NoSpuriousInterrupt
  DmaStreamIsSound
  HandlesMatchQueue
  SampleInterruptOnTime
PROPERTIES
  AidEndsBuffer
  DiscEventsSurvive
  TransferEnds
\* The guest's bounds end a behaviour.
CHECK_DEADLOCK FALSE
