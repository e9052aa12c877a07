SPECIFICATION FairSpec
CONSTANTS
  MaxRuntimes = 2
  MaxGames = 2
  MaxSignals = 2
INVARIANTS
  NothingReachesADeadRuntime
  NothingLeftRegistered
  HostCallsReachTheLiveManager
PROPERTIES
  StopIsHonoured
  ImplementsRounds
