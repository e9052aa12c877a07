CONSTANTS
  Absent = 4
  Ids = {1, 2, 3, 4}
  Inputs <- MCInputs
  Offers <- MCOffers
  Familiar <- Module
  NoDescriptor = NoDescriptor
  Modulus = 8
  MaxRanges = 2
SPECIFICATION Spec
INVARIANTS
  DependenciesAreLoaded
  NothingIsLeftBehind
  OrderedByDependenciesThenPath
  AcceptsExactlyLoadable
  TheModuleIsSound
  AccessesReachTheirDevice
