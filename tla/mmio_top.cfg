CONSTANTS
  Modulus = 8
  MaxRanges = 2
SPECIFICATION BusSpec
INVARIANTS
  UnmappedFallsThrough
