CONSTANTS
  MaxUnit = 65535
  Fields <- MCFields
  ArrayLength = 3
  CpRegisters <- MCCpRegisters
  BpRegisters <- MCBpRegisters
  XfSize = 3
  Bits <- MCBits
  BitsOf <- MCBitsOf
  XfMemory <- MCXfMemory
  MaxAddress = 3
  Programs <- MCPrograms
  DisplayLists <- MCDisplayLists
  Alignment = 2
  MaxDisplayListDepth = 3
  ChunkSizes = {1, 3, 8}
SPECIFICATION Spec
INVARIANTS
  AsIfWrittenAtOnce
  DrawsAreSound
PROPERTY
  DecodingProgresses
