\* Settings, extraction and module cache, one at a time.
SPECIFICATION Spec
CONSTANTS
  Devices = {pad1, pad2, pad3}
  Unwritable = {pad3}
  Cuts = {0, 2}
  DeviceCuts = {0, 1}
  MaxEdits = 3
  MaxExtractions = 2
  MaxCrashes = 1
  Dols = {original, patched}
  Toolsets = {clang, gcc}
  Missing = Missing
  Torn = Torn
  NoKey = NoKey
  MaxBuilds = 3
  MaxExchanges = 2
  MaxInterruptions = 1
INVARIANTS
  ShownIsSaved
  PadsAreMapped
  WhatIsPlayedIsValid
  CacheIsKeyed
PROPERTIES
  AValidGameIsKept
\* A player closes the launcher, and the bounds end.
CHECK_DEADLOCK FALSE
