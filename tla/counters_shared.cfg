CONSTANTS
  Threads = {t1, t2, t3}
  MaxThreadStates = 2
  MaxDelta = 2
  MaxCount = 2
SPECIFICATION Spec
INVARIANT NothingLost
CHECK_DEADLOCK FALSE
