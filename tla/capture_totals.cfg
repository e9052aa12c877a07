CONSTANTS
  HistoryFrames = 1
  TimeLimit = 2
  FrameModulus = 2
  MaxCaptures = 2
  MaxRuntimes = 1
SPECIFICATION CaptureSpec
INVARIANT TotalsAreTheCaptures
CHECK_DEADLOCK FALSE
