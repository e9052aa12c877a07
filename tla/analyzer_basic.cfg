CONSTANTS
  Threads = {t1, t2}
  MaxThreadStates = 2
  MaxCount = 3
  MaxDelta = 2
  HistoryFrames = 2
  TimeLimit = 2
  FrameModulus = 3
  MaxCaptures = 1
  MaxRuntimes = 1
  Telemetries <- MCTelemetries
  Unmeasured = Unmeasured
  Reports <- MCReports
  SchemaVersion = 1
  MaxWritings = 2
SPECIFICATION DiagnosticsSpec
INVARIANTS
  BasicAttributesNothing
CHECK_DEADLOCK FALSE
