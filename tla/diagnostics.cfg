CONSTANTS
  Threads = {t1, t2}
  MaxThreadStates = 2
  MaxDelta = 2
  MaxCount = 3
  HistoryFrames = 2
  TimeLimit = 2
  FrameModulus = 3
  MaxCaptures = 1
  MaxRuntimes = 1
  Telemetries <- MCTelemetries
  Unmeasured = Unmeasured
  Reports <- MCReports
  SchemaVersion = 1
  MaxWritings = 2
SPECIFICATION DiagnosticsSpec
INVARIANTS
  CountsOfOwner
  FramesAddUp
  OneReportPerCapture
  BuffersHoldTheirOwn
  VerdictFollowsTheEvidence
  ReadBackWholeOrRefused
PROPERTIES
  EveryTimedCaptureEnds
  DestructionReturns
\* Threads stop counting, a run ends and a report is read: the bounds end.
CHECK_DEADLOCK FALSE
