---------------------------- MODULE Diagnostics -----------------------------
(* The diagnostics of a run, from the counters of the threads to the file  *)
(* that is read again: counting and summing up, the capture with its       *)
(* threads, the verdict, and the report's way through its file.  Each is   *)
(* handed a finished result by the one before, so a behaviour follows one  *)
(* stage, and the others rest.                                             *)
EXTENDS PerfRecorder, DiagnosticsCapture, BottleneckAnalyzer, ReportFile

VARIABLE stage   \* "count", "capture", "analyze" or "report"

diagnosticsVars == <<vars, captureSideVars, analyzerVars, fileVars, stage>>

DiagnosticsInit ==
  /\ Init /\ CaptureInit /\ FileInit
  /\ \/ stage = "analyze" /\ AnalyzerInit
     \/ /\ stage \in {"count", "capture", "report"}
        /\ telemetry = (CHOOSE t \in Telemetries : TRUE) /\ verdict = Unmeasured

DiagnosticsNext ==
  \/ /\ stage = "count"
     /\ Next
     /\ UNCHANGED <<captureSideVars, analyzerVars, fileVars, stage>>
  \/ /\ stage = "capture"
     /\ CaptureNext
     /\ UNCHANGED <<vars, analyzerVars, fileVars, stage>>
  \/ /\ stage = "analyze"
     /\ Analyze
     /\ UNCHANGED <<vars, captureSideVars, fileVars, stage>>
  \/ /\ stage = "report"
     /\ FileNext
     /\ UNCHANGED <<vars, captureSideVars, analyzerVars, stage>>

(* Only the threads of the capture are assumed to go on; at rest none of   *)
(* them has anything to do.                                                *)
DiagnosticsSpec ==
  DiagnosticsInit /\ [][DiagnosticsNext]_diagnosticsVars /\ CaptureFairness
=============================================================================
