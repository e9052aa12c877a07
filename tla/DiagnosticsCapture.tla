------------------------- MODULE DiagnosticsCapture -------------------------
(***************************************************************************)
(* The capture side of Diagnostics and the threads that meet in it: the    *)
(* present thread ends frames and stops a capture whose time is up, the    *)
(* runner's console thread toggles captures and saves the history, the     *)
(* sampler thread collects guest PCs, and the host thread creates, runs    *)
(* and destroys the Runtime.                                               *)
(*                                                                         *)
(* A step is one critical section of Diagnostics' mutex, of a TraceBuffer  *)
(* or of the hotspot mutex: the code releases one before it takes the next.*)
(* In the capture buffer a frame is the capture it was measured in (0:     *)
(* none), in the history it is its number, and of the events only the      *)
(* capture's start is kept.  Left out: what a report is computed to say,   *)
(* RecordEvent, which offers an event to the two buffers as EndFrame does  *)
(* a frame, the log, and the disabled configuration.                       *)
(***************************************************************************)
EXTENDS Integers, Sequences

CONSTANTS
  HistoryFrames,  \* capacity of the rolling history's frame ring
  TimeLimit,      \* capture_seconds, in frames; 0: until the user stops it
  FrameModulus,   \* bound: frames are numbered modulo FrameModulus
  MaxCaptures,    \* bound: the console starts no capture after this many
  MaxRuntimes     \* bound: Runtimes created one after the other

ASSUME CapacityAssumption == HistoryFrames \in Nat \ {0}
ASSUME BoundAssumption ==
  /\ FrameModulus \in Nat /\ FrameModulus > HistoryFrames
  /\ {TimeLimit, MaxCaptures, MaxRuntimes} \subseteq Nat

VARIABLES
  initialized,  \* m_impl->initialized
  capturing,    \* m_impl->capturing
  captureNo,    \* captures started so far: names the capture capture_start, the
                \* baselines and the hotspots are reset for
  age,          \* now - capture_start, in frames, as far as TimeLimit
  frameNo,      \* number of the next frame
  capture,      \* m_impl->capture: its frames, and whose start its events hold
  history,      \* m_impl->history: the numbers of its frames
  hotspots,     \* m_impl->hotspots: the captures (0: none) the samples were read in
  pc, local,    \* where each thread is, and its locals there
  sampler,      \* where the sampler thread is
  toSample,     \* the accumulators with a guest PC it has still to read
  sampled,      \* its local pc: the capture it was read in
  stopRequested,\* the sampler's stop token
  runtimes,     \* Runtimes created
  reports       \* the reports of captures, written (ok) or failed

captureSideVars == <<initialized, capturing, captureNo, age, frameNo, capture, history, hotspots,
          pc, local, sampler, toSample, sampled, stopRequested, runtimes, reports>>
captureVars == <<capturing, captureNo, age, capture>>
samplerVars == <<sampler, toSample, sampled>>
hostVars == <<initialized, samplerVars, stopRequested, runtimes>>

Actors == {"present", "console", "host"}
NoCapture == [frames |-> {}, start |-> 0]
NoLocals == [frame |-> [n |-> 0, of |-> 0], expired |-> FALSE, no |-> 0,
             frames |-> {}, start |-> 0]

(* The ring of the history stays within its capacity.                      *)
CaptureTypeOK ==
  /\ capturing \in BOOLEAN /\ initialized \in BOOLEAN
  /\ captureNo \in Nat /\ age \in 0 .. TimeLimit /\ frameNo \in 0 .. FrameModulus - 1
  /\ capture \in [frames : SUBSET (0 .. captureNo), start : 0 .. captureNo]
  /\ Len(history) <= HistoryFrames
  /\ \A i \in 1 .. Len(history) : history[i] \in 0 .. FrameModulus - 1
  /\ hotspots \subseteq 0 .. captureNo
  /\ sampler \in {"none", "sleep", "sample", "count"}
  /\ toSample \in 0 .. runtimes /\ sampled \in 0 .. captureNo
  /\ pc \in [Actors ->
       {"idle", "pushHistory", "ask", "pushFrame", "stop", "frames", "events", "write",
        "start", "off", "created", "running", "stopping", "stopped", "shutdown", "joining"}]

-----------------------------------------------------------------------------
(* RingBuffer::Push: a full ring loses its oldest entry.                   *)
PushEntry(ring, x) == Append(IF Len(ring) < HistoryFrames THEN ring ELSE Tail(ring), x)

Running == IF capturing THEN captureNo ELSE 0

GoTo(t, label) == pc' = [pc EXCEPT ![t] = label]
(* The label after StopCapture or StartCapture returned in thread t.       *)
Return(t) ==
  /\ pc' = [pc EXCEPT ![t] = CASE t = "host" /\ pc[t] = "start" -> "running"
                              [] t = "host" /\ pc[t] # "start" -> "shutdown"
                              [] OTHER -> "idle"]
  /\ local' = [local EXCEPT ![t] = NoLocals]

CaptureInit ==
  /\ initialized = FALSE /\ capturing = FALSE /\ captureNo = 0 /\ age = 0 /\ frameNo = 0
  /\ capture = NoCapture /\ history = <<>> /\ hotspots = {}
  /\ pc = [t \in Actors |-> IF t = "host" THEN "off" ELSE "idle"]
  /\ local = [t \in Actors |-> NoLocals]
  /\ sampler = "none" /\ toSample = 0 /\ sampled = 0
  /\ stopRequested = FALSE /\ runtimes = 0
  /\ reports = {}

-----------------------------------------------------------------------------
(* EndFrame, on the present thread while Run is inside the main loop.      *)
Expired(elapsed) == capturing /\ TimeLimit > 0 /\ elapsed >= TimeLimit

(* A plausible bug: the length of the last frame, not of the capture.      *)
MeasureByFrame ==
  /\ pc["present"] = "idle" /\ pc["host"] = "running" /\ initialized
  /\ local' = [local EXCEPT !["present"].frame = [n |-> frameNo, of |-> Running],
                            !["present"].expired = Expired(1)]
  /\ age' = IF capturing /\ age < TimeLimit THEN age + 1 ELSE age
  /\ frameNo' = (frameNo + 1) % FrameModulus
  /\ GoTo("present", "pushHistory")
  /\ UNCHANGED <<hostVars, capturing, captureNo, capture, history, hotspots, reports>>

Measure ==
  /\ pc["present"] = "idle" /\ pc["host"] = "running" /\ initialized
  /\ age' = IF capturing /\ age < TimeLimit THEN age + 1 ELSE age
  /\ local' = [local EXCEPT !["present"].frame = [n |-> frameNo, of |-> Running],
                            !["present"].expired = Expired(age')]
  /\ frameNo' = (frameNo + 1) % FrameModulus
  /\ GoTo("present", "pushHistory")
  /\ UNCHANGED <<hostVars, capturing, captureNo, capture, history, hotspots, reports>>

(* A plausible bug: while a capture runs the frame goes to it alone.       *)
PushHistoryUnlessCapturing ==
  /\ pc["present"] = "pushHistory"
  /\ history' = IF capturing THEN history
                ELSE PushEntry(history, local["present"].frame.n)
  /\ GoTo("present", "ask")
  /\ UNCHANGED <<hostVars, captureVars, local, frameNo, hotspots, reports>>

PushHistory ==
  /\ pc["present"] = "pushHistory"
  /\ history' = PushEntry(history, local["present"].frame.n)
  /\ GoTo("present", "ask")
  /\ UNCHANGED <<hostVars, captureVars, local, frameNo, hotspots, reports>>

AfterFrame == IF local["present"].expired THEN "stop" ELSE "idle"

(* IsCapturing is a critical section of its own, before PushFrame's.       *)
AskCapturing ==
  /\ pc["present"] = "ask"
  /\ GoTo("present", IF capturing THEN "pushFrame" ELSE AfterFrame)
  /\ UNCHANGED <<hostVars, captureVars, history, local, frameNo, hotspots, reports>>

PushFrame ==
  /\ pc["present"] = "pushFrame"
  /\ capture' = [capture EXCEPT !.frames = @ \cup {local["present"].frame.of}]
  /\ GoTo("present", AfterFrame)
  /\ UNCHANGED <<hostVars, capturing, captureNo, age, history, local, frameNo, hotspots, reports>>

-----------------------------------------------------------------------------
(* StartCapture and StopCapture, on any thread that got there.             *)

(* A plausible bug: the profile of the last capture is kept.               *)
StartCaptureKeepingHotspots(t) ==
  /\ pc[t] = "start"
  /\ IF capturing THEN UNCHANGED captureVars
     ELSE /\ capturing' = TRUE
          /\ captureNo' = captureNo + 1
          /\ age' = 0
          /\ capture' = [frames |-> {}, start |-> captureNo']
  /\ Return(t)
  /\ UNCHANGED <<hostVars, history, frameNo, hotspots, reports>>

StartCapture(t) ==
  /\ pc[t] = "start"
  /\ IF capturing THEN UNCHANGED <<captureVars, hotspots>>
     ELSE /\ capturing' = TRUE
          /\ captureNo' = captureNo + 1
          /\ age' = 0
          /\ capture' = [frames |-> {}, start |-> captureNo']
          /\ hotspots' = {}
  /\ Return(t)
  /\ UNCHANGED <<hostVars, history, frameNo, reports>>

(* A plausible bug: trusting the IsCapturing its caller has just asked.    *)
StopCaptureUnchecked(t) ==
  /\ pc[t] = "stop"
  /\ capturing' = FALSE
  /\ local' = [local EXCEPT ![t].no = captureNo]
  /\ GoTo(t, "frames")
  /\ UNCHANGED <<hostVars, captureNo, age, capture, history, frameNo, hotspots, reports>>

StopCapture(t) ==
  /\ pc[t] = "stop"
  /\ IF capturing THEN /\ local' = [local EXCEPT ![t].no = captureNo]
                       /\ GoTo(t, "frames")
                  ELSE Return(t)
  /\ capturing' = FALSE
  /\ UNCHANGED <<hostVars, captureNo, age, capture, history, frameNo, hotspots, reports>>

TakeFrames(t) ==
  /\ pc[t] = "frames"
  /\ local' = [local EXCEPT ![t].frames = capture.frames]
  /\ GoTo(t, "events")
  /\ UNCHANGED <<hostVars, captureVars, history, frameNo, hotspots, reports>>

TakeEvents(t) ==
  /\ pc[t] = "events"
  /\ local' = [local EXCEPT ![t].start = capture.start]
  /\ GoTo(t, "write")
  /\ UNCHANGED <<hostVars, captureVars, history, frameNo, hotspots, reports>>

(* Reports of captures are kept, those of the history (no = 0) are not.    *)
(* The file may fail to be written: the result says so to the console, and *)
(* to nobody when a frame or the destructor stopped the capture.  A report *)
(* counts as written also when one of the same second, and so of the same  *)
(* name, then takes its place.                                             *)
CaptureReport(t, ok) ==
  IF ok THEN [no |-> local[t].no, frames |-> local[t].frames, start |-> local[t].start, ok |-> TRUE]
        ELSE [no |-> local[t].no, frames |-> {}, start |-> 0, ok |-> FALSE]
WriteCapture(t) ==
  /\ pc[t] = "write"
  /\ \E ok \in BOOLEAN :
       reports' = IF local[t].no = 0 THEN reports ELSE reports \cup {CaptureReport(t, ok)}
  /\ Return(t)
  /\ UNCHANGED <<hostVars, captureVars, history, frameNo, hotspots>>

-----------------------------------------------------------------------------
(* The console thread, under the console's lock for a whole command: it    *)
(* holds a Runtime from Create until Run has returned.                     *)
ConsoleHasRuntime == pc["host"] \in {"created", "start", "running", "stopping", "stopped"}

ToggleDiagnosticsCapture ==
  /\ pc["console"] = "idle" /\ ConsoleHasRuntime
  /\ \/ capturing /\ GoTo("console", "stop")
     \/ ~capturing /\ captureNo < MaxCaptures /\ GoTo("console", "start")
  /\ UNCHANGED <<hostVars, captureVars, history, local, frameNo, hotspots, reports>>

(* What the history report holds is the history: it is not kept here.      *)
SaveHistory ==
  /\ pc["console"] = "idle" /\ ConsoleHasRuntime /\ initialized
  /\ GoTo("console", "write")
  /\ UNCHANGED <<hostVars, captureVars, history, local, frameNo, hotspots, reports>>

-----------------------------------------------------------------------------
(* The sampler thread.  Every Runtime's guest thread may have left a guest *)
(* PC in its accumulator, which the registry keeps when the thread is gone.*)
SamplerWake ==
  /\ sampler = "sleep" /\ ~stopRequested /\ capturing
  /\ sampler' = "sample"
  /\ toSample' \in 1 .. runtimes
  /\ UNCHANGED <<initialized, sampled, stopRequested, runtimes>>
  /\ UNCHANGED <<captureVars, history, frameNo, hotspots, pc, local, reports>>

(* The PC is read under no lock, ...                                       *)
SamplerRead ==
  /\ sampler = "sample"
  /\ sampler' = "count"
  /\ sampled' = Running
  /\ UNCHANGED <<initialized, toSample, stopRequested, runtimes>>
  /\ UNCHANGED <<captureVars, history, frameNo, hotspots, pc, local, reports>>

(* ... and counted under the lock of the hotspots, which may have been     *)
(* cleared in between.                                                     *)
SamplerCount ==
  /\ sampler = "count"
  /\ hotspots' = hotspots \cup {sampled}
  /\ sampled' = 0
  /\ toSample' = toSample - 1
  /\ sampler' = IF toSample > 1 THEN "sample" ELSE "sleep"
  /\ UNCHANGED <<initialized, stopRequested, runtimes>>
  /\ UNCHANGED <<captureVars, history, frameNo, pc, local, reports>>

SamplerExit ==
  /\ sampler = "sleep" /\ stopRequested
  /\ sampler' = "none"
  /\ UNCHANGED <<initialized, toSample, sampled, stopRequested, runtimes>>
  /\ UNCHANGED <<captureVars, history, frameNo, hotspots, pc, local, reports>>

-----------------------------------------------------------------------------
(* The host thread: Create, Run, ~Runtime.                                 *)
Initialize ==
  /\ pc["host"] = "off" /\ runtimes < MaxRuntimes
  /\ initialized' = TRUE
  /\ capturing' = FALSE /\ capture' = NoCapture /\ history' = <<>> /\ hotspots' = {}
  /\ sampler' = "sleep" /\ stopRequested' = FALSE
  /\ runtimes' = runtimes + 1
  /\ GoTo("host", "created")
  /\ UNCHANGED <<captureNo, age, frameNo, local, toSample, sampled, reports>>

(* A capture starts on boot when it is asked for or timed.                 *)
RunStarts ==
  /\ pc["host"] = "created"
  /\ \/ GoTo("host", "start")
     \/ TimeLimit = 0 /\ GoTo("host", "running")
  /\ UNCHANGED <<hostVars, captureVars, history, local, frameNo, hotspots, reports>>

RequestStop ==
  /\ pc["host"] = "running"
  /\ GoTo("host", "stopping")
  /\ UNCHANGED <<hostVars, captureVars, history, local, frameNo, hotspots, reports>>

(* Core::Shutdown joins the thread that presents.                          *)
RunReturns ==
  /\ pc["host"] = "stopping"
  /\ pc["present"] = "idle"
  /\ GoTo("host", "stopped")
  /\ local' = [local EXCEPT !["present"] = NoLocals]
  /\ UNCHANGED <<hostVars, captureVars, history, frameNo, hotspots, reports>>

(* The runner takes the Runtime away from the console, then destroys it.   *)
ClearConsole ==
  /\ pc["host"] = "stopped" /\ pc["console"] = "idle"
  /\ GoTo("host", IF capturing THEN "stop" ELSE "shutdown")
  /\ UNCHANGED <<hostVars, captureVars, history, local, frameNo, hotspots, reports>>

(* A plausible bug: joining the sampler without asking it to stop.         *)
ShutdownWithoutRequest ==
  /\ pc["host"] = "shutdown"
  /\ GoTo("host", "joining")
  /\ UNCHANGED <<hostVars, captureVars, history, local, frameNo, hotspots, reports>>

Shutdown ==
  /\ pc["host"] = "shutdown"
  /\ stopRequested' = TRUE
  /\ GoTo("host", "joining")
  /\ UNCHANGED <<initialized, samplerVars, runtimes, captureVars, history, local,
                 frameNo, hotspots, reports>>

(* A plausible bug: clearing everything while the sampler finishes.        *)
ClearBeforeJoin ==
  /\ pc["host"] = "joining"
  /\ capturing' = FALSE /\ initialized' = FALSE
  /\ history' = <<>> /\ capture' = NoCapture /\ hotspots' = {}
  /\ GoTo("host", "off")
  /\ UNCHANGED <<captureNo, age, frameNo, local, samplerVars, stopRequested, runtimes, reports>>

ClearAfterJoin ==
  /\ pc["host"] = "joining" /\ sampler = "none"
  /\ capturing' = FALSE /\ initialized' = FALSE
  /\ history' = <<>> /\ capture' = NoCapture /\ hotspots' = {}
  /\ GoTo("host", "off")
  /\ UNCHANGED <<captureNo, age, frameNo, local, samplerVars, stopRequested, runtimes, reports>>

-----------------------------------------------------------------------------
PresentNext == Measure \/ PushHistory \/ AskCapturing \/ PushFrame
SamplerNext == SamplerWake \/ SamplerRead \/ SamplerCount \/ SamplerExit
StopNext(t) == StopCapture(t) \/ TakeFrames(t) \/ TakeEvents(t) \/ WriteCapture(t)
ConsoleCommand == ToggleDiagnosticsCapture \/ SaveHistory
HostNext == RunStarts \/ RunReturns \/ Shutdown \/ ClearAfterJoin

CaptureNext ==
  \/ PresentNext
  \/ \E t \in Actors : StartCapture(t) \/ StopNext(t)
  \/ ConsoleCommand
  \/ SamplerNext
  \/ Initialize \/ HostNext \/ RequestStop \/ ClearConsole

CaptureSpec == CaptureInit /\ [][CaptureNext]_captureSideVars

(* Actors that have something to do go on doing it: the game presents     *)
(* frames while it runs, and a call that has begun is carried on.  The     *)
(* console holds its lock only for a line that was typed, so the host,     *)
(* asking for it again and again, gets it.  Nothing is assumed of          *)
(* what the user types or of when a run is stopped.                        *)
CaptureFairness ==
  /\ WF_captureSideVars(PresentNext) /\ WF_captureSideVars(SamplerNext) /\ WF_captureSideVars(HostNext)
  /\ SF_captureSideVars(ClearConsole)
  /\ \A t \in Actors : WF_captureSideVars(StartCapture(t) \/ StopNext(t))

-----------------------------------------------------------------------------
Stopping(t) == pc[t] \in {"frames", "events", "write"} /\ local[t].no # 0

(* However the timer, the console and the destructor race to stop it, a    *)
(* capture is written by one of them, once, be it with success or without. *)
OneReportPerCapture ==
  /\ \A t, u \in Actors : Stopping(t) /\ Stopping(u) /\ local[t].no = local[u].no => t = u
  /\ \A t \in Actors, r \in reports : Stopping(t) => local[t].no # r.no
  /\ \A q, r \in reports : q.no = r.no => q = r
  /\ capturing => \A r \in reports : r.no # captureNo

(* The history is the last frames presented, none missing, captures or     *)
(* not.                                                                    *)
HistoryIsGapless ==
  /\ \A i \in 1 .. Len(history) - 1 :
       history[i + 1] = (history[i] + 1) % FrameModulus
  /\ history # <<>> /\ pc["present"] \in {"idle", "ask"} =>
       frameNo = (history[Len(history)] + 1) % FrameModulus

(* The profile of a running capture holds its own samples, and at most one *)
(* other: the one the sampler had read, and not counted yet, when the      *)
(* capture began.  Once that one is in, no other is on its way.            *)
SampleOnItsWay == IF sampler = "count" THEN {sampled} ELSE {}
SamplesOfThisCapture ==
  capturing =>
    LET early == hotspots \ {captureNo}
    IN early # {} => (\E n \in early : early = {n}) /\ SampleOnItsWay \subseteq {captureNo}

(* A Runtime that is gone left nothing in the buffers, and no thread will  *)
(* still put something there, so the next Runtime starts with them empty.  *)
ShutDownIsClean ==
  pc["host"] = "off" =>
    /\ ~capturing /\ capture = NoCapture /\ history = <<>> /\ hotspots = {}
    /\ sampler = "none" /\ \A t \in Actors \ {"host"} : pc[t] = "idle"

(* What the buffers hold belongs to this Runtime and, up to that one       *)
(* sample, to this capture.                                                *)
BuffersHoldTheirOwn == HistoryIsGapless /\ SamplesOfThisCapture /\ ShutDownIsClean

(* "at boot ... and writes the report when the timer expires": every timed *)
(* capture comes to an end, and its report is written or fails to be.      *)
EveryTimedCaptureEnds ==
  \A n \in 1 .. MaxCaptures + 1 :
    (TimeLimit > 0 /\ capturing /\ captureNo = n) ~> (\E r \in reports : r.no = n)

(* The destructor returns: neither a capture in progress, nor the console  *)
(* or the sampler, keeps it waiting for ever.                              *)
DestructionReturns == pc["host"] = "stopping" ~> pc["host"] = "off"

(* docs: "Counter totals for the capture": the frames a report is computed *)
(* from were measured in its capture, and come from the buffer that its    *)
(* start opened, not from one a later start emptied.  The code breaks it.  *)
TotalsAreTheCaptures ==
  \A r \in reports : r.ok => r.frames \subseteq {r.no} /\ r.start = r.no
=============================================================================
