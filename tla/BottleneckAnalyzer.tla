------------------------- MODULE BottleneckAnalyzer -------------------------
(***************************************************************************)
(* Analyze (src/diagnostics/bottleneck_analyzer.cpp): from the telemetry   *)
(* of a capture, which subsystem is to blame.                              *)
(*                                                                         *)
(* The times of the zones are percentages of the average frame, summed     *)
(* into the groups the rules look at; what the rules compare with a frame  *)
(* or a median is kept as the comparison or in percent.  Scores are in     *)
(* thousandths.  The evidence texts are left out, and a frame that took no *)
(* time at all.                                                            *)
(***************************************************************************)
EXTENDS Integers, FiniteSets

CONSTANTS
  Telemetries,  \* the telemetries a capture may have recorded
  Unmeasured    \* before Analyze

Telemetry == [
  frames : Nat, level : {"basic", "detailed", "trace"},
  speed : Nat, overBudget : Nat,           \* in percent
  guest : Nat, renderer : Nat, gpu : Nat, wait : Nat, transfer : Nat,
  audio : Nat, netplay : Nat, shader : Nat, other : Nat,
  compileShare : Nat,        \* compilations, in percent of the capture
  longCompile : BOOLEAN,     \* one took more than two medians
  efbPerFrame : Nat, inputWaits : BOOLEAN, \* more input waits than frames
  dispatched : BOOLEAN,      \* static dispatches or fallbacks were counted
  missRate : Nat, slowRate : Nat,          \* in percent
  fallbacks : Nat,           \* interpreter fallbacks of a frame
  unsupported : BOOLEAN,
  busiest : Nat, threads : Nat]            \* the busiest thread in percent; how many report

ASSUME TelemetriesAssumption == Telemetries \subseteq Telemetry

VARIABLES telemetry, verdict
analyzerVars == <<telemetry, verdict>>

AnalyzerInit == telemetry \in Telemetries /\ verdict = Unmeasured

-----------------------------------------------------------------------------
Finding(rule, score, class, confidence) ==
  [rule |-> rule, score |-> score, class |-> class, confidence |-> confidence]
When(condition, finding) == IF condition THEN {finding} ELSE {}
HighFrom(share, threshold) == IF share >= threshold THEN "high" ELSE "medium"

(* Instrumented time, of everything that is timed.                         *)
Coverage(t) == t.guest + t.renderer + t.gpu + t.wait + t.transfer + t.audio + t.netplay
               + t.shader + t.other

TooLittle(t) ==
  When(t.level = "basic" \/ Coverage(t) < 30, Finding(1, 50, "InsufficientEvidence", "medium"))

Compilation(t) ==
  When(t.compileShare > 2 \/ t.longCompile,
       Finding(2, 500 + 10 * t.compileShare, "ShaderCompilationHitching",
               IF t.longCompile THEN "high" ELSE "medium"))

(* The rules that look at zones, and are asked only when enough is timed.  *)
Waiting(t) ==
  When(t.wait >= 20 /\ t.wait > t.guest /\ t.wait > t.renderer,
       Finding(3, 400 + 10 * t.wait, "CpuGpuSynchronizationBound", HighFrom(t.wait, 35)))
Gpu(t) ==
  When(t.gpu >= 40 /\ t.gpu > t.guest /\ t.gpu > t.renderer,
       Finding(4, 400 + 10 * t.gpu, "GpuBound", HighFrom(t.gpu, 60)))
(* A plausible bug: the guest is not compared with the waits.              *)
GuestAlone(t) ==
  When(t.guest >= 40 /\ t.guest > t.renderer,
       Finding(5, 400 + 10 * t.guest, "GuestCpuBound", HighFrom(t.guest, 60)))
Guest(t) ==
  When(t.guest >= 40 /\ t.guest > t.renderer /\ t.guest > t.wait,
       Finding(5, 400 + 10 * t.guest, "GuestCpuBound", HighFrom(t.guest, 60)))
Renderer(t) ==
  When(t.renderer >= 35 /\ t.renderer > t.guest /\ t.renderer > t.wait,
       Finding(6, 350 + 10 * t.renderer, "RendererCpuBound", HighFrom(t.renderer, 55)))
Transfer(t) ==
  When(t.transfer >= 20 \/ t.efbPerFrame >= 8,
       Finding(7, 300 + 10 * t.transfer, "TextureOrEfbTransferBound", "medium"))
Audio(t) ==
  When(t.audio >= 20, Finding(8, 250 + 10 * t.audio, "AudioOrTimingWait", "medium"))
Netplay(t) ==
  When(t.netplay >= 10 \/ t.inputWaits,
       Finding(9, 300 + 10 * t.netplay, "NetplayWait", HighFrom(t.netplay, 20)))
ShaderTime(t) ==
  When(t.shader > 10, Finding(10, 300 + 10 * t.shader, "ShaderCompilationHitching", "medium"))

OfZones(t) ==
  Waiting(t) \cup Gpu(t) \cup Guest(t) \cup Renderer(t) \cup Transfer(t) \cup Audio(t)
  \cup Netplay(t) \cup ShaderTime(t)

SlowPaths(t) ==
  When(t.dispatched /\ (t.missRate >= 1 \/ t.fallbacks >= 100 \/ t.slowRate >= 25 \/ t.unsupported),
       Finding(11, 450 + 10 * t.missRate + 2 * (IF t.slowRate > 100 THEN 100 ELSE t.slowRate),
               "StaticRecompSlowPathBound",
               IF t.missRate >= 5 \/ t.fallbacks >= 1000 THEN "high" ELSE "medium"))
Saturated(t) ==
  When(t.busiest >= 90 /\ t.threads >= 2, Finding(12, 250 + t.busiest, "ThreadContention", "low"))

Scored(t) ==
  TooLittle(t) \cup Compilation(t) \cup (IF Coverage(t) >= 30 THEN OfZones(t) ELSE {})
  \cup SlowPaths(t) \cup Saturated(t)

FullSpeed(t) == t.speed >= 98 /\ t.overBudget < 5

(* The sort is stable: what scores the same stays in the order of the rules.*)
Before(a, b) == a.score > b.score \/ (a.score = b.score /\ a.rule < b.rule)
Rank(finding, findings) == Cardinality({f \in findings : Before(f, finding)})
ByScore(findings) ==
  [i \in 1 .. Cardinality(findings) |-> CHOOSE f \in findings : Rank(f, findings) = i - 1]

Verdict(t) ==
  LET scored == Scored(t)
      only(class, confidence) == <<Finding(0, 0, class, confidence)>>
  IN IF t.frames < 10 THEN only("InsufficientEvidence", "high")
     ELSE IF scored = {} \/ (FullSpeed(t) /\ \A f \in scored : f.score < 300)
     THEN IF FullSpeed(t) THEN only("NoBottleneck", "high")
                          ELSE only("InsufficientEvidence", "medium")
     ELSE ByScore(scored)

Analyze ==
  /\ verdict = Unmeasured
  /\ verdict' = Verdict(telemetry)
  /\ UNCHANGED telemetry

AnalyzerSpec == AnalyzerInit /\ [][Analyze]_analyzerVars
-----------------------------------------------------------------------------
Analyzed == verdict # Unmeasured
Classes == {verdict[i].class : i \in DOMAIN verdict}
Headline == verdict[1]
TimedClasses == {"CpuGpuSynchronizationBound", "GpuBound", "GuestCpuBound", "RendererCpuBound",
                 "TextureOrEfbTransferBound", "AudioOrTimingWait", "NetplayWait"}

(* A verdict blames no more than its evidence carries.  A subsystem is     *)
(* named from its time only with ten frames and 30% of them timed; of the  *)
(* guest, the renderer and the waits at most one is named; "insufficient   *)
(* evidence" heads a verdict only if nothing else is found, and "no        *)
(* bottleneck" hides nothing that was found.                               *)
VerdictFollowsTheEvidence ==
  Analyzed =>
    /\ Classes \cap TimedClasses # {} => telemetry.frames >= 10 /\ Coverage(telemetry) >= 30
    /\ \A a, b \in {"CpuGpuSynchronizationBound", "GuestCpuBound", "RendererCpuBound"} :
         {a, b} \subseteq Classes => a = b
    /\ \A i \in DOMAIN verdict : Headline.score >= verdict[i].score
    /\ Headline.class \in {"InsufficientEvidence", "NoBottleneck"} /\ telemetry.frames >= 10 =>
         {f \in Scored(telemetry) : f.class # "InsufficientEvidence"} = {}

(* docs/diagnostics.md:131 says of the analyzer that "it also refuses to   *)
(* attribute a subsystem at `basic` level, where no scope timings exist."  *)
BasicAttributesNothing ==
  Analyzed /\ telemetry.level = "basic" => Classes \subseteq {"InsufficientEvidence", "NoBottleneck"}
=============================================================================
