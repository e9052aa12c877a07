---------------------------- MODULE PerfRecorder ----------------------------
(***************************************************************************)
(* The per-thread accumulators of the diagnostics: a thread gets one the   *)
(* first time it counts something, and past the bound of the registry it   *)
(* shares the first one.  AddCounter is a relaxed load and a relaxed       *)
(* store, two steps here.  EndFrame adds the accumulators up, one by one,  *)
(* and turns the totals into the counts of a frame, which have 32 bits;    *)
(* Initialize adds them up too, so that the frames of the next Runtime     *)
(* begin where it found them.  A behaviour starts with the first Runtime,  *)
(* before anything is counted.                                             *)
(*                                                                         *)
(* One counter stands for all counters and zones, and it counts by one.    *)
(***************************************************************************)
EXTENDS Integers, FiniteSets, Functions

CONSTANTS
  Threads,          \* the threads that count
  MaxThreadStates,  \* kMaxThreadStates
  MaxDelta,         \* 0xFFFFFFFF: the most a frame can show
  MaxCount          \* bound: AddCounter calls of one thread

ASSUME ThreadsAssumption == IsFiniteSet(Threads)
ASSUME StatesAssumption == MaxThreadStates \in Nat \ {0}
ASSUME CountAssumption == MaxCount \in Nat /\ MaxDelta \in Nat

VARIABLES
  registered,  \* registry.states.size(): the states are 1 .. registered
  tls,         \* t_state of each thread, 0 before the first use
  counter,     \* the counter of each state
  loaded,      \* the value AddCounter has loaded in each thread, -1 outside it
  counted,     \* history: the AddCounter calls each thread completed
  toRead,      \* the states AggregateTotals has copied and not read yet
  sum,         \* its total so far, 0 when nobody adds up
  reading,     \* who adds up: "frame" (EndFrame), "start" (Initialize) or "no"
  lastCounter, \* m_impl->last_counters
  baseline,    \* history: the totals the last Initialize found
  reported,    \* history: the sum of the frames' counts since
  clipped      \* history: what did not fit in the frames' counts since

recorderVars == <<registered, tls, counter, loaded, counted>>
shownVars == <<lastCounter, baseline, reported, clipped>>
frameVars == <<toRead, sum, reading, shownVars>>
vars == <<recorderVars, frameVars>>

States == 1 .. MaxThreadStates

TypeOK ==
  /\ registered \in 0 .. MaxThreadStates
  /\ tls \in [Threads -> 0 .. MaxThreadStates]
  /\ counter \in [States -> Nat]
  /\ loaded \in [Threads -> Nat \cup {-1}]
  /\ counted \in [Threads -> Nat]

Init ==
  /\ registered = 0 /\ tls = [t \in Threads |-> 0]
  /\ counter = [s \in States |-> 0]
  /\ loaded = [t \in Threads |-> -1] /\ counted = [t \in Threads |-> 0]
  /\ toRead = {} /\ sum = 0 /\ reading = "no"
  /\ lastCounter = 0 /\ baseline = 0 /\ reported = 0 /\ clipped = 0

-----------------------------------------------------------------------------
(* A plausible bug: the bound is met one registration too early.           *)
AcquireThreadStateEarly(t) ==
  /\ tls[t] = 0
  /\ IF registered >= MaxThreadStates - 1
       THEN tls' = [tls EXCEPT ![t] = 1] /\ registered' = IF registered = 0 THEN 1 ELSE registered
       ELSE tls' = [tls EXCEPT ![t] = registered + 1] /\ registered' = registered + 1
  /\ UNCHANGED <<counter, loaded, counted, frameVars>>

AcquireThreadState(t) ==
  /\ tls[t] = 0
  /\ IF registered >= MaxThreadStates
       THEN tls' = [tls EXCEPT ![t] = 1] /\ UNCHANGED registered
       ELSE tls' = [tls EXCEPT ![t] = registered + 1] /\ registered' = registered + 1
  /\ UNCHANGED <<counter, loaded, counted, frameVars>>

LoadCounter(t) ==
  /\ tls[t] # 0 /\ loaded[t] = -1 /\ counted[t] < MaxCount
  /\ loaded' = [loaded EXCEPT ![t] = counter[tls[t]]]
  /\ UNCHANGED <<registered, tls, counter, counted, frameVars>>

StoreCounter(t) ==
  /\ loaded[t] # -1
  /\ counter' = [counter EXCEPT ![tls[t]] = loaded[t] + 1]
  /\ loaded' = [loaded EXCEPT ![t] = -1]
  /\ counted' = [counted EXCEPT ![t] = @ + 1]
  /\ UNCHANGED <<registered, tls, frameVars>>

-----------------------------------------------------------------------------
(* AggregateTotals copies the list of states and reads each while the      *)
(* threads go on counting; it runs under the mutex, for one reader.        *)
BeginTotals(reader) ==
  /\ reading = "no"
  /\ reading' = reader /\ toRead' = 1 .. registered /\ sum' = 0
  /\ UNCHANGED <<recorderVars, shownVars>>

ReadState ==
  /\ toRead # {}
  /\ LET s == CHOOSE s \in toRead : \A u \in toRead : s <= u
     IN toRead' = toRead \ {s} /\ sum' = sum + counter[s]
  /\ UNCHANGED <<recorderVars, reading, shownVars>>

(* What was counted since the frame before, in 32 bits.                    *)
Delta == IF sum >= lastCounter THEN sum - lastCounter ELSE 0
FrameCount == IF Delta > MaxDelta THEN MaxDelta ELSE Delta
Excess == IF sum > lastCounter + MaxDelta THEN sum - (lastCounter + MaxDelta) ELSE 0

(* A plausible bug: an empty frame leaves the totals of the one before.    *)
EndFrameKeepingTotals ==
  /\ reading = "frame" /\ toRead = {}
  /\ reported' = reported + FrameCount /\ clipped' = clipped + Excess
  /\ reading' = "no" /\ sum' = 0
  /\ UNCHANGED <<recorderVars, toRead, lastCounter, baseline>>

EndFrame ==
  /\ reading = "frame" /\ toRead = {}
  /\ reported' = reported + FrameCount /\ clipped' = clipped + Excess
  /\ lastCounter' = sum
  /\ reading' = "no" /\ sum' = 0
  /\ UNCHANGED <<recorderVars, toRead, baseline>>

(* A plausible bug: the first frame of a Runtime shows the one before it.  *)
StartFramesKeepingTotals ==
  /\ reading = "start" /\ toRead = {}
  /\ baseline' = sum /\ reported' = 0 /\ clipped' = 0
  /\ reading' = "no" /\ sum' = 0
  /\ UNCHANGED <<recorderVars, toRead, lastCounter>>

(* Initialize, when it has the totals.                                     *)
StartFrames ==
  /\ reading = "start" /\ toRead = {}
  /\ lastCounter' = sum /\ baseline' = sum
  /\ reported' = 0 /\ clipped' = 0
  /\ reading' = "no" /\ sum' = 0
  /\ UNCHANGED <<recorderVars, toRead>>

Next ==
  \/ \E t \in Threads : AcquireThreadState(t) \/ LoadCounter(t) \/ StoreCounter(t)
  \/ \E reader \in {"frame", "start"} : BeginTotals(reader)
  \/ ReadState \/ EndFrame \/ StartFrames

Spec == Init /\ [][Next]_vars

-----------------------------------------------------------------------------
(* A thread that has an accumulator of its own finds in it all it counted. *)
(* It holds while the registry has room for every thread.                  *)
CountsOfOwner ==
  \A t \in Threads : tls[t] # 0 => counter[tls[t]] = counted[t]

(* The counts of a Runtime's frames, with what did not fit in 32 bits, add *)
(* up to what was read since it was initialized, so nothing is attributed  *)
(* to two frames, to none or to another Runtime's, although the            *)
(* accumulators are read while they change; and no more is shown than was  *)
(* counted.                                                                *)
FramesAddUp ==
  /\ reported + clipped = lastCounter - baseline
  /\ lastCounter <= SumFunction(counted)

(* "Only the owning thread writes, so the relaxed load/store pairs ...     *)
(* race-free": nothing counted is lost.  The code breaks it once there are *)
(* more threads than accumulators.                                         *)
NothingLost == SumFunction(counter) = SumFunction(counted)
=============================================================================
