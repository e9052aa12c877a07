----------------------------- MODULE EventQueue -----------------------------
(***************************************************************************)
(* The data structure behind EventScheduler (src/timing/                   *)
(* event_scheduler.cpp): a bag of events, kept here as a set because an    *)
(* identifier occurs once.  The operators are the steps ScheduleAfter,     *)
(* Cancel and Advance are made of; they are shared by the scheduler's own  *)
(* specification and by the devices that schedule into it.                 *)
(***************************************************************************)
EXTENDS Naturals

CONSTANTS
  TickMax,    \* std::numeric_limits<std::uint64_t>::max(), where time saturates
  Callbacks   \* the callbacks events carry

ASSUME TickMaxAssumption == TickMax \in Nat \ {0}

Tick  == 0 .. TickMax
Event == [due : Tick, id : Nat \ {0}, callback : Callbacks]

(* The bug the saturation prevents: the clock wraps.                       *)
SaturatingAddWrapping(a, b) == (a + b) % (TickMax + 1)

(* Saturating 64-bit addition: the conditional in ScheduleAfter and in     *)
(* Advance.                                                                *)
SaturatingAdd(a, b) == IF b > TickMax - a THEN TickMax ELSE a + b

(* The order of std::pair{due, id} that Advance minimises.                 *)
Before(e, f) == e.due < f.due \/ (e.due = f.due /\ e.id < f.id)

(* What ScheduleAfter pushes at time now.                                  *)
NewEvent(now, id, cycles, callback) ==
  [due |-> SaturatingAdd(now, cycles), id |-> id, callback |-> callback]

(* The queue after Cancel(id); unchanged when the id is not queued.        *)
Without(queue, id) == {e \in queue : e.id # id}

(* Plausible bugs: the first due event found, and a strict comparison.     *)
IsReadyUnordered(queue, now, e) == e \in queue /\ e.due <= now

IsReadyStrict(queue, now, e) ==
  /\ e \in queue
  /\ e.due < now
  /\ \A f \in queue \ {e} : Before(e, f)

(* The event Advance takes next: the earliest one, if it is due.           *)
IsReady(queue, now, e) ==
  /\ e \in queue
  /\ e.due <= now
  /\ \A f \in queue \ {e} : Before(e, f)

(* A plausible bug: only the oldest event is looked at.                    *)
NothingReadyByAge(queue, now) ==
  \A e \in queue : (\A f \in queue : e.id <= f.id) => e.due > now

NothingReady(queue, now) == \A e \in queue : e.due > now
=============================================================================
