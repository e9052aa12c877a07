--------------------------- MODULE EventScheduler ---------------------------
(***************************************************************************)
(* EventScheduler as its clients see it: the guest's devices schedule and  *)
(* cancel events, the run loop advances time, and Advance hands every due  *)
(* event to its callback, which may schedule, cancel or reset in turn      *)
(* before Advance looks at the queue again.                                *)
(*                                                                         *)
(* Advance is not atomic here: it is Advance, then a Fire and a            *)
(* CallbackReturn per due event with the callback's own calls in between,  *)
(* then AdvanceReturn.                                                     *)
(***************************************************************************)
EXTENDS EventQueue

CONSTANTS
  NoCallback,  \* an empty std::function, which Advance does not call
  Cycles,      \* the cycle counts clients schedule after and advance by
  MaxId        \* bound: events scheduled between two resets

ASSUME CyclesAssumption == Cycles \subseteq Tick
ASSUME CallbackAssumption == NoCallback \in Callbacks
ASSUME MaxIdAssumption == MaxId \in Nat

VARIABLES
  events,     \* m_events
  ticks,      \* m_ticks
  nextId,     \* m_next_id
  phase,      \* where the thread is: outside Advance, in its loop, in a callback
  lastFired   \* history: the event last taken by Advance since the last Reset

vars == <<events, ticks, nextId, phase, lastFired>>

NothingFired == [due |-> 0, id |-> 0, callback |-> NoCallback]

TypeOK ==
  /\ events \subseteq Event
  /\ ticks \in Tick
  /\ nextId \in Nat \ {0}
  /\ phase \in {"idle", "advance", "callback"}
  /\ lastFired \in Event \cup {NothingFired}

Init ==
  /\ events = {}
  /\ ticks = 0
  /\ nextId = 1
  /\ phase = "idle"
  /\ lastFired = NothingFired

-----------------------------------------------------------------------------
(* A client is running: outside Advance, or inside a callback of it.       *)
ClientRuns == phase \in {"idle", "callback"}

(* A plausible bug: the lowest identifier that is free again.              *)
ScheduleAfterReusingIds(cycles, callback) ==
  /\ ClientRuns
  /\ nextId <= MaxId
  /\ \E id \in 1 .. nextId :
       /\ \A e \in events : e.id # id
       /\ \A i \in 1 .. (id - 1) : \E e \in events : e.id = i
       /\ events' = events \cup {NewEvent(ticks, id, cycles, callback)}
       /\ nextId' = IF id = nextId THEN nextId + 1 ELSE nextId
  /\ UNCHANGED <<ticks, phase, lastFired>>

ScheduleAfter(cycles, callback) ==
  /\ ClientRuns
  /\ nextId <= MaxId
  /\ events' = events \cup {NewEvent(ticks, nextId, cycles, callback)}
  /\ nextId' = nextId + 1
  /\ UNCHANGED <<ticks, phase, lastFired>>

(* The id may be one that has fired or was cancelled: Cancel then returns  *)
(* false and changes nothing.                                              *)
Cancel(id) ==
  /\ ClientRuns
  /\ events' = Without(events, id)
  /\ UNCHANGED <<ticks, nextId, phase, lastFired>>

Advance(cycles) ==
  /\ phase = "idle"
  /\ ticks' = SaturatingAdd(ticks, cycles)
  /\ phase' = "advance"
  /\ UNCHANGED <<events, nextId, lastFired>>

Fire(e) ==
  /\ phase = "advance"
  /\ IsReady(events, ticks, e)
  /\ events' = events \ {e}
  /\ phase' = IF e.callback = NoCallback THEN "advance" ELSE "callback"
  /\ lastFired' = e
  /\ UNCHANGED <<ticks, nextId>>

CallbackReturn ==
  /\ phase = "callback"
  /\ phase' = "advance"
  /\ UNCHANGED <<events, ticks, nextId, lastFired>>

AdvanceReturn ==
  /\ phase = "advance"
  /\ NothingReady(events, ticks)
  /\ phase' = "idle"
  /\ UNCHANGED <<events, ticks, nextId, lastFired>>

Reset ==
  /\ ClientRuns
  /\ events' = {}
  /\ ticks' = 0
  /\ nextId' = 1
  /\ lastFired' = NothingFired
  /\ UNCHANGED phase

FireNext == \E e \in events : Fire(e)

Next ==
  \/ \E cycles \in Cycles, callback \in Callbacks : ScheduleAfter(cycles, callback)
  \/ \E id \in 1 .. MaxId : Cancel(id)
  \/ \E cycles \in Cycles : Advance(cycles)
  \/ FireNext
  \/ CallbackReturn
  \/ AdvanceReturn
  \/ Reset

Spec == Init /\ [][Next]_vars

(* The loop of Advance runs to its end on its own thread, a callback       *)
(* returns, and the run loop keeps charging cycles while the guest runs:   *)
(* strong fairness, since it can only charge between two calls of Advance. *)
Fairness ==
  /\ WF_vars(FireNext)
  /\ WF_vars(CallbackReturn)
  /\ WF_vars(AdvanceReturn)
  /\ SF_vars(\E cycles \in Cycles \ {0} : Advance(cycles))

FairSpec == Spec /\ Fairness

-----------------------------------------------------------------------------
(* No event is missed: whenever control is outside Advance, every queued   *)
(* event is due now or later, however far the last Advance jumped and      *)
(* whatever its callbacks scheduled.                                       *)
NoMissedEvent == phase = "idle" => \A e \in events : e.due >= ticks

(* Every queued event comes after the one fired last in (due, id) order,   *)
(* also the ones that callbacks scheduled behind events still waiting.     *)
QueuedAfterLastFired == \A e \in events : Before(lastFired, e)

(* An identifier names one queued event, and one handed out by             *)
(* ScheduleAfter before.                                                   *)
UniqueIds ==
  /\ \A e \in events : e.id < nextId
  /\ \A e, f \in events : e.id = f.id => e = f

(* The inductive invariant behind the properties: the event fired last is  *)
(* in the past and so is its identifier, whence everything queued later    *)
(* comes after it.                                                         *)
LastFiredIsPast == lastFired.due <= ticks /\ lastFired.id < nextId
IInv ==
  /\ TypeOK
  /\ NoMissedEvent
  /\ QueuedAfterLastFired
  /\ UniqueIds
  /\ LastFiredIsPast

(* Callbacks run in (due, id) order from one Reset to the next, across     *)
(* calls of Advance and across events scheduled from callbacks.            *)
FiresInOrder ==
  [][ lastFired' # lastFired /\ lastFired' # NothingFired
        => Before(lastFired, lastFired') /\ lastFired'.due <= ticks ]_vars

(* At most once: an identifier that left the queue (fired or cancelled)    *)
(* does not come back before a Reset.                                      *)
QueuedIds == {e.id : e \in events}
GoneIsGone ==
  [][ nextId' >= nextId => \A id \in 1 .. (nextId - 1) :
                             id \in QueuedIds' => id \in QueuedIds ]_vars

(* The two together: the order of a run of callbacks, and none of them     *)
(* twice.                                                                  *)
FiresOnceInOrder == FiresInOrder /\ GoneIsGone

(* Every event leaves the queue: it is fired, cancelled or reset, even one *)
(* whose due time saturated - unless the clients schedule without end and  *)
(* never reset.  The exception is the code's: a callback that schedules    *)
(* itself anew after zero cycles, or at the saturated clock after any      *)
(* number, keeps Advance in its loop and whatever is due later waits for   *)
(* ever.  Here MaxId bounds the events between two resets, so that no      *)
(* behaviour checked takes the exception; it is what a client has to avoid *)
(* for the rest to hold without the bound.                                 *)
SchedulesWithoutEnd ==
  /\ <>[][nextId' >= nextId]_vars
  /\ []<><<nextId' > nextId>>_vars
EveryEventLeaves ==
  \/ SchedulesWithoutEnd
  \/ \A id \in 1 .. MaxId : id \in QueuedIds ~> id \notin QueuedIds

(* The scheduler implements the timer service: its Advance, Fire and       *)
(* AdvanceReturn steps are time passing, a delivery and a stutter.         *)
Timers == INSTANCE TimerService WITH
            now <- ticks, pending <- events, last <- lastFired
ImplementsTimers == Timers!Spec
=============================================================================
