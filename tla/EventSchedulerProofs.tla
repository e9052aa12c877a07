------------------------ MODULE EventSchedulerProofs ------------------------
(***************************************************************************)
(* What holds of EventScheduler for every clock width, every set of cycle  *)
(* counts and any number of events.                                        *)
(***************************************************************************)
EXTENDS EventScheduler, TLAPS

(* Saturating addition stays on the clock and never goes back in time.     *)
LEMMA SaturatingAddBounds ==
  ASSUME NEW a \in Tick, NEW b \in Tick
  PROVE  /\ SaturatingAdd(a, b) \in Tick
         /\ SaturatingAdd(a, b) >= a
BY TickMaxAssumption DEF SaturatingAdd, Tick

(* An event scheduled now is due now or later, and is the youngest.        *)
LEMMA NewEventIsLast ==
  ASSUME NEW now \in Tick, NEW id \in Nat \ {0}, NEW cycles \in Tick,
         NEW callback \in Callbacks,
         NEW e \in [due : Tick, id : Nat, callback : Callbacks],
         e.due <= now, e.id < id
  PROVE  /\ NewEvent(now, id, cycles, callback) \in Event
         /\ NewEvent(now, id, cycles, callback).due >= now
         /\ NewEvent(now, id, cycles, callback).id = id
         /\ Before(e, NewEvent(now, id, cycles, callback))
<1>1. SaturatingAdd(now, cycles) \in Tick /\ SaturatingAdd(now, cycles) >= now
  BY SaturatingAddBounds
<1>2. QED
  BY <1>1, TickMaxAssumption DEF NewEvent, Event, Before, Tick

-----------------------------------------------------------------------------
LEMMA InitIInv == Init => IInv
BY TickMaxAssumption, CallbackAssumption
   DEF Init, IInv, TypeOK, NoMissedEvent, QueuedAfterLastFired, UniqueIds,
       LastFiredIsPast, NothingFired, Event, Tick

LEMMA NextIInv == IInv /\ [Next]_vars => IInv'
<1> SUFFICES ASSUME IInv, [Next]_vars
             PROVE  IInv'
  OBVIOUS
<1> USE DEF IInv, TypeOK, NoMissedEvent, QueuedAfterLastFired, UniqueIds,
            LastFiredIsPast
<1>0. lastFired \in [due : Tick, id : Nat, callback : Callbacks]
  BY TickMaxAssumption, CallbackAssumption DEF Event, NothingFired, Tick
<1>1. ASSUME NEW cycles \in Cycles, NEW callback \in Callbacks,
             ScheduleAfter(cycles, callback)
      PROVE  IInv'
  <2> DEFINE new == NewEvent(ticks, nextId, cycles, callback)
  <2>1. /\ new \in Event
        /\ new.due >= ticks
        /\ new.id = nextId
        /\ Before(lastFired, new)
    BY <1>0, CyclesAssumption, NewEventIsLast
  <2> HIDE DEF new
  <2>2. events' = events \cup {new} /\ nextId' = nextId + 1
    BY <1>1 DEF ScheduleAfter, new
  <2>3. UNCHANGED <<ticks, phase, lastFired>>
    BY <1>1 DEF ScheduleAfter
  <2>4. TypeOK'
    BY <2>1, <2>2, <2>3
  <2>5. UniqueIds'
    BY <2>1, <2>2 DEF Event
  <2>6. (NoMissedEvent /\ QueuedAfterLastFired /\ LastFiredIsPast)'
    BY <1>0, <2>1, <2>2, <2>3 DEF Before
  <2>7. QED
    BY <2>4, <2>5, <2>6
<1>2. ASSUME NEW id \in 1 .. MaxId, Cancel(id)
      PROVE  IInv'
  BY <1>2 DEF Cancel, Without, Before
<1>3. ASSUME NEW cycles \in Cycles, Advance(cycles)
      PROVE  IInv'
  <2>1. ticks' \in Tick /\ ticks' >= ticks
    BY <1>3, CyclesAssumption, SaturatingAddBounds DEF Advance
  <2>2. UNCHANGED <<events, nextId, lastFired>> /\ phase' = "advance"
    BY <1>3 DEF Advance
  <2>3. LastFiredIsPast'
    BY <1>0, <2>1, <2>2, TickMaxAssumption DEF Tick
  <2>4. QED
    BY <2>1, <2>2, <2>3 DEF Before
<1>4. ASSUME NEW e \in events, Fire(e)
      PROVE  IInv'
  <2>1. /\ events' = events \ {e}
        /\ lastFired' = e
        /\ UNCHANGED <<ticks, nextId>>
        /\ phase' \in {"advance", "callback"}
    BY <1>4 DEF Fire
  <2>2. e.due <= ticks /\ \A f \in events \ {e} : Before(e, f)
    BY <1>4 DEF Fire, IsReady
  <2>3. QED
    BY <2>1, <2>2
<1>5. CASE CallbackReturn
  BY <1>5 DEF CallbackReturn, Before
<1>6. CASE AdvanceReturn
  <2>1. \A e \in events : e.due >= ticks
    BY <1>6, TickMaxAssumption DEF AdvanceReturn, NothingReady, Event, Tick
  <2>2. QED
    BY <1>6, <2>1 DEF AdvanceReturn, Before
<1>7. CASE Reset
  BY <1>7, TickMaxAssumption, CallbackAssumption
     DEF Reset, NothingFired, Tick, Event
<1>8. CASE UNCHANGED vars
  BY <1>8 DEF vars, Before
<1>9. QED
  BY <1>1, <1>2, <1>3, <1>4, <1>5, <1>6, <1>7, <1>8 DEF Next, FireNext

LEMMA Invariance == Spec => []IInv
BY InitIInv, NextIInv, PTL DEF Spec

(* The state of the scheduler is well typed.                               *)
THEOREM TypeCorrect == Spec => []TypeOK
<1>1. IInv => TypeOK
  BY DEF IInv
<1>2. QED
  BY <1>1, Invariance, PTL

(* Advance leaves no overdue event behind: outside it, everything queued   *)
(* is due now or later.                                                    *)
THEOREM NoEventMissed == Spec => []NoMissedEvent
<1>1. IInv => NoMissedEvent
  BY DEF IInv
<1>2. QED
  BY <1>1, Invariance, PTL

(* Identifiers are not reused between two resets.                          *)
THEOREM IdsUnique == Spec => []UniqueIds
<1>1. IInv => UniqueIds
  BY DEF IInv
<1>2. QED
  BY <1>1, Invariance, PTL
-----------------------------------------------------------------------------
(* Callbacks run in (due, id) order, none before its due time.             *)
THEOREM InOrder == Spec => FiresInOrder
<1> DEFINE Ordered == lastFired' # lastFired /\ lastFired' # NothingFired
                        => Before(lastFired, lastFired') /\ lastFired'.due <= ticks
<1>1. IInv /\ [Next]_vars => [Ordered]_vars
  <2> SUFFICES ASSUME IInv, [Next]_vars,
                      lastFired' # lastFired, lastFired' # NothingFired
               PROVE  Before(lastFired, lastFired') /\ lastFired'.due <= ticks
    OBVIOUS
  <2>1. PICK e \in events : Fire(e)
    BY DEF Next, FireNext, ScheduleAfter, Cancel, Advance, CallbackReturn,
           AdvanceReturn, Reset, vars
  <2>2. QED
    BY <2>1 DEF Fire, IsReady, IInv, QueuedAfterLastFired
<1>2. QED
  BY <1>1, Invariance, PTL DEF Spec, FiresInOrder

(* An identifier that left the queue does not come back before a Reset, so *)
(* no event is fired twice and no cancelled event is fired.                *)
THEOREM AtMostOnce == Spec => GoneIsGone
<1> DEFINE Gone == nextId' >= nextId => \A id \in 1 .. (nextId - 1) :
                                          id \in QueuedIds' => id \in QueuedIds
<1>1. IInv /\ [Next]_vars => [Gone]_vars
  <2> SUFFICES ASSUME IInv, [Next]_vars,
                      NEW id \in 1 .. (nextId - 1), id \in QueuedIds'
               PROVE  id \in QueuedIds
    OBVIOUS
  <2>1. PICK e \in events' : e.id = id
    BY DEF QueuedIds
  <2>2. e \in events \/ e.id = nextId
    BY DEF Next, FireNext, ScheduleAfter, NewEvent, Cancel, Without, Advance,
           Fire, CallbackReturn, AdvanceReturn, Reset, vars
  <2>3. QED
    BY <2>1, <2>2 DEF IInv, TypeOK, QueuedIds
<1>2. QED
  BY <1>1, Invariance, PTL DEF Spec, GoneIsGone

(* Callbacks run in order, and an event's callback at most once.           *)
THEOREM OnceInOrder == Spec => FiresOnceInOrder
BY InOrder, AtMostOnce, PTL DEF FiresOnceInOrder

(* The scheduler refines the timer service.                                *)
THEOREM Refinement == Spec => ImplementsTimers
<1>1. Init => Timers!Init
  BY DEF Init, Timers!Init, Timers!BeforeAll, NothingFired
<1>2. IInv /\ IInv' /\ [Next]_vars => [Timers!Next]_(Timers!timerVars)
  <2> SUFFICES ASSUME IInv, IInv', [Next]_vars
               PROVE  [Timers!Next]_(Timers!timerVars)
    OBVIOUS
  <2> USE DEF Timers!timerVars
  <2>0. lastFired \in [due : Tick, id : Nat, callback : Callbacks]
    BY TickMaxAssumption, CallbackAssumption
       DEF IInv, TypeOK, Event, NothingFired, Tick
  <2>1. ASSUME NEW cycles \in Cycles, NEW callback \in Callbacks,
               ScheduleAfter(cycles, callback)
        PROVE  Timers!Next
    <3> DEFINE new == NewEvent(ticks, nextId, cycles, callback)
    <3>1. new \in Event /\ new.due >= ticks /\ new.id = nextId
      BY <2>0, CyclesAssumption, NewEventIsLast DEF IInv, TypeOK, LastFiredIsPast
    <3>2. \A p \in events \cup {lastFired} : p.id < new.id
      BY <3>1 DEF IInv, UniqueIds, LastFiredIsPast
    <3>3. events' = events \cup {new} /\ UNCHANGED <<ticks, lastFired>>
      BY <2>1 DEF ScheduleAfter
    <3>4. new \in events' /\ Timers!Arm(new)
      BY <3>1, <3>2, <3>3 DEF Timers!Arm, Event, Tick, Timers!Event, Timers!Tick
    <3>5. QED
      BY <3>4 DEF Timers!Next
  <2>2. ASSUME NEW id \in 1 .. MaxId, Cancel(id)
        PROVE  [Timers!Next]_(Timers!timerVars)
    <3>1. CASE \E p \in events : p.id = id
      BY <2>2, <3>1 DEF Cancel, Timers!Next, Timers!Disarm, Without, Timers!Without
    <3>2. CASE \A p \in events : p.id # id
      BY <2>2, <3>2 DEF Cancel, Without
    <3>3. QED
      BY <3>1, <3>2
  <2>3. ASSUME NEW cycles \in Cycles, Advance(cycles)
        PROVE  Timers!Next
    <3>1. ticks' \in Tick /\ ticks' >= ticks
      BY <2>3, CyclesAssumption, SaturatingAddBounds DEF Advance, IInv, TypeOK
    <3>2. ticks' \in ticks .. TickMax
      BY <3>1, TickMaxAssumption DEF Tick, IInv, TypeOK
    <3>3. \A p \in events : p.due >= ticks
      BY <2>3 DEF Advance, IInv, NoMissedEvent
    <3>4. QED
      BY <2>3, <3>2, <3>3 DEF Advance, Timers!Next, Timers!Pass
  <2>4. ASSUME NEW e \in events, Fire(e)
        PROVE  Timers!Next
    BY <2>4 DEF Fire, IInv, QueuedAfterLastFired, Timers!Next, Timers!Deliver,
                IsReady, Timers!IsReady, Before, Timers!Before
  <2>5. CASE CallbackReturn
    BY <2>5 DEF CallbackReturn
  <2>6. CASE AdvanceReturn
    BY <2>6 DEF AdvanceReturn
  <2>7. CASE Reset
    BY <2>7 DEF Reset, NothingFired, Timers!Next, Timers!Clear, Timers!BeforeAll
  <2>8. CASE UNCHANGED vars
    BY <2>8 DEF vars
  <2>9. QED
    BY <2>1, <2>2, <2>3, <2>4, <2>5, <2>6, <2>7, <2>8 DEF Next, FireNext
<1>3. QED
  BY <1>1, <1>2, Invariance, PTL DEF Spec, ImplementsTimers, Timers!Spec
=============================================================================
