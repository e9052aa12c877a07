---------------------------- MODULE TimerService ----------------------------
(***************************************************************************)
(* What EventScheduler promises the devices, without its identifiers       *)
(* counter, its Advance loop or its saturating arithmetic: a timer is      *)
(* delivered once, never before its due time, in the order of due time and *)
(* then of arming, and time does not move on past an overdue timer.        *)
(***************************************************************************)
EXTENDS EventQueue

VARIABLES
  now,      \* the current time
  pending,  \* the timers armed and not delivered yet
  last      \* the timer delivered last, or the one before all others

timerVars == <<now, pending, last>>

BeforeAll == last.id = 0 /\ last.due = 0

Init ==
  /\ now = 0
  /\ pending = {}
  /\ BeforeAll

Arm(t) ==
  /\ t \in Event
  /\ t.due >= now
  /\ \A p \in pending \cup {last} : p.id < t.id
  /\ pending' = pending \cup {t}
  /\ UNCHANGED <<now, last>>

Disarm(id) ==
  /\ pending' = Without(pending, id)
  /\ UNCHANGED <<now, last>>

(* Time may jump, but never away from a timer that is already overdue.     *)
Pass ==
  /\ \A p \in pending : p.due >= now
  /\ now' \in now .. TickMax
  /\ UNCHANGED <<pending, last>>

Deliver(t) ==
  /\ IsReady(pending, now, t)
  /\ Before(last, t)
  /\ pending' = pending \ {t}
  /\ last' = t
  /\ UNCHANGED now

Clear ==
  /\ now' = 0
  /\ pending' = {}
  /\ BeforeAll'

Next ==
  \/ \E t \in pending' : Arm(t)
  \/ \E p \in pending : Disarm(p.id)
  \/ Pass
  \/ \E t \in pending : Deliver(t)
  \/ Clear

Spec == Init /\ [][Next]_timerVars
=============================================================================
