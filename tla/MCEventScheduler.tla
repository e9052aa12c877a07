-------------------------- MODULE MCEventScheduler --------------------------
(* A small instance of EventScheduler: delays of zero, one and three       *)
(* ticks and a clock that saturates after five, so that events share due   *)
(* times, are jumped over together and saturate.                           *)
EXTENDS EventScheduler

CONSTANTS callback, none
MCCallbacks == {callback, none}
MCCycles == {0, 1, 3}
=============================================================================
