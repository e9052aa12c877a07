-------------------------- MODULE MCLegacyRuntime ---------------------------
(* Three guests for LegacyRuntime: one that drives the disc, one that      *)
(* streams audio, and one that uses everything at once with fewer values.  *)
(* An empty set of values leaves a register alone.                         *)
EXTENDS LegacyRuntime

Devices == {"DI", "AI", "DMA"}
OneOrThreeCycles == {1, 3}

Idle == [
  maxId |-> 4, tickBound |-> 6,
  pi |-> {}, discs |-> {},
  status |-> {}, opcodes |-> {}, offsets |-> {}, addresses |-> {}, lengths |-> {}, starts |-> {},
  aiControls |-> {}, counters |-> {}, timings |-> {},
  dspControls |-> {}, sources |-> {}, enables |-> {}, blocks |-> {}]

DiscGuest == [Idle EXCEPT
  !.maxId = 3, !.tickBound = 5,
  !.pi = {{}, {"DI"}}, !.discs = BOOLEAN,
  !.status = {{}, {"TCINT"}, {"TCINTMASK"}, {"TCINT", "TCINTMASK"}, {"DEINT"}},
  !.opcodes = {"read", "other"}, !.offsets = {0, 1},
  !.addresses = {0, 1}, !.lengths = {0, 2}, !.starts = BOOLEAN]

StreamGuest == [Idle EXCEPT
  !.tickBound = 8,
  !.dspControls = {{}, {"aid", "aidmask"}}, !.sources = {0, 1},
  !.enables = BOOLEAN, !.blocks = {0, 2}]

WholeGuest == [Idle EXCEPT
  !.pi = {{"AI"}}, !.starts = {TRUE},
  !.aiControls = {{}, {"play"}, {"play", "mask"}, {"play", "mask", "int"}, {"play", "reset"}},
  !.counters = {1}, !.timings = {0, 2},
  !.enables = BOOLEAN, !.blocks = {2}]

MCGuests == {DiscGuest, StreamGuest, WholeGuest}
=============================================================================
