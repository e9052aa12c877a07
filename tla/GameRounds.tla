----------------------------- MODULE GameRounds -----------------------------
(* What a runner promises about the games it plays: one at a time, each a   *)
(* later one than the one before, and no game twice.                        *)
EXTENDS Naturals

VARIABLES
  played,      \* the last game that was booted
  playing      \* it is under way

Init == played = 0 /\ playing = FALSE

Begin ==
  /\ ~playing
  /\ played' \in Nat
  /\ played' > played
  /\ playing' = TRUE

Finish ==
  /\ playing
  /\ playing' = FALSE
  /\ UNCHANGED played

Next == Begin \/ Finish

Spec == Init /\ [][Next]_<<played, playing>>
=============================================================================
