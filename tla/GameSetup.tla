----------------------------- MODULE GameSetup ------------------------------
(* What is put in place before a guest runs: the mods and their links, the *)
(* recompiled module with its tables, and the device ranges of the bus.    *)
(* They share no state, so a behaviour follows one of them, and the others *)
(* rest in their initial states.                                           *)
EXTENDS ModLoader, ModuleTables, MmioBus

VARIABLE setUp   \* "mods", "module" or "bus"

setupVars == <<loaderVars, tableVars, busVars, setUp>>

Init ==
  /\ LoaderInit /\ TablesInit /\ BusInit
  /\ setUp \in {"mods", "module", "bus"}
  /\ setUp # "module" => offered = Familiar

Next ==
  \/ /\ setUp = "mods"
     /\ LoaderNext
     /\ UNCHANGED <<tableVars, busVars, setUp>>
  \/ /\ setUp = "module"
     /\ TablesNext
     /\ UNCHANGED <<loaderVars, busVars, setUp>>
  \/ /\ setUp = "bus"
     /\ BusNext
     /\ UNCHANGED <<loaderVars, tableVars, setUp>>

Spec == Init /\ [][Next]_setupVars
=============================================================================
