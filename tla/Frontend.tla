------------------------------ MODULE Frontend ------------------------------
(* The three programs a player sees before a game runs: the settings of the *)
(* launcher with what the runner and the lobby make of them, its            *)
(* extraction of a disc, and the cache of moderngekko-port.  They touch     *)
(* different files, apart from main.dol, whose exchange by the launcher is  *)
(* an action of the cache; so a behaviour follows one of them, and the      *)
(* others rest in an initial state.                                         *)
EXTENDS LauncherSettings, GameInstall, ModuleCache

VARIABLE followed   \* "settings", "install" or "cache"

frontendVars == <<settingsVars, installVars, cacheVars, followed>>

SettingsRest == SettingsInit /\ file.resolution # Multiple /\ profile = NoProfile
                             /\ file.controllers = <<>>
InstallRest == InstallInit /\ build = [pinned |-> FALSE, patches |-> FALSE]
                           /\ output = NoDirectory /\ defaultGame = "nothing"
CacheRest == CacheInit /\ dol = (CHOOSE d \in Dols : TRUE) /\ hasPatches = FALSE

Init ==
  \/ followed = "settings" /\ SettingsInit /\ InstallRest /\ CacheRest
  \/ followed = "install" /\ SettingsRest /\ InstallInit /\ CacheRest
  \/ followed = "cache" /\ SettingsRest /\ InstallRest /\ CacheInit

Next ==
  \/ /\ followed = "settings"
     /\ SettingsNext
     /\ UNCHANGED <<installVars, cacheVars, followed>>
  \/ /\ followed = "install"
     /\ InstallNext
     /\ UNCHANGED <<settingsVars, cacheVars, followed>>
  \/ /\ followed = "cache"
     /\ CacheNext
     /\ UNCHANGED <<settingsVars, installVars, followed>>

Spec == Init /\ [][Next]_frontendVars
=============================================================================
