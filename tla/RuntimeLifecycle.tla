-------------------------- MODULE RuntimeLifecycle --------------------------
(* moderngekko::Runtime: what Create sets up, what Run registers and boots, *)
(* and what the destructor takes down, against the threads that see any of  *)
(* it.  Create holds s_runtime_mutex throughout and is one step; Run and    *)
(* the destructor are taken apart where another thread can come between.    *)
(* Dolphin's core and its platform are external: the core runs, or ends by  *)
(* itself, and a main loop returns when its platform was told to stop.      *)
EXTENDS Naturals

CONSTANTS
  MaxRuntimes    \* bound: Runtimes created one after the other

ASSUME RuntimesAssumption == MaxRuntimes \in Nat \ {0}

VARIABLES
  settings,      \* RuntimeConfig: [diagnostics, capture, title]
  life,          \* how far the one Runtime is
  statics,       \* [active, platform, external, bootData] of dolphin_runtime.cpp
  services,      \* what is up for it: [ui, ownsUi, controllers, diagnostics]
  hooks,         \* callbacks registered: "present", "state"
  capture,       \* a capture is running
  running,       \* Impl::running
  booted,        \* Impl::booted
  core,          \* Dolphin's core: "down", "running", "ended" by itself
  stop,          \* the platform was told to stop, or to shut down
  title,         \* the title thread: "none", "running", "asked", "ended"
  managers,      \* mod managers made so far: the latest is the live one
  hostCall,      \* the manager the JIT calls into, 0 when there is none
  params,        \* the game the boot parameters are for
  round,         \* the game last booted
  threw          \* Run was left by an exception

setupVars == <<settings, statics, services>>
gameVars == <<managers, hostCall, params, round, threw>>
runtimeVars == <<setupVars, life, hooks, capture, running, booted,
                 core, stop, title, gameVars>>

NoData == 0      \* no BootSessionData

InRun == {"entered", "data", "hooking", "booting", "up", "leaving"}
Dying == {"dying", "coreless"}

RuntimeInit ==
  /\ settings \in [diagnostics: BOOLEAN, capture: BOOLEAN, title: BOOLEAN]
  /\ settings.capture => settings.diagnostics
  /\ life = "none"
  /\ statics = [active |-> FALSE, platform |-> FALSE, external |-> FALSE,
                bootData |-> NoData]
  /\ services = [ui |-> 0, ownsUi |-> FALSE, controllers |-> FALSE,
                 diagnostics |-> FALSE]
  /\ hooks = {}
  /\ capture = FALSE /\ running = FALSE /\ booted = FALSE
  /\ core = "down"
  /\ stop = FALSE
  /\ title = "none"
  /\ managers = 0 /\ hostCall = 0
  /\ params = NoData /\ round = 0
  /\ threw = FALSE

-----------------------------------------------------------------------------
(* Create *)

\* The error returns: another Runtime, the game, the module, the platform.  A
\* platform that fails takes the mods and the user interface down with it.
CreateFails ==
  /\ life = "none"
  /\ UNCHANGED runtimeVars

\* A bug: what a Runtime without mods does not set keeps its value.
JitSourceKept(manager, loadsMods) == IF loadsMods THEN manager ELSE hostCall

\* The JIT's module source is replaced as a whole: without mods it has no host call.
JitSource(manager, loadsMods) == IF loadsMods THEN manager ELSE 0

\* Initialize and the identities it is told; nothing in it stops a Runtime.
SetUpDiagnostics == settings.diagnostics

CreateSucceeds(loadsMods) ==
  /\ life = "none"
  /\ ~statics.active
  /\ managers < MaxRuntimes
  /\ life' = "idle"
  /\ managers' = managers + 1
  /\ hostCall' = JitSource(managers + 1, loadsMods)
  /\ statics' = [statics EXCEPT !.active = TRUE, !.platform = TRUE]
  /\ services' = [ui |-> services.ui + (IF statics.external THEN 0 ELSE 1),
                  ownsUi |-> ~statics.external,
                  controllers |-> TRUE,
                  diagnostics |-> SetUpDiagnostics]
  /\ stop' = FALSE
  /\ UNCHANGED <<settings, hooks, capture, running, booted, core, title, params, round,
                 threw>>

-----------------------------------------------------------------------------
(* Run, on the host thread *)

EnterRun ==
  /\ life = "idle"
  /\ ~running
  /\ life' = "entered"
  /\ running' = TRUE
  /\ UNCHANGED <<setupVars, hooks, capture, booted, core, stop, title,
                 gameVars>>

\* The boot data is taken, and gone, also when the game turns out not to boot.
TakeBootData(accepted) ==
  /\ life = "entered"
  /\ statics' = [statics EXCEPT !.bootData = NoData]
  /\ params' = IF statics.bootData = NoData THEN managers ELSE statics.bootData
  /\ life' = IF accepted THEN "data" ELSE "returned"
  /\ running' = accepted
  /\ UNCHANGED <<settings, services, hooks, capture, booted, core, stop, title, managers,
                 hostCall, round, threw>>

RegisterPresent ==
  /\ life = "data"
  /\ life' = "hooking"
  /\ hooks' = IF services.diagnostics THEN hooks \union {"present"} ELSE hooks
  /\ capture' = (capture \/ (services.diagnostics /\ settings.capture))
  /\ UNCHANGED <<setupVars, running, booted, core, stop, title,
                 gameVars>>

RegisterState ==
  /\ life = "hooking"
  /\ life' = "booting"
  /\ hooks' = hooks \union {"state"}
  /\ UNCHANGED <<setupVars, capture, running, booted, core, stop, title,
                 gameVars>>

\* A boot that fails returns with what was registered still registered.
BootCoreFails ==
  /\ life = "booting"
  /\ life' = "returned"
  /\ running' = FALSE
  /\ UNCHANGED <<setupVars, hooks, capture, booted, core, stop, title,
                 gameVars>>

BootCore ==
  /\ life = "booting"
  /\ life' = "up"
  /\ booted' = TRUE
  /\ core' = "running"
  /\ round' = params
  /\ title' = IF settings.title THEN "running" ELSE "none"
  /\ UNCHANGED <<setupVars, hooks, capture, running, stop, managers,
                 hostCall, params, threw>>

\* A bug: the thread is joined and was never asked to end.
JoinTitleOnly == title

AskTitleToStop == IF title = "running" THEN "asked" ELSE title

MainLoopReturns ==
  /\ life = "up"
  /\ stop
  /\ life' = "leaving"
  /\ title' = AskTitleToStop
  /\ UNCHANGED <<setupVars, hooks, capture, running, booted, core, stop,
                 gameVars>>

\* The end of Run: the title thread is joined, the core stopped and shut down.
LeaveRun ==
  /\ life = "leaving"
  /\ title \in {"none", "ended"}
  /\ life' = "returned"
  /\ title' = "none"
  /\ core' = "down"
  /\ stop' = TRUE           \* the state callback: Uninitialized
  /\ booted' = FALSE
  /\ running' = FALSE
  /\ UNCHANGED <<setupVars, hooks, capture, gameVars>>

\* An exception leaves Run; the title thread is asked to stop and joined on the way.
RunThrows ==
  /\ life \in {"booting", "up"}
  /\ life' = "returned"
  /\ title' = "none"
  /\ threw' = TRUE
  /\ UNCHANGED <<setupVars, hooks, capture, running, booted, core, stop,
                 managers, hostCall, params, round>>

-----------------------------------------------------------------------------
(* The destructor *)

DestroyDiagnostics ==
  /\ life \in {"idle", "returned"}
  /\ life' = "dying"
  /\ stop' = TRUE           \* RequestStop
  /\ IF services.diagnostics
     THEN /\ capture' = FALSE
          /\ hooks' = hooks \ {"present"}
     ELSE UNCHANGED <<capture, hooks>>
  /\ services' = [services EXCEPT !.diagnostics = FALSE]
  /\ UNCHANGED <<settings, statics, running, booted, core, title, gameVars>>

\* A bug: the state callback outlives the platform it stops.
DestroyCoreOnly ==
  /\ life = "dying"
  /\ life' = "coreless"
  /\ core' = IF booted THEN "down" ELSE core
  /\ UNCHANGED <<setupVars, hooks, capture, running, booted, stop, title, gameVars>>

DestroyCore ==
  /\ life = "dying"
  /\ life' = "coreless"
  /\ core' = IF booted THEN "down" ELSE core
  /\ hooks' = hooks \ {"state"}
  /\ UNCHANGED <<setupVars, capture, running, booted, stop, title,
                 gameVars>>

\* Controllers, the user interface if it is the Runtime's own, then the statics.
DestroyRest ==
  /\ life = "coreless"
  /\ life' = "none"
  /\ services' = [services EXCEPT !.controllers = FALSE, !.ownsUi = FALSE,
                                  !.ui = IF services.ownsUi THEN @ - 1 ELSE @]
  /\ statics' = [statics EXCEPT !.active = FALSE, !.platform = FALSE]
  /\ booted' = FALSE /\ running' = FALSE
  /\ UNCHANGED <<settings, hooks, capture, core, stop, title, gameVars>>

-----------------------------------------------------------------------------
(* What other threads do *)

\* RequestStop of a Runtime that is there.
RequestStop ==
  /\ stop' = TRUE
  /\ UNCHANGED <<setupVars, life, hooks, capture, running, booted, core,
                 title, gameVars>>

\* The window is closed, or Host_Message tells the platform to stop.
UserStops ==
  /\ life = "up"
  /\ statics.platform
  /\ ~stop
  /\ RequestStop

\* The core ends by itself; only the state callback tells the main loop.
CoreEnds ==
  /\ core = "running"
  /\ life = "up"
  /\ core' = "ended"
  /\ stop' = (stop \/ "state" \in hooks)
  /\ UNCHANGED <<setupVars, life, hooks, capture, running, booted, title,
                 gameVars>>

\* A frame is presented: a capture with a limit ends when it is reached.
CaptureReachesLimit ==
  /\ core = "running"
  /\ "present" \in hooks
  /\ capture
  /\ capture' = FALSE
  /\ UNCHANGED <<setupVars, life, hooks, running, booted, core, stop,
                 title, gameVars>>

\* The title thread notices that it was asked to stop.
TitleThreadEnds ==
  /\ title = "asked"
  /\ title' = "ended"
  /\ UNCHANGED <<setupVars, life, hooks, capture, running, booted, core,
                 stop, gameVars>>

RunStep ==
  \/ EnterRun
  \/ \E accepted \in BOOLEAN : TakeBootData(accepted)
  \/ RegisterPresent
  \/ RegisterState
  \/ BootCore \/ BootCoreFails
  \/ MainLoopReturns
  \/ LeaveRun

DestroyStep == DestroyDiagnostics \/ DestroyCore \/ DestroyRest
=============================================================================
