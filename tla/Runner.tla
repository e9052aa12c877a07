------------------------------- MODULE Runner -------------------------------
(* moderngekko_run: one Runtime, or a netplay session of several, with the  *)
(* detached thread that reads diagnostics commands and the thread that      *)
(* turns a signal into RequestStop.                                         *)
EXTENDS NetplaySession

CONSTANTS
  MaxSignals     \* bound: SIGINT and SIGTERM

ASSUME SignalsAssumption == MaxSignals \in Nat

VARIABLES
  console,       \* DiagnosticsConsole::runtime, 0 when it is null
  watcher,       \* the signal watcher: "none", "watching", "done"
  signals,       \* signals received after the handler was installed
  stopRequested  \* s_stop_requested

runnerVars == <<console, watcher, signals, stopRequested>>
vars == <<runtimeVars, sessionVars, runnerVars>>

Init ==
  /\ RuntimeInit
  /\ SessionInit
  /\ pc \in {"solo", "session"}
  /\ console = 0
  /\ watcher = "none"
  /\ signals = 0
  /\ stopRequested = FALSE

-----------------------------------------------------------------------------
(* RunMain without netplay *)

CreateSolo(loadsMods) ==
  /\ pc = "solo"
  /\ CreateSucceeds(loadsMods)
  /\ pc' = "watched"
  /\ UNCHANGED <<ui, server, losing, runnerVars>>

CreateSoloFails ==
  /\ pc = "solo"
  /\ CreateFails
  /\ pc' = "exit"
  /\ UNCHANGED <<ui, server, losing, runnerVars>>

\* The handlers, the console reader when there is a terminal, and the watcher.
StartThreads(interactive) ==
  /\ pc = "watched"
  /\ pc' = "playing"
  /\ console' = IF services.diagnostics /\ interactive THEN managers ELSE 0
  /\ watcher' = "watching"
  /\ UNCHANGED <<runtimeVars, ui, server, losing, signals, stopRequested>>

\* Run has returned: the reader loses the Runtime, under the console's mutex.
ClearConsole ==
  /\ pc = "playing"
  /\ life = "returned" /\ ~threw
  /\ pc' = "ran"
  /\ console' = 0
  /\ UNCHANGED <<runtimeVars, ui, server, losing, watcher, signals, stopRequested>>

\* Run was left by an exception: the watcher is joined on the way out.
RunnerUnwinds ==
  /\ pc = "playing"
  /\ life = "returned" /\ threw
  /\ pc' = "ran"
  /\ UNCHANGED <<runtimeVars, ui, server, losing, runnerVars>>

\* A bug: the watcher is detached, as the console's reader is.
DetachWatcher ==
  /\ pc = "ran"
  /\ pc' = "unwatched"
  /\ UNCHANGED <<runtimeVars, ui, server, losing, runnerVars>>

\* The watcher is a jthread declared after the Runtime, and is joined before it.
JoinWatcher ==
  /\ pc = "ran"
  /\ pc' = "unwatched"
  /\ watcher' = "done"
  /\ UNCHANGED <<runtimeVars, ui, server, losing, console, signals, stopRequested>>

ReturnFromMain ==
  /\ pc = "unwatched"
  /\ life = "none"
  /\ pc' = "exit"
  /\ UNCHANGED <<runtimeVars, ui, server, losing, runnerVars>>

\* The host thread calls Run, and destroys the Runtime when its owner is left.
HostRuns ==
  /\ pc \in {"run", "playing"}
  /\ RunStep
  /\ UNCHANGED <<sessionVars, runnerVars>>

HostRunThrows ==
  /\ pc \in {"run", "playing"}
  /\ RunThrows
  /\ UNCHANGED <<sessionVars, runnerVars>>

HostDestroys ==
  /\ pc \in {"unset", "unwinding", "unwatched"}
  /\ DestroyStep
  /\ UNCHANGED <<sessionVars, runnerVars>>

-----------------------------------------------------------------------------
(* The other threads of the runner *)

\* A command under the console's mutex: 'c' toggles the capture.
ConsoleCommand ==
  /\ console # 0
  /\ services.diagnostics
  /\ capture' = ~capture
  /\ UNCHANGED <<setupVars, life, hooks, running, booted, core, stop, title, gameVars,
                 sessionVars, runnerVars>>

HandleStopSignal ==
  /\ watcher # "none" /\ pc # "exit"
  /\ signals < MaxSignals
  /\ signals' = signals + 1
  /\ stopRequested' = TRUE
  /\ UNCHANGED <<runtimeVars, sessionVars, console, watcher>>

\* The watcher asks once, and returns.
WatcherRequestsStop ==
  /\ watcher = "watching"
  /\ stopRequested
  /\ stopRequested' = FALSE
  /\ watcher' = "done"
  /\ RequestStop
  /\ UNCHANGED <<sessionVars, console, signals>>

HostStep ==
  \/ \E loadsMods \in BOOLEAN : CreateSolo(loadsMods)
  \/ CreateSoloFails
  \/ \E interactive \in BOOLEAN : StartThreads(interactive)
  \/ ClearConsole \/ RunnerUnwinds \/ JoinWatcher \/ ReturnFromMain
  \/ HostRuns \/ HostDestroys
  \/ SessionStep /\ UNCHANGED runnerVars

\* The process is over, threads and all.
Exited == pc = "exit" /\ UNCHANGED vars

Next ==
  \/ HostStep
  \/ HostRunThrows
  \/ /\ UNCHANGED runnerVars
     /\ ClientStep \/ LossStopsGame \/ PlayerStep
  \/ /\ UNCHANGED <<sessionVars, runnerVars>>
     /\ UserStops \/ CoreEnds \/ CaptureReachesLimit \/ TitleThreadEnds
  \/ ConsoleCommand
  \/ HandleStopSignal
  \/ WatcherRequestsStop
  \/ Exited

Spec == Init /\ [][Next]_vars

\* The host's thread, the title thread, the watcher and the client's thread are
\* scheduled; that somebody presses a button, or that the core ends, is not assumed.
Fairness ==
  /\ WF_vars(HostStep)
  /\ WF_vars(TitleThreadEnds /\ UNCHANGED <<sessionVars, runnerVars>>)
  /\ WF_vars(WatcherRequestsStop)
  /\ WF_vars(LossStopsGame /\ UNCHANGED runnerVars)

FairSpec == Spec /\ Fairness
-----------------------------------------------------------------------------
(* Properties *)

TypeOK ==
  /\ life \in InRun \union Dying \union {"none", "idle", "returned"}
  /\ statics \in [active: BOOLEAN, platform: BOOLEAN, external: BOOLEAN, bootData: 0..MaxGames]
  /\ services \in [ui: 0..1, ownsUi: BOOLEAN, controllers: BOOLEAN, diagnostics: BOOLEAN]
  /\ hooks \subseteq {"present", "state"}
  /\ core \in {"down", "running", "ended"}
  /\ title \in {"none", "running", "asked", "ended"}
  /\ {hostCall, ui.runtime, console} \subseteq 0..managers

Alive == life \notin Dying \union {"none"}

\* Whoever can still reach the Runtime finds one whose destructor has not begun:
\* the netplay callbacks by SessionUI's pointer, the console by its own, the
\* signal watcher by reference, the title thread by s_platform, the core by its
\* callbacks.  Only the two pointers may dangle, and only once Run has thrown.
NothingReachesADeadRuntime ==
  /\ ~threw /\ (ui.runtime # 0 \/ console # 0) => Alive
  /\ watcher = "watching" => Alive
  /\ title # "none" => Alive /\ statics.platform
  /\ core # "down" => life # "none" /\ statics.platform
  /\ hooks # {} => life # "none"

\* A Runtime that is gone, however Create and Run ended, leaves nothing behind
\* that the next one would meet: a hook, a capture, a static, a service.
NothingLeftRegistered ==
  /\ life = "none" =>
       /\ hooks = {} /\ ~capture /\ ~running /\ ~booted
       /\ core = "down" /\ title = "none"
       /\ ~statics.active /\ ~statics.platform
       /\ ~services.controllers /\ ~services.diagnostics
       /\ services.ui = (IF statics.external THEN 1 ELSE 0)
  /\ pc = "lobby" => statics.bootData = NoData
  /\ pc = "exit" /\ ~threw => services.ui = 0 /\ ~statics.external

\* While the guest runs, the host calls of its code reach the mods of this
\* Runtime, never those of one that was destroyed.
HostCallsReachTheLiveManager ==
  core = "running" => hostCall \in {0, managers}

\* A Runtime that was asked to stop is destroyed, whoever asked and whenever: the
\* window, a signal, a netplay message, or the core's own end.
StopIsHonoured ==
  /\ (life # "none" /\ stop) ~> (life = "none")
  /\ (core = "ended") ~> (life = "none")
  /\ (watcher = "watching" /\ stopRequested) ~> (pc = "exit")
  /\ (losing /\ ui.runtime # 0) ~> (pc = "exit")

\* The runner plays its games one at a time, in the order they were started, and
\* none of them twice.
Rounds == INSTANCE GameRounds WITH played <- round, playing <- (core = "running")
ImplementsRounds == Rounds!Spec
=============================================================================
