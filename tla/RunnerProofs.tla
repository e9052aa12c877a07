---------------------------- MODULE RunnerProofs ----------------------------
(* The runner for any number of games, Runtimes and signals: nothing that   *)
(* can reach a Runtime outlives it, and a Runtime leaves nothing behind.    *)
EXTENDS Runner, Integers, TLAPS

Lobby == {"lobby", "booting", "made", "run", "unset", "gone", "unwinding",
          "connecting", "closing"}

(* Only what the records consist of matters here, not the types of all parts.*)
Shapes ==
  /\ statics = [active |-> statics.active, platform |-> statics.platform,
                external |-> statics.external, bootData |-> statics.bootData]
  /\ services = [ui |-> services.ui, ownsUi |-> services.ownsUi,
                 controllers |-> services.controllers, diagnostics |-> services.diagnostics]
  /\ ui = [start |-> ui.start, runtime |-> ui.runtime, lost |-> ui.lost]
  /\ hooks \subseteq {"present", "state"}

(* The host thread and its Runtime go together.                             *)
HostFollowsLife ==
  /\ pc \in {"solo", "session", "connecting", "lobby", "booting", "gone", "closing", "exit"} =>
       life = "none"
  /\ pc \in {"watched", "made"} => life = "idle"
  /\ pc \in {"playing", "run"} => life \in InRun \union {"idle", "returned"}
  /\ pc = "ran" => life = "returned"
  /\ pc \in {"unset", "unwinding", "unwatched"} => life \in Dying \union {"returned", "none"}

(* A pointer to the Runtime is there only while Run may be, unless it threw.*)
PointersFollowTheHost ==
  /\ ~threw /\ console # 0 => pc = "playing"
  /\ ~threw /\ ui.runtime # 0 => pc = "run"
  /\ watcher = "watching" => pc \in {"playing", "ran"}

(* What Run starts is taken down by Run or by a part of the destructor.     *)
WhatRunStarts ==
  /\ title # "none" => life \in {"up", "leaving"}
  /\ core # "down" => booted /\ life \in {"up", "leaving", "returned", "dying"}
  /\ hooks # {} => life \in InRun \union {"returned", "dying"}
  /\ "present" \in hooks => services.diagnostics
  /\ capture => services.diagnostics
  /\ life = "none" => ~running /\ ~booted

(* What Create sets up is there exactly while the Runtime is.               *)
WhatCreateSetsUp ==
  /\ statics.active <=> life # "none"
  /\ statics.platform <=> life # "none"
  /\ services.controllers <=> life # "none"
  /\ services.diagnostics => life \notin Dying \union {"none"}
  /\ services.ownsUi => life # "none"
  /\ services.ui = (IF statics.external THEN 1 ELSE 0) + (IF services.ownsUi THEN 1 ELSE 0)

(* What the session keeps up for all its Runtimes, and hands to the next.   *)
WhatTheSessionOwns ==
  /\ pc \in Lobby => statics.external
  /\ statics.external => pc \in Lobby \/ (pc = "exit" /\ threw)
  /\ pc = "unwinding" => threw
  /\ statics.bootData # NoData =>
       \/ pc \in {"booting", "made", "closing", "exit"}
       \/ pc = "run" /\ life \in {"idle", "entered"}

IInv ==
  /\ Shapes
  /\ HostFollowsLife
  /\ PointersFollowTheHost
  /\ WhatRunStarts
  /\ WhatCreateSetsUp
  /\ WhatTheSessionOwns

-----------------------------------------------------------------------------
LEMMA InitHolds == Init => IInv
<1> SUFFICES ASSUME Init PROVE IInv
  OBVIOUS
<1> USE DEF Init, RuntimeInit, SessionInit, Lobby, InRun, Dying, NoData
<1>1. Shapes
  BY DEF Shapes
<1>2. HostFollowsLife /\ PointersFollowTheHost
  BY DEF HostFollowsLife, PointersFollowTheHost
<1>3. WhatRunStarts
  BY DEF WhatRunStarts
<1>4. WhatCreateSetsUp /\ WhatTheSessionOwns
  BY DEF WhatCreateSetsUp, WhatTheSessionOwns
<1>5. QED
  BY <1>1, <1>2, <1>3, <1>4 DEF IInv

LEMMA RunKeeps ==
  ASSUME IInv, HostRuns
  PROVE  IInv'
<1> USE DEF HostRuns, IInv, Shapes, Lobby, InRun, Dying, NoData, setupVars, gameVars,
            sessionVars, runnerVars
<1>1. CASE EnterRun
  <2>1. Shapes'
    BY <1>1 DEF EnterRun
  <2>2. HostFollowsLife' /\ PointersFollowTheHost'
    BY <1>1 DEF EnterRun, HostFollowsLife, PointersFollowTheHost
  <2>3. WhatRunStarts'
    BY <1>1 DEF EnterRun, HostFollowsLife, WhatRunStarts, WhatCreateSetsUp
  <2>4. WhatCreateSetsUp'
    BY <1>1 DEF EnterRun, HostFollowsLife, WhatCreateSetsUp, WhatTheSessionOwns
  <2>5. WhatTheSessionOwns'
    BY <1>1 DEF EnterRun, HostFollowsLife, WhatTheSessionOwns
  <2>6. QED
    BY <2>1, <2>2, <2>3, <2>4, <2>5
<1>2. CASE \E accepted \in BOOLEAN : TakeBootData(accepted)
  <2>1. Shapes'
    BY <1>2 DEF TakeBootData
  <2>2. HostFollowsLife' /\ PointersFollowTheHost'
    BY <1>2 DEF TakeBootData, HostFollowsLife, PointersFollowTheHost
  <2>3. WhatRunStarts'
    BY <1>2 DEF TakeBootData, HostFollowsLife, WhatRunStarts, WhatCreateSetsUp
  <2>4. WhatCreateSetsUp'
    BY <1>2 DEF TakeBootData, HostFollowsLife, WhatCreateSetsUp, WhatTheSessionOwns
  <2>5. WhatTheSessionOwns'
    BY <1>2 DEF TakeBootData, HostFollowsLife, WhatTheSessionOwns
  <2>6. QED
    BY <2>1, <2>2, <2>3, <2>4, <2>5
<1>3. CASE RegisterPresent
  <2>1. Shapes'
    BY <1>3 DEF RegisterPresent
  <2>2. HostFollowsLife' /\ PointersFollowTheHost'
    BY <1>3 DEF RegisterPresent, HostFollowsLife, PointersFollowTheHost
  <2>3. WhatRunStarts'
    BY <1>3 DEF RegisterPresent, HostFollowsLife, WhatRunStarts, WhatCreateSetsUp
  <2>4. WhatCreateSetsUp'
    BY <1>3 DEF RegisterPresent, HostFollowsLife, WhatCreateSetsUp, WhatTheSessionOwns
  <2>5. WhatTheSessionOwns'
    BY <1>3 DEF RegisterPresent, HostFollowsLife, WhatTheSessionOwns
  <2>6. QED
    BY <2>1, <2>2, <2>3, <2>4, <2>5
<1>4. CASE RegisterState
  <2>1. Shapes'
    BY <1>4 DEF RegisterState
  <2>2. HostFollowsLife' /\ PointersFollowTheHost'
    BY <1>4 DEF RegisterState, HostFollowsLife, PointersFollowTheHost
  <2>3. WhatRunStarts'
    BY <1>4 DEF RegisterState, HostFollowsLife, WhatRunStarts, WhatCreateSetsUp
  <2>4. WhatCreateSetsUp'
    BY <1>4 DEF RegisterState, HostFollowsLife, WhatCreateSetsUp, WhatTheSessionOwns
  <2>5. WhatTheSessionOwns'
    BY <1>4 DEF RegisterState, HostFollowsLife, WhatTheSessionOwns
  <2>6. QED
    BY <2>1, <2>2, <2>3, <2>4, <2>5
<1>5. CASE BootCore
  <2>1. Shapes'
    BY <1>5 DEF BootCore
  <2>2. HostFollowsLife' /\ PointersFollowTheHost'
    BY <1>5 DEF BootCore, HostFollowsLife, PointersFollowTheHost
  <2>3. WhatRunStarts'
    BY <1>5 DEF BootCore, HostFollowsLife, WhatRunStarts, WhatCreateSetsUp
  <2>4. WhatCreateSetsUp'
    BY <1>5 DEF BootCore, HostFollowsLife, WhatCreateSetsUp, WhatTheSessionOwns
  <2>5. WhatTheSessionOwns'
    BY <1>5 DEF BootCore, HostFollowsLife, WhatTheSessionOwns
  <2>6. QED
    BY <2>1, <2>2, <2>3, <2>4, <2>5
<1>6. CASE BootCoreFails
  <2>1. Shapes'
    BY <1>6 DEF BootCoreFails
  <2>2. HostFollowsLife' /\ PointersFollowTheHost'
    BY <1>6 DEF BootCoreFails, HostFollowsLife, PointersFollowTheHost
  <2>3. WhatRunStarts'
    BY <1>6 DEF BootCoreFails, HostFollowsLife, WhatRunStarts, WhatCreateSetsUp
  <2>4. WhatCreateSetsUp'
    BY <1>6 DEF BootCoreFails, HostFollowsLife, WhatCreateSetsUp, WhatTheSessionOwns
  <2>5. WhatTheSessionOwns'
    BY <1>6 DEF BootCoreFails, HostFollowsLife, WhatTheSessionOwns
  <2>6. QED
    BY <2>1, <2>2, <2>3, <2>4, <2>5
<1>7. CASE MainLoopReturns
  <2>1. Shapes'
    BY <1>7 DEF MainLoopReturns, AskTitleToStop
  <2>2. HostFollowsLife' /\ PointersFollowTheHost'
    BY <1>7 DEF MainLoopReturns, AskTitleToStop, HostFollowsLife, PointersFollowTheHost
  <2>3. WhatRunStarts'
    BY <1>7 DEF MainLoopReturns, AskTitleToStop, HostFollowsLife, WhatRunStarts,
         WhatCreateSetsUp
  <2>4. WhatCreateSetsUp'
    BY <1>7 DEF MainLoopReturns, AskTitleToStop, HostFollowsLife, WhatCreateSetsUp,
         WhatTheSessionOwns
  <2>5. WhatTheSessionOwns'
    BY <1>7 DEF MainLoopReturns, AskTitleToStop, HostFollowsLife, WhatTheSessionOwns
  <2>6. QED
    BY <2>1, <2>2, <2>3, <2>4, <2>5
<1>8. CASE LeaveRun
  <2>1. Shapes'
    BY <1>8 DEF LeaveRun
  <2>2. HostFollowsLife' /\ PointersFollowTheHost'
    BY <1>8 DEF LeaveRun, HostFollowsLife, PointersFollowTheHost
  <2>3. WhatRunStarts'
    BY <1>8 DEF LeaveRun, HostFollowsLife, WhatRunStarts, WhatCreateSetsUp
  <2>4. WhatCreateSetsUp'
    BY <1>8 DEF LeaveRun, HostFollowsLife, WhatCreateSetsUp, WhatTheSessionOwns
  <2>5. WhatTheSessionOwns'
    BY <1>8 DEF LeaveRun, HostFollowsLife, WhatTheSessionOwns
  <2>6. QED
    BY <2>1, <2>2, <2>3, <2>4, <2>5
<1>9. QED
  BY <1>1, <1>2, <1>3, <1>4, <1>5, <1>6, <1>7, <1>8 DEF RunStep

LEMMA DestroyKeeps ==
  ASSUME IInv, HostDestroys
  PROVE  IInv'
<1> USE DEF HostDestroys, IInv, Shapes, Lobby, InRun, Dying, NoData, setupVars, gameVars,
            sessionVars, runnerVars
<1>1. CASE DestroyDiagnostics
  <2>1. Shapes'
    BY <1>1 DEF DestroyDiagnostics
  <2>2. HostFollowsLife' /\ PointersFollowTheHost'
    BY <1>1 DEF DestroyDiagnostics, HostFollowsLife, PointersFollowTheHost
  <2>3. WhatRunStarts'
    BY <1>1 DEF DestroyDiagnostics, HostFollowsLife, WhatRunStarts, WhatCreateSetsUp
  <2>4. WhatCreateSetsUp'
    BY <1>1 DEF DestroyDiagnostics, HostFollowsLife, WhatCreateSetsUp, WhatTheSessionOwns
  <2>5. WhatTheSessionOwns'
    BY <1>1 DEF DestroyDiagnostics, HostFollowsLife, WhatTheSessionOwns
  <2>6. QED
    BY <2>1, <2>2, <2>3, <2>4, <2>5
<1>2. CASE DestroyCore
  <2>1. Shapes'
    BY <1>2 DEF DestroyCore
  <2>2. HostFollowsLife' /\ PointersFollowTheHost'
    BY <1>2 DEF DestroyCore, HostFollowsLife, PointersFollowTheHost
  <2>3. WhatRunStarts'
    BY <1>2 DEF DestroyCore, HostFollowsLife, WhatRunStarts, WhatCreateSetsUp
  <2>4. WhatCreateSetsUp'
    BY <1>2 DEF DestroyCore, HostFollowsLife, WhatCreateSetsUp, WhatTheSessionOwns
  <2>5. WhatTheSessionOwns'
    BY <1>2 DEF DestroyCore, HostFollowsLife, WhatTheSessionOwns
  <2>6. QED
    BY <2>1, <2>2, <2>3, <2>4, <2>5
<1>3. CASE DestroyRest
  <2>1. Shapes'
    BY <1>3 DEF DestroyRest
  <2>2. HostFollowsLife' /\ PointersFollowTheHost'
    BY <1>3 DEF DestroyRest, HostFollowsLife, PointersFollowTheHost
  <2>3. WhatRunStarts'
    BY <1>3 DEF DestroyRest, HostFollowsLife, WhatRunStarts, WhatCreateSetsUp
  <2>4. WhatCreateSetsUp'
    BY <1>3 DEF DestroyRest, HostFollowsLife, WhatCreateSetsUp, WhatTheSessionOwns
  <2>5. WhatTheSessionOwns'
    BY <1>3 DEF DestroyRest, HostFollowsLife, WhatTheSessionOwns
  <2>6. QED
    BY <2>1, <2>2, <2>3, <2>4, <2>5
<1>4. QED
  BY <1>1, <1>2, <1>3 DEF DestroyStep

LEMMA CreateSetsUp ==
  ASSUME IInv, NEW loadsMods \in BOOLEAN, CreateSucceeds(loadsMods)
  PROVE  WhatCreateSetsUp'
<1> USE DEF IInv, Shapes, WhatCreateSetsUp, CreateSucceeds, Dying
<1>1. services.ui = (IF statics.external THEN 1 ELSE 0) /\ statics'.external = statics.external
  OBVIOUS
<1>2. services'.ui = services.ui + (IF statics.external THEN 0 ELSE 1)
  OBVIOUS
<1>3. services'.ui = 1
  BY <1>1, <1>2
<1>4. services'.ownsUi <=> ~statics.external
  OBVIOUS
<1>5. services'.ui = (IF statics'.external THEN 1 ELSE 0) + (IF services'.ownsUi THEN 1 ELSE 0)
  BY <1>1, <1>3, <1>4
<1>6. /\ life' = "idle" /\ statics'.active /\ statics'.platform
      /\ services'.controllers
  OBVIOUS
<1>7. QED
  BY <1>5, <1>6

LEMMA SoloKeeps ==
  ASSUME IInv, (\E loadsMods \in BOOLEAN : CreateSolo(loadsMods)) \/ CreateSoloFails
              \/ (\E interactive \in BOOLEAN : StartThreads(interactive))
              \/ ClearConsole \/ RunnerUnwinds \/ JoinWatcher \/ ReturnFromMain
  PROVE  IInv'
<1> USE DEF runtimeVars, IInv, Shapes, Lobby, InRun, Dying, NoData, setupVars, gameVars,
            sessionVars, runnerVars
<1>1. CASE \E loadsMods \in BOOLEAN : CreateSolo(loadsMods)
  <2>1. Shapes'
    BY <1>1 DEF CreateSolo, CreateSucceeds, SetUpDiagnostics
  <2>2. HostFollowsLife' /\ PointersFollowTheHost'
    BY <1>1 DEF CreateSolo, CreateSucceeds, SetUpDiagnostics, HostFollowsLife,
         PointersFollowTheHost
  <2>3. WhatRunStarts'
    BY <1>1 DEF CreateSolo, CreateSucceeds, SetUpDiagnostics, HostFollowsLife,
         WhatRunStarts, WhatCreateSetsUp
  <2>4. WhatCreateSetsUp'
    BY <1>1, CreateSetsUp DEF CreateSolo
  <2>5. WhatTheSessionOwns'
    BY <1>1 DEF CreateSolo, CreateSucceeds, SetUpDiagnostics, HostFollowsLife,
         WhatTheSessionOwns
  <2>6. QED
    BY <2>1, <2>2, <2>3, <2>4, <2>5
<1>2. CASE CreateSoloFails
  <2>1. Shapes'
    BY <1>2 DEF CreateSoloFails, CreateFails
  <2>2. HostFollowsLife' /\ PointersFollowTheHost'
    BY <1>2 DEF CreateSoloFails, CreateFails, HostFollowsLife, PointersFollowTheHost
  <2>3. WhatRunStarts'
    BY <1>2 DEF CreateSoloFails, CreateFails, HostFollowsLife, WhatRunStarts,
         WhatCreateSetsUp
  <2>4. WhatCreateSetsUp'
    BY <1>2 DEF CreateSoloFails, CreateFails, HostFollowsLife, WhatCreateSetsUp,
         WhatTheSessionOwns
  <2>5. WhatTheSessionOwns'
    BY <1>2 DEF CreateSoloFails, CreateFails, HostFollowsLife, WhatTheSessionOwns
  <2>6. QED
    BY <2>1, <2>2, <2>3, <2>4, <2>5
<1>3. CASE \E interactive \in BOOLEAN : StartThreads(interactive)
  <2>1. Shapes'
    BY <1>3 DEF StartThreads
  <2>2. HostFollowsLife' /\ PointersFollowTheHost'
    BY <1>3 DEF StartThreads, HostFollowsLife, PointersFollowTheHost
  <2>3. WhatRunStarts'
    BY <1>3 DEF StartThreads, HostFollowsLife, WhatRunStarts, WhatCreateSetsUp
  <2>4. WhatCreateSetsUp'
    BY <1>3 DEF StartThreads, HostFollowsLife, WhatCreateSetsUp, WhatTheSessionOwns
  <2>5. WhatTheSessionOwns'
    BY <1>3 DEF StartThreads, HostFollowsLife, WhatTheSessionOwns
  <2>6. QED
    BY <2>1, <2>2, <2>3, <2>4, <2>5
<1>4. CASE ClearConsole \/ RunnerUnwinds
  <2>1. Shapes'
    BY <1>4 DEF ClearConsole, RunnerUnwinds
  <2>2. HostFollowsLife' /\ PointersFollowTheHost'
    BY <1>4 DEF ClearConsole, RunnerUnwinds, HostFollowsLife, PointersFollowTheHost
  <2>3. WhatRunStarts'
    BY <1>4 DEF ClearConsole, RunnerUnwinds, HostFollowsLife, WhatRunStarts,
         WhatCreateSetsUp
  <2>4. WhatCreateSetsUp'
    BY <1>4 DEF ClearConsole, RunnerUnwinds, HostFollowsLife, WhatCreateSetsUp,
         WhatTheSessionOwns
  <2>5. WhatTheSessionOwns'
    BY <1>4 DEF ClearConsole, RunnerUnwinds, HostFollowsLife, WhatTheSessionOwns
  <2>6. QED
    BY <2>1, <2>2, <2>3, <2>4, <2>5
<1>5. CASE JoinWatcher \/ ReturnFromMain
  <2>1. Shapes'
    BY <1>5 DEF JoinWatcher, ReturnFromMain
  <2>2. HostFollowsLife' /\ PointersFollowTheHost'
    BY <1>5 DEF JoinWatcher, ReturnFromMain, HostFollowsLife, PointersFollowTheHost
  <2>3. WhatRunStarts'
    BY <1>5 DEF JoinWatcher, ReturnFromMain, HostFollowsLife, WhatRunStarts,
         WhatCreateSetsUp
  <2>4. WhatCreateSetsUp'
    BY <1>5 DEF JoinWatcher, ReturnFromMain, HostFollowsLife, WhatCreateSetsUp,
         WhatTheSessionOwns
  <2>5. WhatTheSessionOwns'
    BY <1>5 DEF JoinWatcher, ReturnFromMain, HostFollowsLife, WhatTheSessionOwns
  <2>6. QED
    BY <2>1, <2>2, <2>3, <2>4, <2>5
<1>6. QED
  BY <1>1, <1>2, <1>3, <1>4, <1>5

LEMMA SessionKeeps ==
  ASSUME IInv, SessionStep, UNCHANGED runnerVars
  PROVE  IInv'
<1> USE DEF runtimeVars, IInv, Shapes, Lobby, InRun, Dying, NoData, setupVars, gameVars,
            sessionVars, runnerVars
<1>1. CASE OpenSession
  <2>1. Shapes'
    BY <1>1 DEF OpenSession, ServicesUp
  <2>2. HostFollowsLife' /\ PointersFollowTheHost'
    BY <1>1 DEF OpenSession, ServicesUp, HostFollowsLife, PointersFollowTheHost
  <2>3. WhatRunStarts'
    BY <1>1 DEF OpenSession, ServicesUp, HostFollowsLife, WhatRunStarts, WhatCreateSetsUp
  <2>4. WhatCreateSetsUp'
    BY <1>1 DEF OpenSession, ServicesUp, HostFollowsLife, WhatCreateSetsUp,
         WhatTheSessionOwns
  <2>5. WhatTheSessionOwns'
    BY <1>1 DEF OpenSession, ServicesUp, HostFollowsLife, WhatTheSessionOwns
  <2>6. QED
    BY <2>1, <2>2, <2>3, <2>4, <2>5
<1>2. CASE Connect
  <2>1. Shapes'
    BY <1>2 DEF Connect
  <2>2. HostFollowsLife' /\ PointersFollowTheHost'
    BY <1>2 DEF Connect, HostFollowsLife, PointersFollowTheHost
  <2>3. WhatRunStarts'
    BY <1>2 DEF Connect, HostFollowsLife, WhatRunStarts, WhatCreateSetsUp
  <2>4. WhatCreateSetsUp'
    BY <1>2 DEF Connect, HostFollowsLife, WhatCreateSetsUp, WhatTheSessionOwns
  <2>5. WhatTheSessionOwns'
    BY <1>2 DEF Connect, HostFollowsLife, WhatTheSessionOwns
  <2>6. QED
    BY <2>1, <2>2, <2>3, <2>4, <2>5
<1>3. CASE ConnectFails
  <2>1. Shapes'
    BY <1>3 DEF ConnectFails, ServicesDown
  <2>2. HostFollowsLife' /\ PointersFollowTheHost'
    BY <1>3 DEF ConnectFails, ServicesDown, HostFollowsLife, PointersFollowTheHost
  <2>3. WhatRunStarts'
    BY <1>3 DEF ConnectFails, ServicesDown, HostFollowsLife, WhatRunStarts, WhatCreateSetsUp
  <2>4. WhatCreateSetsUp'
    BY <1>3 DEF ConnectFails, ServicesDown, HostFollowsLife, WhatCreateSetsUp,
         WhatTheSessionOwns
  <2>5. WhatTheSessionOwns'
    BY <1>3 DEF ConnectFails, ServicesDown, HostFollowsLife, WhatTheSessionOwns
  <2>6. QED
    BY <2>1, <2>2, <2>3, <2>4, <2>5
<1>4. CASE \E starts \in BOOLEAN : LobbyBoots(starts)
  <2>1. Shapes'
    BY <1>4 DEF LobbyBoots, TakeStartRequest
  <2>2. HostFollowsLife' /\ PointersFollowTheHost'
    BY <1>4 DEF LobbyBoots, TakeStartRequest, HostFollowsLife, PointersFollowTheHost
  <2>3. WhatRunStarts'
    BY <1>4 DEF LobbyBoots, TakeStartRequest, HostFollowsLife, WhatRunStarts,
         WhatCreateSetsUp
  <2>4. WhatCreateSetsUp'
    BY <1>4 DEF LobbyBoots, TakeStartRequest, HostFollowsLife, WhatCreateSetsUp,
         WhatTheSessionOwns
  <2>5. WhatTheSessionOwns'
    BY <1>4 DEF LobbyBoots, TakeStartRequest, HostFollowsLife, WhatTheSessionOwns
  <2>6. QED
    BY <2>1, <2>2, <2>3, <2>4, <2>5
<1>5. CASE LobbyNoticesLoss
  <2>1. Shapes'
    BY <1>5 DEF LobbyNoticesLoss, CloseLobby
  <2>2. HostFollowsLife' /\ PointersFollowTheHost'
    BY <1>5 DEF LobbyNoticesLoss, CloseLobby, HostFollowsLife, PointersFollowTheHost
  <2>3. WhatRunStarts'
    BY <1>5 DEF LobbyNoticesLoss, CloseLobby, HostFollowsLife, WhatRunStarts,
         WhatCreateSetsUp
  <2>4. WhatCreateSetsUp'
    BY <1>5 DEF LobbyNoticesLoss, CloseLobby, HostFollowsLife, WhatCreateSetsUp,
         WhatTheSessionOwns
  <2>5. WhatTheSessionOwns'
    BY <1>5 DEF LobbyNoticesLoss, CloseLobby, HostFollowsLife, WhatTheSessionOwns
  <2>6. QED
    BY <2>1, <2>2, <2>3, <2>4, <2>5
<1>6. CASE \E loadsMods \in BOOLEAN : CreateInSession(loadsMods)
  <2>1. Shapes'
    BY <1>6 DEF CreateInSession, CreateSucceeds, SetUpDiagnostics
  <2>2. HostFollowsLife' /\ PointersFollowTheHost'
    BY <1>6 DEF CreateInSession, CreateSucceeds, SetUpDiagnostics, HostFollowsLife,
         PointersFollowTheHost
  <2>3. WhatRunStarts'
    BY <1>6 DEF CreateInSession, CreateSucceeds, SetUpDiagnostics, HostFollowsLife,
         WhatRunStarts, WhatCreateSetsUp
  <2>4. WhatCreateSetsUp'
    BY <1>6, CreateSetsUp DEF CreateInSession
  <2>5. WhatTheSessionOwns'
    BY <1>6 DEF CreateInSession, CreateSucceeds, SetUpDiagnostics, HostFollowsLife,
         WhatTheSessionOwns
  <2>6. QED
    BY <2>1, <2>2, <2>3, <2>4, <2>5
<1>7. CASE CreateInSessionFails
  <2>1. Shapes'
    BY <1>7 DEF CreateInSessionFails, CreateFails
  <2>2. HostFollowsLife' /\ PointersFollowTheHost'
    BY <1>7 DEF CreateInSessionFails, CreateFails, HostFollowsLife, PointersFollowTheHost
  <2>3. WhatRunStarts'
    BY <1>7 DEF CreateInSessionFails, CreateFails, HostFollowsLife, WhatRunStarts,
         WhatCreateSetsUp
  <2>4. WhatCreateSetsUp'
    BY <1>7 DEF CreateInSessionFails, CreateFails, HostFollowsLife, WhatCreateSetsUp,
         WhatTheSessionOwns
  <2>5. WhatTheSessionOwns'
    BY <1>7 DEF CreateInSessionFails, CreateFails, HostFollowsLife, WhatTheSessionOwns
  <2>6. QED
    BY <2>1, <2>2, <2>3, <2>4, <2>5
<1>8. CASE SetRuntime \/ UnsetRuntime
  <2>1. Shapes'
    BY <1>8 DEF SetRuntime, UnsetRuntime
  <2>2. HostFollowsLife' /\ PointersFollowTheHost'
    BY <1>8 DEF SetRuntime, UnsetRuntime, HostFollowsLife, PointersFollowTheHost
  <2>3. WhatRunStarts'
    BY <1>8 DEF SetRuntime, UnsetRuntime, HostFollowsLife, WhatRunStarts, WhatCreateSetsUp
  <2>4. WhatCreateSetsUp'
    BY <1>8 DEF SetRuntime, UnsetRuntime, HostFollowsLife, WhatCreateSetsUp,
         WhatTheSessionOwns
  <2>5. WhatTheSessionOwns'
    BY <1>8 DEF SetRuntime, UnsetRuntime, HostFollowsLife, WhatTheSessionOwns
  <2>6. QED
    BY <2>1, <2>2, <2>3, <2>4, <2>5
<1>9. CASE SessionUnwinds \/ SessionUnwound
  <2>1. Shapes'
    BY <1>9 DEF SessionUnwinds, SessionUnwound
  <2>2. HostFollowsLife' /\ PointersFollowTheHost'
    BY <1>9 DEF SessionUnwinds, SessionUnwound, HostFollowsLife, PointersFollowTheHost
  <2>3. WhatRunStarts'
    BY <1>9 DEF SessionUnwinds, SessionUnwound, HostFollowsLife, WhatRunStarts,
         WhatCreateSetsUp
  <2>4. WhatCreateSetsUp'
    BY <1>9 DEF SessionUnwinds, SessionUnwound, HostFollowsLife, WhatCreateSetsUp,
         WhatTheSessionOwns
  <2>5. WhatTheSessionOwns'
    BY <1>9 DEF SessionUnwinds, SessionUnwound, HostFollowsLife, WhatTheSessionOwns
  <2>6. QED
    BY <2>1, <2>2, <2>3, <2>4, <2>5
<1>10. CASE ClearReadyState \/ RemainOrLeave
  <2>1. Shapes'
    BY <1>10 DEF ClearReadyState, RemainOrLeave
  <2>2. HostFollowsLife' /\ PointersFollowTheHost'
    BY <1>10 DEF ClearReadyState, RemainOrLeave, HostFollowsLife, PointersFollowTheHost
  <2>3. WhatRunStarts'
    BY <1>10 DEF ClearReadyState, RemainOrLeave, HostFollowsLife, WhatRunStarts,
         WhatCreateSetsUp
  <2>4. WhatCreateSetsUp'
    BY <1>10 DEF ClearReadyState, RemainOrLeave, HostFollowsLife, WhatCreateSetsUp,
         WhatTheSessionOwns
  <2>5. WhatTheSessionOwns'
    BY <1>10 DEF ClearReadyState, RemainOrLeave, HostFollowsLife, WhatTheSessionOwns
  <2>6. QED
    BY <2>1, <2>2, <2>3, <2>4, <2>5
<1>11. CASE CloseSession
  <2>1. Shapes'
    BY <1>11 DEF CloseSession, ServicesDown
  <2>2. HostFollowsLife' /\ PointersFollowTheHost'
    BY <1>11 DEF CloseSession, ServicesDown, HostFollowsLife, PointersFollowTheHost
  <2>3. WhatRunStarts'
    BY <1>11 DEF CloseSession, ServicesDown, HostFollowsLife, WhatRunStarts,
         WhatCreateSetsUp
  <2>4. WhatCreateSetsUp'
    BY <1>11 DEF CloseSession, ServicesDown, HostFollowsLife, WhatCreateSetsUp,
         WhatTheSessionOwns
  <2>5. WhatTheSessionOwns'
    BY <1>11 DEF CloseSession, ServicesDown, HostFollowsLife, WhatTheSessionOwns
  <2>6. QED
    BY <2>1, <2>2, <2>3, <2>4, <2>5
<1>12. QED
  BY <1>1, <1>2, <1>3, <1>4, <1>5, <1>6, <1>7, <1>8, <1>9, <1>10, <1>11 DEF SessionStep

(* What is not a step of the host thread.                                   *)
OtherStep ==
  \/ HostRunThrows
  \/ ClientStep /\ UNCHANGED runnerVars
  \/ (LossStopsGame \/ PlayerStep) /\ UNCHANGED runnerVars
  \/ /\ UserStops \/ CoreEnds \/ CaptureReachesLimit \/ TitleThreadEnds
     /\ UNCHANGED <<sessionVars, runnerVars>>
  \/ ConsoleCommand
  \/ HandleStopSignal \/ WatcherRequestsStop
  \/ UNCHANGED vars

LEMMA OthersKeep ==
  ASSUME IInv, OtherStep
  PROVE  IInv'
<1> USE DEF runtimeVars, IInv, Shapes, Lobby, InRun, Dying, NoData, setupVars, gameVars,
            sessionVars, runnerVars
<1>1. CASE HostRunThrows
  <2>1. Shapes'
    BY <1>1 DEF HostRunThrows, RunThrows
  <2>2. HostFollowsLife' /\ PointersFollowTheHost'
    BY <1>1 DEF HostRunThrows, RunThrows, HostFollowsLife, PointersFollowTheHost
  <2>3. WhatRunStarts'
    BY <1>1 DEF HostRunThrows, RunThrows, HostFollowsLife, WhatRunStarts, WhatCreateSetsUp
  <2>4. WhatCreateSetsUp'
    BY <1>1 DEF HostRunThrows, RunThrows, HostFollowsLife, WhatCreateSetsUp,
         WhatTheSessionOwns
  <2>5. WhatTheSessionOwns'
    BY <1>1 DEF HostRunThrows, RunThrows, HostFollowsLife, WhatTheSessionOwns
  <2>6. QED
    BY <2>1, <2>2, <2>3, <2>4, <2>5
<1>2. CASE ClientStep /\ UNCHANGED runnerVars
  <2>1. Shapes'
    BY <1>2 DEF ClientStep, OnMsgStartGame, OnMsgStopGame, OnDesync, OnConnectionLost,
       StopGame
  <2>2. HostFollowsLife' /\ PointersFollowTheHost'
    BY <1>2 DEF ClientStep, OnMsgStartGame, OnMsgStopGame, OnDesync, OnConnectionLost,
       StopGame, HostFollowsLife, PointersFollowTheHost
  <2>3. WhatRunStarts'
    BY <1>2 DEF ClientStep, OnMsgStartGame, OnMsgStopGame, OnDesync, OnConnectionLost,
       StopGame, HostFollowsLife, WhatRunStarts, WhatCreateSetsUp
  <2>4. WhatCreateSetsUp'
    BY <1>2 DEF ClientStep, OnMsgStartGame, OnMsgStopGame, OnDesync, OnConnectionLost,
       StopGame, HostFollowsLife, WhatCreateSetsUp, WhatTheSessionOwns
  <2>5. WhatTheSessionOwns'
    BY <1>2 DEF ClientStep, OnMsgStartGame, OnMsgStopGame, OnDesync, OnConnectionLost,
       StopGame, HostFollowsLife, WhatTheSessionOwns
  <2>6. QED
    BY <2>1, <2>2, <2>3, <2>4, <2>5
<1>3. CASE (LossStopsGame \/ PlayerStep) /\ UNCHANGED runnerVars
  <2>1. Shapes'
    BY <1>3 DEF LossStopsGame, PlayerStep, ToggleReady, CloseLobby, StopGame
  <2>2. HostFollowsLife' /\ PointersFollowTheHost'
    BY <1>3 DEF LossStopsGame, PlayerStep, ToggleReady, CloseLobby, StopGame,
         HostFollowsLife, PointersFollowTheHost
  <2>3. WhatRunStarts'
    BY <1>3 DEF LossStopsGame, PlayerStep, ToggleReady, CloseLobby, StopGame,
         HostFollowsLife, WhatRunStarts, WhatCreateSetsUp
  <2>4. WhatCreateSetsUp'
    BY <1>3 DEF LossStopsGame, PlayerStep, ToggleReady, CloseLobby, StopGame,
         HostFollowsLife, WhatCreateSetsUp, WhatTheSessionOwns
  <2>5. WhatTheSessionOwns'
    BY <1>3 DEF LossStopsGame, PlayerStep, ToggleReady, CloseLobby, StopGame,
         HostFollowsLife, WhatTheSessionOwns
  <2>6. QED
    BY <2>1, <2>2, <2>3, <2>4, <2>5
<1>4. CASE (UserStops \/ CoreEnds \/ CaptureReachesLimit \/ TitleThreadEnds)
          /\ UNCHANGED <<sessionVars, runnerVars>>
  <2>1. Shapes'
    BY <1>4 DEF UserStops, RequestStop, CoreEnds, CaptureReachesLimit, TitleThreadEnds
  <2>2. HostFollowsLife' /\ PointersFollowTheHost'
    BY <1>4 DEF UserStops, RequestStop, CoreEnds, CaptureReachesLimit, TitleThreadEnds,
         HostFollowsLife, PointersFollowTheHost
  <2>3. WhatRunStarts'
    BY <1>4 DEF UserStops, RequestStop, CoreEnds, CaptureReachesLimit, TitleThreadEnds,
         HostFollowsLife, WhatRunStarts, WhatCreateSetsUp
  <2>4. WhatCreateSetsUp'
    BY <1>4 DEF UserStops, RequestStop, CoreEnds, CaptureReachesLimit, TitleThreadEnds,
         HostFollowsLife, WhatCreateSetsUp, WhatTheSessionOwns
  <2>5. WhatTheSessionOwns'
    BY <1>4 DEF UserStops, RequestStop, CoreEnds, CaptureReachesLimit, TitleThreadEnds,
         HostFollowsLife, WhatTheSessionOwns
  <2>6. QED
    BY <2>1, <2>2, <2>3, <2>4, <2>5
<1>5. CASE ConsoleCommand
  <2>1. Shapes'
    BY <1>5 DEF ConsoleCommand
  <2>2. HostFollowsLife' /\ PointersFollowTheHost'
    BY <1>5 DEF ConsoleCommand, HostFollowsLife, PointersFollowTheHost
  <2>3. WhatRunStarts'
    BY <1>5 DEF ConsoleCommand, HostFollowsLife, WhatRunStarts, WhatCreateSetsUp
  <2>4. WhatCreateSetsUp'
    BY <1>5 DEF ConsoleCommand, HostFollowsLife, WhatCreateSetsUp, WhatTheSessionOwns
  <2>5. WhatTheSessionOwns'
    BY <1>5 DEF ConsoleCommand, HostFollowsLife, WhatTheSessionOwns
  <2>6. QED
    BY <2>1, <2>2, <2>3, <2>4, <2>5
<1>6. CASE HandleStopSignal \/ WatcherRequestsStop
  <2>1. Shapes'
    BY <1>6 DEF HandleStopSignal, WatcherRequestsStop, RequestStop
  <2>2. HostFollowsLife' /\ PointersFollowTheHost'
    BY <1>6 DEF HandleStopSignal, WatcherRequestsStop, RequestStop, HostFollowsLife,
         PointersFollowTheHost
  <2>3. WhatRunStarts'
    BY <1>6 DEF HandleStopSignal, WatcherRequestsStop, RequestStop, HostFollowsLife,
         WhatRunStarts, WhatCreateSetsUp
  <2>4. WhatCreateSetsUp'
    BY <1>6 DEF HandleStopSignal, WatcherRequestsStop, RequestStop, HostFollowsLife,
         WhatCreateSetsUp, WhatTheSessionOwns
  <2>5. WhatTheSessionOwns'
    BY <1>6 DEF HandleStopSignal, WatcherRequestsStop, RequestStop, HostFollowsLife,
         WhatTheSessionOwns
  <2>6. QED
    BY <2>1, <2>2, <2>3, <2>4, <2>5
<1>7. CASE UNCHANGED vars
  <2>1. Shapes'
    BY <1>7 DEF vars
  <2>2. HostFollowsLife' /\ PointersFollowTheHost'
    BY <1>7 DEF vars, HostFollowsLife, PointersFollowTheHost
  <2>3. WhatRunStarts'
    BY <1>7 DEF vars, HostFollowsLife, WhatRunStarts, WhatCreateSetsUp
  <2>4. WhatCreateSetsUp'
    BY <1>7 DEF vars, HostFollowsLife, WhatCreateSetsUp, WhatTheSessionOwns
  <2>5. WhatTheSessionOwns'
    BY <1>7 DEF vars, HostFollowsLife, WhatTheSessionOwns
  <2>6. QED
    BY <2>1, <2>2, <2>3, <2>4, <2>5
<1>8. QED
  BY <1>1, <1>2, <1>3, <1>4, <1>5, <1>6, <1>7 DEF OtherStep

LEMMA Invariance == Spec => []IInv
<1>1. IInv /\ [Next]_vars => IInv'
  BY RunKeeps, DestroyKeeps, SoloKeeps, SessionKeeps, OthersKeep
     DEF Next, HostStep, OtherStep, Exited
<1>2. QED
  BY <1>1, InitHolds, PTL DEF Spec

-----------------------------------------------------------------------------
(* No thread and no callback reaches a Runtime whose destructor has begun,  *)
(* however many games are played and signals received.                      *)
THEOREM RuntimeOutlivesItsUsers == Spec => []NothingReachesADeadRuntime
<1>1. IInv => NothingReachesADeadRuntime
  BY DEF IInv, Shapes, HostFollowsLife, PointersFollowTheHost, WhatRunStarts,
         WhatCreateSetsUp, NothingReachesADeadRuntime, Alive, InRun, Dying
<1>2. QED
  BY <1>1, Invariance, PTL

(* A Runtime that is gone, however Create and Run ended, leaves nothing     *)
(* behind that the next one or the end of the process would meet.           *)
THEOREM RuntimeCleansUp == Spec => []NothingLeftRegistered
<1>1. IInv => NothingLeftRegistered
  BY DEF IInv, Shapes, HostFollowsLife, WhatRunStarts, WhatCreateSetsUp,
         WhatTheSessionOwns, NothingLeftRegistered, InRun, Dying, NoData, Lobby
<1>2. QED
  BY <1>1, Invariance, PTL

-----------------------------------------------------------------------------
(* The game a Runtime is about to boot is a later one than the last, and is *)
(* not later than the last the server has started.                          *)
RoundsGrow ==
  /\ round \in Nat /\ params \in Nat /\ managers \in Nat
  /\ server.game \in Nat /\ statics.bootData \in Nat
  /\ server = [game |-> server.game, on |-> server.on, ready |-> server.ready]
  /\ life \in {"data", "hooking", "booting"} => round < params
  /\ life # "none" => managers > 0
  /\ pc \in {"solo", "watched", "playing"} /\ life \in {"none", "idle", "entered"} => round = 0
  /\ pc \in Lobby \union {"session"} =>
       /\ round <= server.game /\ params <= server.game /\ statics.bootData <= server.game
       /\ ui.start =>
            round < server.game /\ params < server.game /\ statics.bootData < server.game
       /\ statics.bootData # NoData => round < statics.bootData
       /\ \/ pc \in {"booting", "made"}
          \/ pc = "run" /\ life \in {"idle", "entered"}
          => statics.bootData # NoData

LEMMA InitRounds == Init => RoundsGrow
BY DEF Init, RuntimeInit, SessionInit, RoundsGrow, Lobby, NoData

LEMMA RunGrows ==
  ASSUME IInv, RoundsGrow, HostRuns
  PROVE  RoundsGrow'
<1> USE DEF HostRuns, IInv, Shapes, HostFollowsLife, WhatTheSessionOwns,
            RoundsGrow, Lobby, InRun, Dying, NoData, setupVars, gameVars, sessionVars,
            runnerVars
<1>1. CASE EnterRun
  BY <1>1 DEF EnterRun
<1>2. CASE \E accepted \in BOOLEAN : TakeBootData(accepted)
  BY <1>2 DEF TakeBootData
<1>3. CASE RegisterPresent \/ RegisterState
  BY <1>3 DEF RegisterPresent, RegisterState
<1>4. CASE BootCore \/ BootCoreFails
  BY <1>4 DEF BootCore, BootCoreFails
<1>5. CASE MainLoopReturns \/ LeaveRun
  BY <1>5 DEF MainLoopReturns, AskTitleToStop, LeaveRun
<1>6. QED
  BY <1>1, <1>2, <1>3, <1>4, <1>5 DEF RunStep

LEMMA HostGrows ==
  ASSUME IInv, RoundsGrow, HostStep, ~HostRuns
  PROVE  RoundsGrow'
<1> USE DEF runtimeVars, IInv, Shapes, HostFollowsLife, WhatTheSessionOwns,
            RoundsGrow, Lobby, InRun, Dying, NoData, setupVars, gameVars, sessionVars,
            runnerVars
<1>1. CASE HostDestroys
  BY <1>1 DEF HostDestroys, DestroyStep, DestroyDiagnostics, DestroyCore, DestroyRest
<1>2. CASE \E loadsMods \in BOOLEAN : CreateSolo(loadsMods)
  BY <1>2 DEF CreateSolo, CreateSucceeds
<1>3. CASE CreateSoloFails \/ \E interactive \in BOOLEAN : StartThreads(interactive)
  BY <1>3 DEF CreateSoloFails, CreateFails, StartThreads
<1>4. CASE ClearConsole \/ RunnerUnwinds \/ JoinWatcher \/ ReturnFromMain
  BY <1>4 DEF ClearConsole, RunnerUnwinds, JoinWatcher, ReturnFromMain
<1>5. CASE OpenSession \/ Connect \/ ConnectFails
  BY <1>5 DEF OpenSession, ServicesUp, Connect, ConnectFails, ServicesDown
<1>6. CASE \E starts \in BOOLEAN : LobbyBoots(starts)
  BY <1>6 DEF LobbyBoots, TakeStartRequest
<1>7. CASE \E loadsMods \in BOOLEAN : CreateInSession(loadsMods)
  BY <1>7 DEF CreateInSession, CreateSucceeds
<1>8. CASE LobbyNoticesLoss \/ CreateInSessionFails
  BY <1>8 DEF LobbyNoticesLoss, CloseLobby, CreateInSessionFails, CreateFails
<1>9. CASE SetRuntime \/ UnsetRuntime
  BY <1>9 DEF SetRuntime, UnsetRuntime
<1>10. CASE SessionUnwinds \/ SessionUnwound \/ ClearReadyState \/ RemainOrLeave
  BY <1>10 DEF SessionUnwinds, SessionUnwound, ClearReadyState, RemainOrLeave
<1>11. CASE CloseSession
  BY <1>11 DEF CloseSession, ServicesDown
<1>12. QED
  BY <1>1, <1>2, <1>3, <1>4, <1>5, <1>6, <1>7, <1>8, <1>9, <1>10, <1>11 DEF HostStep,
       SessionStep

LEMMA OthersGrow ==
  ASSUME IInv, RoundsGrow, OtherStep
  PROVE  RoundsGrow'
<1> USE DEF runtimeVars, IInv, Shapes, HostFollowsLife, WhatTheSessionOwns,
            RoundsGrow, Lobby, InRun, Dying, NoData, setupVars, gameVars, sessionVars,
            runnerVars
<1>1. CASE HostRunThrows
  BY <1>1 DEF HostRunThrows, RunThrows
<1>2. CASE OnMsgStartGame /\ UNCHANGED runnerVars
  <2>1. /\ server'.game = server.game + 1
        /\ server' = [game |-> server'.game, on |-> server'.on, ready |-> server'.ready]
    BY <1>2 DEF OnMsgStartGame
  <2>2. UNCHANGED <<life, pc, round, params, managers, statics>>
    BY <1>2 DEF OnMsgStartGame, runtimeVars
  <2>3. QED
    BY <2>1, <2>2
<1>3. CASE (OnMsgStopGame \/ OnDesync \/ OnConnectionLost) /\ UNCHANGED runnerVars
  BY <1>3 DEF OnMsgStopGame, OnDesync, OnConnectionLost, StopGame
<1>4. CASE (LossStopsGame \/ PlayerStep) /\ UNCHANGED runnerVars
  BY <1>4 DEF LossStopsGame, PlayerStep, ToggleReady, CloseLobby, StopGame
<1>5. CASE (UserStops \/ CoreEnds \/ CaptureReachesLimit \/ TitleThreadEnds)
          /\ UNCHANGED <<sessionVars, runnerVars>>
  BY <1>5 DEF UserStops, RequestStop, CoreEnds, CaptureReachesLimit, TitleThreadEnds
<1>6. CASE ConsoleCommand \/ HandleStopSignal \/ WatcherRequestsStop
  BY <1>6 DEF ConsoleCommand, HandleStopSignal, WatcherRequestsStop, RequestStop
<1>7. CASE UNCHANGED vars
  BY <1>7 DEF vars
<1>8. QED
  BY <1>1, <1>2, <1>3, <1>4, <1>5, <1>6, <1>7 DEF OtherStep, ClientStep

(* Only these steps of the runner are steps of its rounds: the others leave *)
(* the core as it is and the last game the same.                            *)
LEMMA CoreSteps ==
  ASSUME [Next]_vars
  PROVE  \/ HostRuns \/ HostDestroys
         \/ CoreEnds
         \/ UNCHANGED <<round, core>>
<1> USE DEF setupVars, gameVars, runtimeVars, sessionVars, runnerVars
<1>1. CASE HostStep
  <2>1. CASE SessionStep
    BY <2>1 DEF SessionStep, OpenSession, ServicesUp, Connect, ConnectFails, ServicesDown,
         LobbyBoots, LobbyNoticesLoss, CloseLobby, CreateInSession, CreateSucceeds,
         CreateInSessionFails, CreateFails, SetRuntime, UnsetRuntime, SessionUnwinds,
         SessionUnwound, ClearReadyState, RemainOrLeave, CloseSession
  <2>2. CASE ~SessionStep
    BY <1>1, <2>2 DEF HostStep, CreateSolo, CreateSucceeds, CreateSoloFails, CreateFails,
         StartThreads, ClearConsole, RunnerUnwinds, JoinWatcher, ReturnFromMain
  <2>3. QED
    BY <2>1, <2>2
<1>2. CASE OtherStep
  BY <1>2 DEF OtherStep, HostRunThrows, RunThrows, ClientStep, OnMsgStartGame,
       OnMsgStopGame, OnDesync, OnConnectionLost, StopGame, LossStopsGame, PlayerStep,
       ToggleReady, CloseLobby, UserStops, RequestStop, CaptureReachesLimit,
       TitleThreadEnds, ConsoleCommand, HandleStopSignal, WatcherRequestsStop, vars
<1>3. QED
  BY <1>1, <1>2 DEF Next, OtherStep, Exited

(* The runner plays its games one at a time, in the order in which they     *)
(* were started and none of them twice, however many there are.             *)
THEOREM RunnerPlaysRounds == Spec => ImplementsRounds
<1>1. Init => Rounds!Init
  BY DEF Init, RuntimeInit, Rounds!Init
<1>2. IInv /\ RoundsGrow /\ [Next]_vars => [Rounds!Next]_<<round, core = "running">>
  <2> SUFFICES ASSUME IInv, RoundsGrow, [Next]_vars
               PROVE  [Rounds!Next]_<<round, core = "running">>
    OBVIOUS
  <2> USE DEF Rounds!Next, Rounds!Begin, Rounds!Finish, gameVars
  <2>1. CASE HostRuns
    <3>1. CASE BootCore
      BY <3>1 DEF BootCore, IInv, WhatRunStarts, RoundsGrow
    <3>2. CASE LeaveRun
      BY <3>2 DEF LeaveRun
    <3>3. CASE EnterRun \/ (\E accepted \in BOOLEAN : TakeBootData(accepted)) \/ RegisterPresent
               \/ RegisterState \/ BootCoreFails \/ MainLoopReturns
      BY <3>3 DEF EnterRun, TakeBootData, RegisterPresent, RegisterState, BootCoreFails,
           MainLoopReturns
    <3>4. QED
      BY <2>1, <3>1, <3>2, <3>3 DEF HostRuns, RunStep
  <2>2. CASE HostDestroys
    BY <2>2 DEF HostDestroys, DestroyStep, DestroyDiagnostics, DestroyCore, DestroyRest
  <2>3. CASE CoreEnds
    BY <2>3 DEF CoreEnds
  <2>4. QED
    BY <2>1, <2>2, <2>3, CoreSteps
<1>3. IInv /\ RoundsGrow /\ [Next]_vars => RoundsGrow'
  BY RunGrows, HostGrows, OthersGrow DEF Next, HostStep, OtherStep, Exited
<1>4. QED
  BY <1>1, <1>2, <1>3, InitRounds, Invariance, PTL DEF Spec, ImplementsRounds, Rounds!Spec
-----------------------------------------------------------------------------
(* Only Create makes a manager, and only Create tells the JIT of one.       *)
LEMMA ManagerSteps ==
  ASSUME [Next]_vars
  PROVE  \/ \E loadsMods \in BOOLEAN : CreateSucceeds(loadsMods)
         \/ UNCHANGED <<managers, hostCall>>
<1> USE DEF setupVars, gameVars, runtimeVars, sessionVars, runnerVars
<1>1. CASE HostRuns
  BY <1>1 DEF HostRuns, RunStep, EnterRun, TakeBootData, RegisterPresent, RegisterState,
       BootCoreFails, BootCore, MainLoopReturns, LeaveRun
<1>2. CASE HostDestroys
  BY <1>2 DEF HostDestroys, DestroyStep, DestroyDiagnostics, DestroyCore, DestroyRest
<1>3. CASE SessionStep
  BY <1>3 DEF SessionStep, OpenSession, ServicesUp, Connect, ConnectFails, ServicesDown,
       LobbyBoots, LobbyNoticesLoss, CloseLobby, CreateInSession, CreateInSessionFails,
       CreateFails, SetRuntime, UnsetRuntime, SessionUnwinds, SessionUnwound,
       ClearReadyState, RemainOrLeave, CloseSession
<1>4. CASE HostStep /\ ~HostRuns /\ ~HostDestroys /\ ~SessionStep
  BY <1>4 DEF HostStep, CreateSolo, CreateSoloFails, CreateFails, StartThreads,
       ClearConsole, RunnerUnwinds, JoinWatcher, ReturnFromMain
<1>5. CASE OtherStep
  BY <1>5 DEF OtherStep, HostRunThrows, RunThrows, ClientStep, OnMsgStartGame,
       OnMsgStopGame, OnDesync, OnConnectionLost, StopGame, LossStopsGame, PlayerStep,
       ToggleReady, CloseLobby, UserStops, RequestStop, CoreEnds, CaptureReachesLimit,
       TitleThreadEnds, ConsoleCommand, HandleStopSignal, WatcherRequestsStop, vars
<1>6. QED
  BY <1>1, <1>2, <1>3, <1>4, <1>5 DEF Next, OtherStep, Exited

(* The guest's host calls reach the mods of the Runtime that runs it, never *)
(* those of an earlier one, whichever of the Runtimes load mods.            *)
THEOREM HostCallsAreLive == Spec => []HostCallsReachTheLiveManager
<1> DEFINE LatestOrNone == hostCall \in {0, managers}
<1>1. Init => LatestOrNone
  BY DEF Init, RuntimeInit
<1>2. LatestOrNone /\ [Next]_vars => LatestOrNone'
  <2> SUFFICES ASSUME LatestOrNone, [Next]_vars PROVE LatestOrNone'
    OBVIOUS
  <2>1. CASE \E loadsMods \in BOOLEAN : CreateSucceeds(loadsMods)
    BY <2>1 DEF CreateSucceeds, JitSource
  <2>2. CASE UNCHANGED <<managers, hostCall>>
    BY <2>2
  <2>3. QED
    BY <2>1, <2>2, ManagerSteps
<1>3. LatestOrNone => HostCallsReachTheLiveManager
  BY DEF HostCallsReachTheLiveManager
<1>4. QED
  BY <1>1, <1>2, <1>3, PTL DEF Spec
=============================================================================
