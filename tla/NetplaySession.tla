--------------------------- MODULE NetplaySession ---------------------------
(* RunNetplayLobby: the host thread goes from the lobby to a Runtime and    *)
(* back, while the thread of the netplay client calls the session's user    *)
(* interface.  The client, the server and the other players are external:   *)
(* what they do is what the callbacks say.                                  *)
EXTENDS RuntimeLifecycle

CONSTANTS
  MaxGames       \* bound: games the server starts

ASSUME GamesAssumption == MaxGames \in Nat \ {0}

VARIABLES
  pc,            \* where the host thread is
  ui,            \* SessionUI: [start, runtime, lost]
  server,        \* as this player sees it: [game, on, ready]
  losing         \* OnConnectionLost has set its flag, and has to stop the game

sessionVars == <<pc, ui, server, losing>>

SessionInit ==
  /\ ui = [start |-> FALSE, runtime |-> 0, lost |-> FALSE]
  /\ server = [game |-> 0, on |-> FALSE, ready |-> FALSE]
  /\ losing = FALSE

\* The client is there, and may call the user interface.
Connected == pc \in {"lobby", "booting", "made", "run", "unset", "gone", "unwinding"}

-----------------------------------------------------------------------------
(* The thread of the client.  It handles one message at a time. *)

Listening == Connected /\ ~losing /\ ~ui.lost

\* StopGame reaches the Runtime the user interface knows of, if there is one.
StopGame ==
  /\ stop' = (stop \/ ui.runtime # 0)
  /\ UNCHANGED <<setupVars, life, hooks, capture, running, booted, core, title,
                 gameVars>>

\* The host starts a game when every player is ready, whatever this one is doing.
OnMsgStartGame ==
  /\ Listening
  /\ server.ready /\ ~server.on
  /\ server.game < MaxGames
  /\ server' = [server EXCEPT !.game = @ + 1, !.on = TRUE]
  /\ ui' = [ui EXCEPT !.start = TRUE]
  /\ UNCHANGED <<runtimeVars, pc, losing>>

\* Another player has stopped the game, or the server answers this one.
OnMsgStopGame ==
  /\ Listening
  /\ server.on
  /\ server' = [server EXCEPT !.on = FALSE]
  /\ StopGame
  /\ UNCHANGED <<pc, ui, losing>>

\* OnMsgPowerButton and OnDesync stop the game here; the server still has it.
OnDesync ==
  /\ Listening
  /\ server.on
  /\ StopGame
  /\ UNCHANGED sessionVars

OnConnectionLost ==
  /\ Listening
  /\ ui' = [ui EXCEPT !.lost = TRUE]
  /\ server' = [server EXCEPT !.on = FALSE]
  /\ losing' = TRUE
  /\ UNCHANGED <<runtimeVars, pc>>

LossStopsGame ==
  /\ losing
  /\ losing' = FALSE
  /\ StopGame
  /\ UNCHANGED <<pc, ui, server>>

ClientStep == OnMsgStartGame \/ OnMsgStopGame \/ OnDesync \/ OnConnectionLost

-----------------------------------------------------------------------------
(* The host thread *)

ServicesUp ==
  /\ services' = [services EXCEPT !.ui = @ + 1]
  /\ statics' = [statics EXCEPT !.external = TRUE]
  /\ UNCHANGED <<settings, life, hooks, capture, running, booted, core, stop, title,
                 gameVars>>

ServicesDown ==
  /\ services' = [services EXCEPT !.ui = @ - 1]
  /\ statics' = [statics EXCEPT !.external = FALSE]
  /\ UNCHANGED <<settings, life, hooks, capture, running, booted, core, stop, title,
                 gameVars>>

OpenSession ==
  /\ pc = "session"
  /\ pc' = "connecting"
  /\ ServicesUp
  /\ UNCHANGED <<ui, server, losing>>

Connect ==
  /\ pc = "connecting"
  /\ pc' = "lobby"
  /\ UNCHANGED <<runtimeVars, ui, server, losing>>

\* The game is not valid, the host's port is taken, or the connection is refused.
ConnectFails ==
  /\ pc = "connecting"
  /\ pc' = "exit"
  /\ ServicesDown
  /\ UNCHANGED <<ui, server, losing>>

\* A bug: the request is read, and stays.
PeekStartRequest == ui

\* The request is taken before the client is asked to start, and gone if it refuses.
TakeStartRequest == [ui EXCEPT !.start = FALSE]

\* A frame of the lobby with a request: the client calls BootGame, and its data
\* goes to the next Runtime.
LobbyBoots(starts) ==
  /\ pc = "lobby"
  /\ ui.start
  /\ ui' = TakeStartRequest
  /\ pc' = IF starts THEN "booting" ELSE "lobby"
  /\ statics' = IF starts THEN [statics EXCEPT !.bootData = server.game] ELSE statics
  /\ UNCHANGED <<settings, services, life, hooks, capture, running, booted, core, stop,
                 title, gameVars, server, losing>>

\* The button, or a change of the local controllers.
ToggleReady ==
  /\ pc = "lobby"
  /\ ~ui.lost
  /\ server' = [server EXCEPT !.ready = ~@]
  /\ UNCHANGED <<runtimeVars, pc, ui, losing>>

\* The window is closed, or cannot be opened.
CloseLobby ==
  /\ pc = "lobby"
  /\ pc' = "closing"
  /\ UNCHANGED <<runtimeVars, ui, server, losing>>

LobbyNoticesLoss ==
  /\ ui.lost
  /\ ~ui.start
  /\ CloseLobby

CreateInSession(loadsMods) ==
  /\ pc = "booting"
  /\ CreateSucceeds(loadsMods)
  /\ pc' = "made"
  /\ UNCHANGED <<ui, server, losing>>

CreateInSessionFails ==
  /\ pc = "booting"
  /\ CreateFails
  /\ pc' = "closing"
  /\ UNCHANGED <<ui, server, losing>>

SetRuntime ==
  /\ pc = "made"
  /\ ui' = [ui EXCEPT !.runtime = managers]
  /\ pc' = "run"
  /\ UNCHANGED <<runtimeVars, server, losing>>

\* The server is told too: it answers with OnMsgStopGame if it has a game on.
UnsetRuntime ==
  /\ pc = "run"
  /\ life = "returned" /\ ~threw
  /\ ui' = [ui EXCEPT !.runtime = 0]
  /\ pc' = "unset"
  /\ UNCHANGED <<runtimeVars, server, losing>>

\* `created`, then the client, the server and the user interface, are destroyed.
SessionUnwinds ==
  /\ pc = "run"
  /\ life = "returned" /\ threw
  /\ pc' = "unwinding"
  /\ UNCHANGED <<runtimeVars, ui, server, losing>>

ClearReadyState ==
  /\ pc = "unset"
  /\ life = "none"
  /\ server' = [server EXCEPT !.ready = FALSE]
  /\ pc' = "gone"
  /\ UNCHANGED <<runtimeVars, ui, losing>>

RemainOrLeave ==
  /\ pc = "gone"
  /\ pc' = IF ui.lost THEN "closing" ELSE "lobby"
  /\ UNCHANGED <<runtimeVars, ui, server, losing>>

\* Destroying the client joins its thread.
CloseSession ==
  /\ pc = "closing"
  /\ ~losing
  /\ pc' = "exit"
  /\ ServicesDown
  /\ UNCHANGED <<ui, server, losing>>

SessionUnwound ==
  /\ pc = "unwinding"
  /\ life = "none"
  /\ ~losing
  /\ pc' = "exit"
  /\ UNCHANGED <<runtimeVars, ui, server, losing>>

SessionStep ==
  \/ OpenSession \/ Connect \/ ConnectFails
  \/ \E starts \in BOOLEAN : LobbyBoots(starts)
  \/ LobbyNoticesLoss
  \/ \E loadsMods \in BOOLEAN : CreateInSession(loadsMods)
  \/ CreateInSessionFails
  \/ SetRuntime \/ UnsetRuntime
  \/ SessionUnwinds \/ SessionUnwound
  \/ ClearReadyState \/ RemainOrLeave
  \/ CloseSession

PlayerStep == ToggleReady \/ CloseLobby
=============================================================================
