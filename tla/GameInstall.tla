---------------------------- MODULE GameInstall ----------------------------
(* "Extract and Play" of moderngekko_launcher: the thread that extracts a   *)
(* disc, the window that waits for it or plays meanwhile, and a launcher    *)
(* that may die at any step and be started again.  The disc library and     *)
(* the file system are external: an export or a write may fail, a removal   *)
(* may stop half way, a rename happens or does not.                         *)
EXTENDS Naturals

CONSTANTS
  MaxExtractions,  \* bound: extractions that are started
  MaxCrashes       \* bound: times the launcher dies

ASSUME InstallAssumption == MaxExtractions \in Nat /\ MaxCrashes \in Nat

VARIABLES
  build,           \* how the launcher was built: [pinned, patches]
  output,          \* the directory of the game of this disc
  staging,         \* its .extracting directory
  defaultGame,     \* default-game.txt: "nothing", "output" or "other"
  thread,          \* the next step of ExtractDisc, "none" when there is no thread
  running,         \* ExtractionState::running
  finished,        \* ExtractionState::finished_game is set, to output
  window,          \* "starting", "open", "joining", "launched", "closed"
  current,         \* current_game, and whether its metadata is valid
  play,            \* the window is closed to play
  extractions, crashes

installVars == <<build, output, staging, defaultGame, thread, running, finished, window,
                 current, play, extractions, crashes>>
extractionVars == <<output, staging, defaultGame, thread, running, finished>>
windowVars == <<window, current, play>>

\* A directory: whether the system data is there, how many of the files, and
\* whether the bundled patches have been applied to the DOL.
NoDirectory == [sys |-> FALSE, files |-> "no directory", patched |-> FALSE]
Empty == [sys |-> FALSE, files |-> "none", patched |-> FALSE]
Extracted(files, patched) == [sys |-> TRUE, files |-> files, patched |-> patched]

\* InspectGame reads the system data; the pinned hashes cover the files too.
InspectGame(directory) == directory.sys
RequiredGame(directory) ==
  build.pinned => directory.files = "all" /\ directory.patched = build.patches
Valid(directory) == InspectGame(directory) /\ RequiredGame(directory)

\* A game extracted earlier, from another disc: nothing here writes to it.
Other == Extracted("all", build.patches)
Directory(game) == CASE game = "output" -> output
                     [] game = "other" -> Other
                     [] game = "nothing" -> NoDirectory

\* The bundled patches replace the DOL as a whole, or leave it.
Patch(directory) ==
  IF directory.sys /\ build.patches THEN [directory EXCEPT !.patched = TRUE] ELSE directory
PatchFails(directory) == build.patches /\ directory.files # "no directory"
PatchWorks(directory) ==
  build.patches /\ directory.files # "no directory" => directory.sys

InstallInit ==
  /\ build \in [pinned: BOOLEAN, patches: BOOLEAN]
  /\ output \in {NoDirectory, Extracted("some", FALSE), Extracted("all", FALSE)}
  /\ staging = NoDirectory
  /\ defaultGame \in {"nothing", "output", "other"}
  /\ thread = "none"
  /\ running = FALSE
  /\ finished = FALSE
  /\ window = "starting"
  /\ current = [game |-> "nothing", valid |-> FALSE]
  /\ play = FALSE
  /\ extractions = 0
  /\ crashes = 0

-----------------------------------------------------------------------------
(* ExtractDisc, on a thread of its own *)

\* The lambda `fail`: the error and `running` under one lock.
Fail ==
  /\ thread' = "none"
  /\ running' = FALSE

Goto(step) == thread' = step /\ UNCHANGED running

\* PrepareDisc and the volume: the image is not this game's, or cannot be read.
OpenDisc ==
  /\ thread = "open"
  /\ Goto("patch existing") \/ Fail
  /\ UNCHANGED <<output, staging, defaultGame, finished>>

PatchExisting ==
  /\ thread = "patch existing"
  /\ \/ /\ PatchWorks(output)
        /\ output' = Patch(output)
        /\ Goto("check existing")
     \/ /\ PatchFails(output)
        /\ Fail
        /\ UNCHANGED output
  /\ UNCHANGED <<staging, defaultGame, finished>>

\* A bug: a game is extracted again although it is there.
AlwaysExtract ==
  /\ thread = "check existing"
  /\ Goto("make staging")
  /\ UNCHANGED <<output, staging, defaultGame, finished>>

CheckExisting ==
  /\ thread = "check existing"
  /\ Goto(IF Valid(output) THEN "use existing" ELSE "make staging")
  /\ UNCHANGED <<output, staging, defaultGame, finished>>

\* WriteDefaultGame truncates the file before it writes.
UseExisting ==
  /\ thread = "use existing"
  /\ \/ defaultGame' = "output" /\ finished' = TRUE /\ Fail   \* the same lock
     \/ UNCHANGED <<defaultGame, finished>> /\ Fail
  /\ UNCHANGED <<output, staging>>

MakeStaging ==
  /\ thread = "make staging"
  /\ staging' = Empty
  /\ Goto("export system") \/ Fail
  /\ UNCHANGED <<output, defaultGame, finished>>

ExportSystemData ==
  /\ thread = "export system"
  /\ \/ staging' = Extracted("none", FALSE) /\ Goto("export files")
     \/ staging' = NoDirectory /\ Fail
  /\ UNCHANGED <<output, defaultGame, finished>>

\* Its result is not looked at.
ExportDirectory ==
  /\ thread = "export files"
  /\ \E files \in {"some", "all"} : staging' = Extracted(files, FALSE)
  /\ Goto("patch")
  /\ UNCHANGED <<output, defaultGame, finished>>

PatchExtracted ==
  /\ thread = "patch"
  /\ \/ staging' = Patch(staging) /\ Goto("inspect")
     \/ build.patches /\ staging' = NoDirectory /\ Fail
  /\ UNCHANGED <<output, defaultGame, finished>>

\* A bug: the disc's identity is checked and the game's is not.
InspectOnly ==
  /\ thread = "inspect"
  /\ Goto("remove")
  /\ UNCHANGED <<output, staging, defaultGame, finished>>

InspectExtracted ==
  /\ thread = "inspect"
  /\ IF Valid(staging)
     THEN Goto("remove") /\ UNCHANGED staging
     ELSE staging' = NoDirectory /\ Fail
  /\ UNCHANGED <<output, defaultGame, finished>>

\* The error of remove_all is cleared: what is left shows in the rename.
RemoveOutput ==
  /\ thread = "remove"
  /\ output' \in {NoDirectory} \union (IF output = NoDirectory THEN {} ELSE {output, Empty})
  /\ Goto("rename")
  /\ UNCHANGED <<staging, defaultGame, finished>>

Publish ==
  /\ thread = "rename"
  /\ \/ /\ output = NoDirectory
        /\ output' = staging
        /\ staging' = NoDirectory
        /\ Goto("write default")
     \/ Fail /\ UNCHANGED <<output, staging>>
  /\ UNCHANGED <<defaultGame, finished>>

WriteDefault ==
  /\ thread = "write default"
  /\ \/ defaultGame' = "output" /\ Goto("finish")
     \/ UNCHANGED defaultGame /\ Fail
  /\ UNCHANGED <<output, staging, finished>>

Finish ==
  /\ thread = "finish"
  /\ finished' = TRUE
  /\ Goto("stop")
  /\ UNCHANGED <<output, staging, defaultGame>>

\* `running` is cleared after the lock is gone.
StopRunning ==
  /\ thread = "stop"
  /\ Fail
  /\ UNCHANGED <<output, staging, defaultGame, finished>>

ExtractDisc ==
  /\ \/ OpenDisc \/ PatchExisting \/ CheckExisting \/ UseExisting \/ MakeStaging
     \/ ExportSystemData \/ ExportDirectory \/ PatchExtracted \/ InspectExtracted
     \/ RemoveOutput \/ Publish \/ WriteDefault \/ Finish \/ StopRunning
  /\ UNCHANGED <<build, windowVars, extractions, crashes>>

-----------------------------------------------------------------------------
(* The window *)

\* The game of default-game.txt is patched, and inspected once.
Start ==
  /\ window = "starting"
  /\ window' = "open"
  /\ LET directory == Directory(defaultGame) IN
       \/ /\ PatchWorks(directory)
          /\ output' = IF defaultGame = "output" THEN Patch(output) ELSE output
          /\ current' = [game |-> defaultGame, valid |-> Valid(Patch(directory))]
       \/ /\ PatchFails(directory)
          /\ current' = [game |-> defaultGame, valid |-> FALSE]
          /\ UNCHANGED output
  /\ UNCHANGED <<build, staging, defaultGame, thread, running, finished, play,
                 extractions, crashes>>

\* A frame that finds a finished game inspects it again, and plays it if there is
\* a controller.
SeeFinished(ensured) ==
  /\ window = "open"
  /\ finished
  /\ finished' = FALSE
  /\ current' = [game |-> "output", valid |-> Valid(output)]
  /\ play' = ensured
  /\ window' = IF ensured THEN "joining" ELSE window
  /\ UNCHANGED <<build, output, staging, defaultGame, thread, running, extractions, crashes>>

\* Play, Host and Join.
PressPlay ==
  /\ window = "open"
  /\ current.valid
  /\ play' = TRUE
  /\ window' = "joining"
  /\ UNCHANGED <<build, extractionVars, current, extractions, crashes>>

PressExtract ==
  /\ window = "open"
  /\ ~running
  /\ extractions < MaxExtractions
  /\ extractions' = extractions + 1
  /\ thread' = "open"
  /\ running' = TRUE
  /\ finished' = FALSE
  /\ UNCHANGED <<build, output, staging, defaultGame, windowVars, crashes>>

CloseWindow ==
  /\ window = "open"
  /\ window' = "joining"
  /\ UNCHANGED <<build, extractionVars, current, play, extractions, crashes>>

\* The extraction is joined before the game is started.
Join ==
  /\ window = "joining"
  /\ thread = "none"
  /\ \/ play /\ defaultGame' = current.game /\ window' = "launched"
     \/ window' = "closed" /\ UNCHANGED defaultGame
  /\ UNCHANGED <<build, output, staging, thread, running, finished, current, play,
                 extractions, crashes>>

\* The launcher dies: a removal, or a write of default-game.txt, stops half way.
Crash ==
  /\ window \in {"open", "joining"}
  /\ crashes < MaxCrashes
  /\ crashes' = crashes + 1
  /\ window' = "starting"
  /\ thread' = "none" /\ running' = FALSE /\ finished' = FALSE /\ play' = FALSE
  /\ current' = [game |-> "nothing", valid |-> FALSE]
  /\ output' \in {output} \union (IF thread = "remove" /\ output # NoDirectory
                                  THEN {Empty} ELSE {})
  /\ defaultGame' \in {defaultGame} \union (IF thread \in {"use existing", "write default"}
                                            THEN {"nothing"} ELSE {})
  /\ UNCHANGED <<build, staging, extractions>>

InstallNext ==
  \/ ExtractDisc
  \/ Start
  \/ \E ensured \in BOOLEAN : SeeFinished(ensured)
  \/ PressPlay \/ PressExtract \/ CloseWindow \/ Join
  \/ Crash

InstallSpec == InstallInit /\ [][InstallNext]_installVars

-----------------------------------------------------------------------------
(* Properties *)

\* The game that is started is there and valid, though it was inspected before
\* the extraction that is joined went on, and before a crash: the extraction
\* leaves a valid game where it is, and announces none that is not.
WhatIsPlayedIsValid ==
  /\ window \in {"open", "joining", "launched"} /\ current.valid => Valid(Directory(current.game))
  /\ window = "launched" => Valid(Directory(current.game))
  /\ finished => Valid(output)

\* A valid game is not taken away, not for a moment, whatever the extraction of the
\* same disc does after it looked, fails at, or is cut off in.
AValidGameIsKept == [][Valid(output) => Valid(output')]_installVars
=============================================================================
