--------------------------- MODULE FrontendProofs ---------------------------
(* The launcher's settings, its extraction of a disc, and the cache of      *)
(* moderngekko-port, each for any number of edits, crashes and builds.      *)
EXTENDS Frontend, TLAPS

-----------------------------------------------------------------------------
(* The extraction.                                                          *)

Directories == [sys : BOOLEAN, files : {"no directory", "none", "some", "all"}, patched : BOOLEAN]

InstallTypeOK ==
  /\ build \in [pinned : BOOLEAN, patches : BOOLEAN]
  /\ output \in Directories
  /\ staging \in Directories
  /\ defaultGame \in {"nothing", "output", "other"}
  /\ finished \in BOOLEAN
  /\ play \in BOOLEAN
  /\ current \in [game : {"nothing", "output", "other"}, valid : BOOLEAN]

(* From the step that looks whether the game is there, the extraction       *)
(* replaces only what was not valid, and only by what is.                   *)
Replacing == {"make staging", "export system", "export files", "patch", "inspect",
              "remove", "rename"}
ThreadKnows ==
  /\ window = "starting" => thread = "none"
  /\ thread \in Replacing => ~Valid(output)
  /\ thread \in {"remove", "rename"} => Valid(staging)
  /\ thread \in {"use existing", "write default", "finish"} => Valid(output)
  /\ finished => Valid(output)

(* The window plays only what it has found valid, and it was still so.      *)
WindowKnows ==
  /\ window = "starting" => ~play
  /\ play => current.valid
  /\ window # "starting" /\ current.valid => Valid(Directory(current.game))
  /\ window = "launched" => current.valid

InstallInv == InstallTypeOK /\ ThreadKnows /\ WindowKnows

-----------------------------------------------------------------------------
(* The bundled patches make no game invalid.                                *)
LEMMA PatchKeepsValid ==
  ASSUME NEW directory \in Directories, Valid(directory), build.patches \in BOOLEAN
  PROVE  Valid(Patch(directory))
BY DEF Directories, Valid, InspectGame, RequiredGame, Patch

LEMMA PatchTyped ==
  ASSUME NEW directory \in Directories
  PROVE  Patch(directory) \in Directories
BY DEF Directories, Patch

LEMMA MadeTyped ==
  /\ NoDirectory \in Directories /\ Empty \in Directories
  /\ \A files \in {"none", "some", "all"}, patched \in BOOLEAN :
       Extracted(files, patched) \in Directories
BY DEF Directories, NoDirectory, Empty, Extracted

LEMMA NamesTyped ==
  ASSUME InstallTypeOK, NEW game \in {"nothing", "output", "other"}
  PROVE  Directory(game) \in Directories
BY DEF InstallTypeOK, Directories, Directory, Other, Extracted, NoDirectory

LEMMA OtherIsValid == InstallTypeOK => Valid(Other)
BY DEF InstallTypeOK, Valid, Other, Extracted, InspectGame, RequiredGame

(* As long as the game of this disc stays valid, so does any other.         *)
LEMMA FoundStaysValid ==
  ASSUME InstallTypeOK, build' = build, Valid(output) => Valid(output)',
         NEW game \in {"nothing", "output", "other"}, Valid(Directory(game))
  PROVE  Valid(Directory(game))'
<1>1. CASE game = "output"
  BY <1>1 DEF Directory
<1>2. CASE game = "other"
  <2>1. Valid(Other)'
    BY OtherIsValid DEF Valid, Other, Extracted, InspectGame, RequiredGame, InstallTypeOK
  <2>2. QED
    BY <1>2, <2>1 DEF Directory
<1>3. CASE game = "nothing"
  BY <1>3 DEF Directory, NoDirectory, Valid, InspectGame
<1>4. QED
  BY <1>1, <1>2, <1>3

LEMMA InstallStarts == InstallInit => InstallInv
<1> SUFFICES ASSUME InstallInit PROVE InstallInv
  OBVIOUS
<1> USE DEF InstallInit
<1>1. output \in Directories
  BY MadeTyped
<1>2. current \in [game : {"nothing", "output", "other"}, valid : BOOLEAN] /\ ~current.valid
  OBVIOUS
<1>3. InstallTypeOK
  BY <1>1, <1>2, MadeTyped DEF InstallTypeOK
<1>4. QED
  BY <1>2, <1>3 DEF InstallInv, ThreadKnows, WindowKnows, Replacing

-----------------------------------------------------------------------------
(* The extraction.                                                          *)
LEMMA ExtractionTyped ==
  ASSUME InstallTypeOK, ExtractDisc
  PROVE  InstallTypeOK'
<1> USE DEF InstallTypeOK, windowVars
<1>1. CASE PatchExisting
  BY <1>1, PatchTyped DEF ExtractDisc, PatchExisting
<1>2. CASE PatchExtracted
  BY <1>2, PatchTyped, MadeTyped DEF ExtractDisc, PatchExtracted
<1>3. CASE OpenDisc \/ CheckExisting \/ UseExisting \/ MakeStaging \/ ExportSystemData
           \/ ExportDirectory \/ InspectExtracted
  BY <1>3, MadeTyped DEF ExtractDisc, OpenDisc, CheckExisting, UseExisting, MakeStaging,
                         ExportSystemData, ExportDirectory, InspectExtracted
<1>4. CASE RemoveOutput \/ Publish \/ WriteDefault \/ Finish \/ StopRunning
  BY <1>4, MadeTyped DEF ExtractDisc, RemoveOutput, Publish, WriteDefault, Finish, StopRunning
<1>5. QED
  BY <1>1, <1>2, <1>3, <1>4 DEF ExtractDisc

(* Only removing, publishing and patching write to the game.                *)
LEMMA ExtractionKeepsGame ==
  ASSUME InstallInv, ExtractDisc, Valid(output)
  PROVE  Valid(output)'
<1> USE DEF InstallInv
<1>1. build' = build
  BY DEF ExtractDisc
<1>2. CASE PatchExisting
  <2>1. output' = output \/ output' = Patch(output)
    BY <1>2 DEF PatchExisting
  <2>2. Valid(Patch(output))
    BY PatchKeepsValid DEF InstallTypeOK
  <2>3. QED
    BY <1>1, <2>1, <2>2 DEF Valid, InspectGame, RequiredGame
<1>3. CASE RemoveOutput \/ Publish
  BY <1>3 DEF RemoveOutput, Publish, ThreadKnows, Replacing
<1>4. CASE output' = output
  BY <1>1, <1>4 DEF Valid, InspectGame, RequiredGame
<1>5. QED
  BY <1>2, <1>3, <1>4
     DEF ExtractDisc, OpenDisc, CheckExisting, UseExisting, MakeStaging, ExportSystemData,
         ExportDirectory, PatchExtracted, InspectExtracted, WriteDefault, Finish, StopRunning

LEMMA ExtractionKeepsThread ==
  ASSUME InstallInv, ExtractDisc
  PROVE  ThreadKnows'
<1> USE DEF InstallInv, ThreadKnows, Replacing
<1>1. build' = build /\ window' = window /\ window # "starting"
  BY DEF ExtractDisc, windowVars, OpenDisc, PatchExisting, CheckExisting, UseExisting,
         MakeStaging, ExportSystemData, ExportDirectory, PatchExtracted, InspectExtracted,
         RemoveOutput, Publish, WriteDefault, Finish, StopRunning
<1>2. Valid(output) => Valid(output)'
  BY ExtractionKeepsGame
<1>3. output' = output => (Valid(output)' <=> Valid(output))
  BY <1>1 DEF Valid, InspectGame, RequiredGame
<1>4. CASE OpenDisc
  BY <1>1, <1>3, <1>4 DEF OpenDisc, Goto, Fail
<1>5. CASE PatchExisting
  BY <1>1, <1>2, <1>5 DEF PatchExisting, Goto, Fail
<1>6. CASE CheckExisting
  BY <1>1, <1>3, <1>6 DEF CheckExisting, Goto
<1>7. CASE UseExisting
  BY <1>1, <1>3, <1>7 DEF UseExisting, Fail
<1>8. CASE MakeStaging \/ ExportSystemData \/ ExportDirectory \/ PatchExtracted
  <2>1. /\ thread \in Replacing /\ output' = output /\ finished' = finished
        /\ thread' \in {"export system", "export files", "patch", "inspect", "none"}
    BY <1>8 DEF MakeStaging, ExportSystemData, ExportDirectory, PatchExtracted, Goto, Fail
  <2>2. QED
    BY <1>1, <1>3, <2>1
<1>9. CASE InspectExtracted
  <2>1. staging' = staging => (Valid(staging)' <=> Valid(staging))
    BY <1>1 DEF Valid, InspectGame, RequiredGame
  <2>2. QED
    BY <1>1, <1>3, <1>9, <2>1 DEF InspectExtracted, Goto, Fail
<1>10. CASE RemoveOutput
  <2>1. Valid(staging)' /\ thread' = "rename" /\ UNCHANGED finished /\ ~finished
    BY <1>1, <1>10 DEF RemoveOutput, Goto, Valid, InspectGame, RequiredGame
  <2>2. ~Valid(output)'
    <3>1. CASE output' = output
      BY <1>3, <1>10, <3>1 DEF RemoveOutput
    <3>2. CASE output' \in {NoDirectory, Empty}
      <4>1. NoDirectory.sys = FALSE /\ Empty.sys = FALSE
        BY DEF NoDirectory, Empty
      <4>2. QED
        BY <3>2, <4>1 DEF Valid, InspectGame
    <3>3. QED
      BY <1>10, <3>1, <3>2 DEF RemoveOutput
  <2>3. QED
    BY <1>1, <2>1, <2>2
<1>11. CASE Publish
  <2>1. output' = staging => Valid(output)'
    BY <1>1, <1>11 DEF Publish, Valid, InspectGame, RequiredGame
  <2>2. QED
    BY <1>1, <1>2, <1>11, <2>1 DEF Publish, Goto, Fail
<1>12. CASE WriteDefault \/ Finish \/ StopRunning
  <2>1. CASE WriteDefault
    BY <1>1, <1>3, <2>1 DEF WriteDefault, Goto, Fail
  <2>2. CASE Finish
    <3>1. output' = output /\ thread' = "stop" /\ Valid(output)
      BY <2>2 DEF Finish, Goto
    <3>2. QED
      BY <1>1, <1>3, <3>1
  <2>3. CASE StopRunning
    BY <1>1, <1>3, <2>3 DEF StopRunning, Fail
  <2>4. QED
    BY <1>12, <2>1, <2>2, <2>3
<1>13. QED
  BY <1>4, <1>5, <1>6, <1>7, <1>8, <1>9, <1>10, <1>11, <1>12 DEF ExtractDisc

LEMMA ExtractionKeeps ==
  ASSUME InstallInv, ExtractDisc
  PROVE  InstallInv'
<1>1. InstallTypeOK'
  BY ExtractionTyped DEF InstallInv
<1>2. ThreadKnows'
  BY ExtractionKeepsThread
<1>3. UNCHANGED windowVars /\ build' = build
  BY DEF ExtractDisc
<1>4. ASSUME current.valid, window # "starting"
      PROVE  Valid(Directory(current.game))'
  <2>1. PICK game \in {"nothing", "output", "other"} : game = current.game
    BY DEF InstallInv, InstallTypeOK
  <2>2. Valid(Directory(game))
    BY <1>4, <2>1 DEF InstallInv, WindowKnows
  <2>3. Valid(Directory(game))'
    BY <1>3, <2>2, ExtractionKeepsGame, FoundStaysValid DEF InstallInv
  <2>4. game = current'.game
    BY <1>3, <2>1 DEF windowVars
  <2>5. QED
    BY <2>3, <2>4
<1>6. WindowKnows'
  BY <1>3, <1>4 DEF InstallInv, WindowKnows, windowVars
<1>7. QED
  BY <1>1, <1>2, <1>6 DEF InstallInv

-----------------------------------------------------------------------------
(* The window.                                                              *)
LEMMA StartKeeps ==
  ASSUME InstallInv, Start
  PROVE  InstallInv' /\ (Valid(output) => Valid(output)')
<1> USE DEF InstallInv
<1> DEFINE directory == Directory(defaultGame)
<1>1. directory \in Directories /\ Patch(directory) \in Directories
  BY NamesTyped, PatchTyped DEF InstallTypeOK
<1>2. build' = build /\ window' = "open" /\ thread = "none"
  BY DEF Start, ThreadKnows
<1>3. /\ output' \in {output, Patch(output)} /\ defaultGame' = defaultGame
      /\ UNCHANGED <<staging, thread, finished, play>>
  BY DEF Start
<1>4. Valid(output) => Valid(output)'
  <2>1. Valid(output) => Valid(Patch(output))
    BY PatchKeepsValid DEF InstallTypeOK
  <2>2. QED
    BY <1>2, <1>3, <2>1 DEF Valid, InspectGame, RequiredGame
<1>5. current' = [game |-> defaultGame, valid |-> Valid(Patch(directory))]
      \/ current' = [game |-> defaultGame, valid |-> FALSE]
  BY DEF Start
<1>6. InstallTypeOK'
  <2>1. output' \in Directories
    BY <1>3, PatchTyped DEF InstallTypeOK
  <2>2. Valid(Patch(directory)) \in BOOLEAN
    BY <1>1 DEF Valid, InspectGame, RequiredGame, Directories, InstallTypeOK
  <2>3. current' \in [game : {"nothing", "output", "other"}, valid : BOOLEAN]
    <3>1. \A valid \in BOOLEAN : [game |-> defaultGame, valid |-> valid]
                                   \in [game : {"nothing", "output", "other"}, valid : BOOLEAN]
      BY DEF InstallTypeOK
    <3>2. QED
      BY <1>5, <2>2, <3>1
  <2>4. QED
    BY <1>2, <1>3, <2>1, <2>3 DEF InstallTypeOK
<1>7. ThreadKnows'
  BY <1>2, <1>3, <1>4 DEF ThreadKnows, Replacing
<1>8. ASSUME current'.valid PROVE Valid(Directory(current.game))'
  <2>1. current'.game = defaultGame /\ Valid(Patch(directory))
    BY <1>5, <1>8
  <2>2. CASE defaultGame = "output"
    <3>1. output' = Patch(output)
      BY <1>8, <2>2 DEF Start
    <3>2. Valid(output)'
      BY <1>2, <2>1, <2>2, <3>1 DEF Directory, Valid, InspectGame, RequiredGame
    <3>3. QED
      BY <2>1, <2>2, <3>2 DEF Directory
  <2>3. CASE defaultGame = "other"
    <3>1. Valid(Other)'
      BY <1>6, OtherIsValid DEF InstallTypeOK, Valid, Other, Extracted, InspectGame, RequiredGame
    <3>2. QED
      BY <2>1, <2>3, <3>1 DEF Directory
  <2>4. CASE defaultGame = "nothing"
    BY <2>1, <2>4 DEF Directory, NoDirectory, Patch, Valid, InspectGame
  <2>5. QED
    BY <2>2, <2>3, <2>4 DEF InstallTypeOK
<1>9. WindowKnows'
  BY <1>2, <1>3, <1>8 DEF WindowKnows, Start
<1>10. QED
  BY <1>4, <1>6, <1>7, <1>9

LEMMA WindowKeeps ==
  ASSUME InstallInv, (\E ensured \in BOOLEAN : SeeFinished(ensured)) \/ PressPlay \/ PressExtract
               \/ CloseWindow \/ Join
  PROVE  InstallInv' /\ (Valid(output) => Valid(output)')
<1> USE DEF InstallInv
<1>1. build' = build /\ output' = output /\ staging' = staging
  BY DEF SeeFinished, PressPlay, PressExtract, CloseWindow, Join, extractionVars
<1>2. Valid(output)' <=> Valid(output)
  BY <1>1 DEF Valid, InspectGame, RequiredGame
<1>3. Valid(staging)' <=> Valid(staging)
  BY <1>1 DEF Valid, InspectGame, RequiredGame
<1>4. \A game \in {"nothing", "output", "other"} :
        Valid(Directory(game)) => Valid(Directory(game))'
  BY <1>1, <1>2, FoundStaysValid DEF InstallTypeOK
<1>5. CASE \E ensured \in BOOLEAN : SeeFinished(ensured)
  <2>1. Valid(output) /\ current' = [game |-> "output", valid |-> Valid(output)]
    BY <1>5 DEF SeeFinished, ThreadKnows
  <2>2. Valid(Directory("output"))'
    BY <1>2, <2>1 DEF Directory
  <2>3. current'.game = "output" /\ current'.valid
    BY <2>1
  <2>4. InstallTypeOK'
    BY <1>5, <2>1 DEF SeeFinished, InstallTypeOK
  <2>5. ThreadKnows'
    BY <1>2, <1>3, <1>5 DEF SeeFinished, ThreadKnows, Replacing
  <2>6. WindowKnows'
    BY <1>5, <2>2, <2>3 DEF SeeFinished, WindowKnows
  <2>7. QED
    BY <1>2, <2>4, <2>5, <2>6
<1>6. CASE PressPlay \/ PressExtract \/ CloseWindow \/ Join
  <2>1. current' = current
    BY <1>6 DEF PressPlay, PressExtract, CloseWindow, Join, windowVars
  <2>2. InstallTypeOK'
    BY <1>6 DEF PressPlay, PressExtract, CloseWindow, Join, windowVars, extractionVars,
                InstallTypeOK
  <2>3. ThreadKnows'
    <3>1. /\ thread' \in {thread, "open"} /\ (finished' => finished)
          /\ window' # "starting"
      BY <1>6 DEF PressPlay, PressExtract, CloseWindow, Join, windowVars, extractionVars
    <3>2. QED
      BY <1>2, <1>3, <3>1 DEF ThreadKnows, Replacing
  <2>4. window # "starting" /\ window' # "starting"
    BY <1>6 DEF PressPlay, PressExtract, CloseWindow, Join, windowVars
  <2>5. ASSUME current.valid PROVE Valid(Directory(current.game))'
    <3>1. PICK game \in {"nothing", "output", "other"} : game = current.game
      BY DEF InstallTypeOK
    <3>2. Valid(Directory(game))'
      BY <1>4, <2>4, <2>5, <3>1 DEF WindowKnows
    <3>3. QED
      BY <2>1, <3>1, <3>2
  <2>6. WindowKnows'
    BY <1>6, <2>1, <2>4, <2>5 DEF PressPlay, PressExtract, CloseWindow, Join, windowVars,
                                  WindowKnows
  <2>7. QED
    BY <1>2, <2>2, <2>3, <2>6
<1>7. QED
  BY <1>5, <1>6

LEMMA CrashKeeps ==
  ASSUME InstallInv, Crash
  PROVE  InstallInv' /\ (Valid(output) => Valid(output)')
<1> USE DEF InstallInv
<1>1. build' = build /\ window' = "starting" /\ thread' = "none" /\ ~finished' /\ ~play'
  BY DEF Crash
<1>2. InstallTypeOK'
  BY MadeTyped DEF Crash, InstallTypeOK
<1>3. Valid(output) => output' = output
  BY DEF Crash, ThreadKnows, Replacing
<1>4. Valid(output) => Valid(output)'
  BY <1>1, <1>3 DEF Valid, InspectGame, RequiredGame
<1>5. QED
  BY <1>1, <1>2, <1>4 DEF ThreadKnows, WindowKnows, Replacing

LEMMA InstallStutters ==
  ASSUME InstallInv, UNCHANGED installVars
  PROVE  InstallInv' /\ (Valid(output) => Valid(output)')
<1> USE DEF InstallInv, installVars, Valid, InspectGame, RequiredGame
<1>1. InstallTypeOK'
  BY DEF InstallTypeOK
<1>2. ThreadKnows'
  BY DEF ThreadKnows, Replacing
<1>3. WindowKnows'
  BY DEF WindowKnows, Directory, Other, Extracted
<1>4. QED
  BY <1>1, <1>2, <1>3

LEMMA InstallKeeps ==
  ASSUME InstallInv, [InstallNext]_installVars
  PROVE  InstallInv' /\ (Valid(output) => Valid(output)')
BY ExtractionKeeps, ExtractionKeepsGame, StartKeeps, WindowKeeps, CrashKeeps, InstallStutters
   DEF InstallNext

LEMMA InstallInvariance == InstallSpec => []InstallInv
<1>1. InstallInv /\ [InstallNext]_installVars => InstallInv'
  BY InstallKeeps
<1>2. QED
  BY <1>1, InstallStarts, PTL DEF InstallSpec

-----------------------------------------------------------------------------
(* Directories, the window and what it shows are well typed.                *)
THEOREM InstallTypeCorrect == InstallSpec => []InstallTypeOK
BY InstallInvariance, PTL DEF InstallInv

(* The game that is started is there and valid, after any extractions,      *)
(* failures and crashes, and none is announced that is not.                 *)
THEOREM PlaysOnlyValidGames == InstallSpec => []WhatIsPlayedIsValid
<1>1. InstallInv => WhatIsPlayedIsValid
  BY DEF InstallInv, ThreadKnows, WindowKnows, WhatIsPlayedIsValid
<1>2. QED
  BY <1>1, InstallInvariance, PTL

(* No step takes a valid game away.                                         *)
THEOREM ValidGamesAreKept == InstallSpec => AValidGameIsKept
<1>1. InstallInv /\ [InstallNext]_installVars => [Valid(output) => Valid(output')]_installVars
  <2> SUFFICES ASSUME InstallInv, [InstallNext]_installVars, Valid(output)
               PROVE  Valid(output')
    OBVIOUS
  <2>1. build' = build
    BY DEF InstallNext, ExtractDisc, Start, SeeFinished, PressPlay, PressExtract, CloseWindow,
           Join, Crash, installVars
  <2>2. Valid(output)'
    BY InstallKeeps
  <2>3. QED
    BY <2>1, <2>2 DEF Valid, InspectGame, RequiredGame
<1>2. QED
  BY <1>1, InstallInvariance, PTL DEF InstallSpec, AValidGameIsKept

-----------------------------------------------------------------------------
(* The cache.                                                               *)

Steps == {"idle", "look up", "patch", "recompile", "copy DOL", "compile",
          "publish", "manifest", "activate"}

Read == Dols \union {Missing}
Built == [code : Read, beside : Read, tools : Toolsets] \union {Missing, Torn}
Artifact == [patchedDol : Read, generated : Read, mainDol : Read,
             built : Built, module : Built, manifest : Dols \union {Missing, Torn}]

CacheTypeOK ==
  /\ dol \in Dols
  /\ hasPatches \in BOOLEAN
  /\ artifact \in [Keys -> Artifact]
  /\ active \in Keys \union {NoKey}
  /\ step \in Steps
  /\ key \in Keys
  /\ tainted \subseteq Keys

Whole(k) == [code |-> k.dol, beside |-> k.dol, tools |-> k.tools]

(* What is compiled under a name is what the name says, before it is        *)
(* published as well as after.                                              *)
BuiltAsNamed ==
  \A k \in Keys \ tainted :
    artifact[k].built \in {Missing, Whole(k)} /\ artifact[k].module \in {Missing, Whole(k)}

(* A build that has not lost its DOL is at each step a build of the DOL its *)
(* key was taken from: in the game while that is still to be read, in the   *)
(* files it was copied to afterwards.                                       *)
BuildsItsKey ==
  key \notin tainted =>
    /\ step \in Unread => dol = key.dol
    /\ step \in {"recompile", "copy DOL"} => RecompDol = key.dol
    /\ step \in {"copy DOL", "compile"} => artifact[key].generated = key.dol
    /\ step = "compile" => artifact[key].mainDol = key.dol

(* No step reads a file that is not there.                                  *)
NothingIsMissing ==
  /\ step \in {"recompile", "copy DOL"} => RecompDol \in Dols
  /\ step \in {"copy DOL", "compile"} => artifact[key].generated \in Dols
  /\ step = "compile" => artifact[key].mainDol \in Dols
  /\ step = "publish" => artifact[key].built # Missing
  /\ step \in {"manifest", "activate"} => artifact[key].module # Missing
  /\ active # NoKey => artifact[active].module # Missing

ManifestsAsNamed == \A k \in Keys : artifact[k].manifest \in {Missing, Torn, k.dol}

CacheInv ==
  /\ CacheTypeOK
  /\ BuiltAsNamed
  /\ BuildsItsKey
  /\ NothingIsMissing
  /\ ManifestsAsNamed

-----------------------------------------------------------------------------
LEMMA NewlyBuilt ==
  ASSUME NEW code \in Dols, NEW beside \in Dols, NEW tools \in Toolsets
  PROVE  /\ [code |-> code, beside |-> beside, tools |-> tools] \in Built
         /\ [code |-> code, beside |-> beside, tools |-> tools] # Missing
BY CacheAssumption DEF Built, Read, Modules

LEMMA CacheStarts == CacheInit => CacheInv
<1> SUFFICES ASSUME CacheInit PROVE CacheInv
  OBVIOUS
<1>1. Keys # {}
  <2>1. PICK tools \in Toolsets : TRUE
    BY CacheAssumption
  <2>2. [dol |-> dol, tools |-> tools] \in Keys
    BY DEF CacheInit, Keys
  <2>3. QED
    BY <2>2
<1>2. NoArtifact \in Artifact
  BY DEF NoArtifact, Artifact, Read, Built
<1>3. CacheTypeOK
  BY <1>1, <1>2 DEF CacheInit, CacheTypeOK, Steps
<1>4. QED
  BY <1>3 DEF CacheInit, CacheInv, BuiltAsNamed, BuildsItsKey, NothingIsMissing, ManifestsAsNamed,
              NoArtifact, Unread

-----------------------------------------------------------------------------
(* Every step of a build keeps the invariant.                               *)
LEMMA StartBuildKeeps ==
  ASSUME CacheInv, NEW tools \in Toolsets, StartBuild(tools)
  PROVE  CacheInv'
<1>1. key' = [dol |-> dol, tools |-> tools] /\ key' \in Keys /\ key'.dol = dol
  BY DEF StartBuild, CacheKey, Keys, CacheInv, CacheTypeOK
<1>2. CacheTypeOK'
  BY <1>1 DEF StartBuild, CacheInv, CacheTypeOK, Steps
<1>3. BuildsItsKey'
  <2>1. dol' = dol /\ step' = "look up"
    BY DEF StartBuild
  <2>2. QED
    BY <1>1, <2>1 DEF BuildsItsKey
<1>4. QED
  BY <1>1, <1>2, <1>3 DEF StartBuild, CacheInv, BuiltAsNamed, NothingIsMissing, ManifestsAsNamed

LEMMA LookUpKeeps ==
  ASSUME CacheInv, LookUp
  PROVE  CacheInv'
<1>1. CacheTypeOK'
  BY DEF LookUp, Goes, CacheInv, CacheTypeOK, Steps
<1>2. BuildsItsKey'
  BY DEF LookUp, Goes, CacheInv, BuildsItsKey, RecompDol, Unread
<1>3. NothingIsMissing'
  BY DEF LookUp, Goes, CacheInv, NothingIsMissing, RecompDol, CacheTypeOK
<1>4. QED
  BY <1>1, <1>2, <1>3 DEF LookUp, Goes, CacheInv, BuiltAsNamed, ManifestsAsNamed

(* The three files a build writes for itself.                               *)
LEMMA PreparationKeeps ==
  ASSUME CacheInv, PatchDol \/ Recompile \/ CopyDol
  PROVE  CacheInv'
<1> USE DEF CacheInv, Goes
<1>1. PICK f \in {"patchedDol", "generated", "mainDol"}, d \in Dols :
        artifact' = [artifact EXCEPT ![key][f] = d]
  BY DEF PatchDol, Recompile, CopyDol, NothingIsMissing, CacheTypeOK
<1>2. artifact' \in [Keys -> Artifact]
  BY <1>1 DEF CacheTypeOK, Artifact, Read
<1>3. CacheTypeOK'
  BY <1>2 DEF PatchDol, Recompile, CopyDol, CacheTypeOK, Steps
<1>4. \A k \in Keys : /\ artifact'[k].built = artifact[k].built
                      /\ artifact'[k].module = artifact[k].module
                      /\ artifact'[k].manifest = artifact[k].manifest
  BY <1>1 DEF CacheTypeOK, Artifact
<1>5. BuiltAsNamed' /\ ManifestsAsNamed'
  BY <1>4 DEF PatchDol, Recompile, CopyDol, BuiltAsNamed, ManifestsAsNamed
<1>6. CASE PatchDol
  <2>1. artifact'[key].patchedDol = dol /\ dol \in Dols /\ step' = "recompile"
    BY <1>6 DEF PatchDol, CacheTypeOK, Artifact
  <2>2. BuildsItsKey' /\ NothingIsMissing'
    BY <1>4, <1>6, <2>1
       DEF PatchDol, BuildsItsKey, NothingIsMissing, RecompDol, Unread, CacheTypeOK
  <2>3. QED
    BY <1>3, <1>5, <2>2
<1>7. CASE Recompile
  <2>1. /\ artifact'[key].generated = RecompDol /\ step' = "copy DOL"
        /\ artifact'[key].patchedDol = artifact[key].patchedDol
    BY <1>7 DEF Recompile, CacheTypeOK, Artifact
  <2>2. RecompDol' = RecompDol
    BY <1>7, <2>1 DEF Recompile, RecompDol
  <2>3. BuildsItsKey' /\ NothingIsMissing'
    BY <1>4, <1>7, <2>1, <2>2 DEF Recompile, BuildsItsKey, NothingIsMissing, Unread, CacheTypeOK
  <2>4. QED
    BY <1>3, <1>5, <2>3
<1>8. CASE CopyDol
  <2>1. /\ artifact'[key].mainDol = RecompDol /\ step' = "compile"
        /\ artifact'[key].generated = artifact[key].generated
    BY <1>8 DEF CopyDol, CacheTypeOK, Artifact
  <2>2. BuildsItsKey' /\ NothingIsMissing'
    BY <1>4, <1>8, <2>1 DEF CopyDol, BuildsItsKey, NothingIsMissing, Unread, CacheTypeOK
  <2>3. QED
    BY <1>3, <1>5, <2>2
<1>9. QED
  BY <1>6, <1>7, <1>8

LEMMA CompileKeeps ==
  ASSUME CacheInv, Compile
  PROVE  CacheInv'
<1> USE DEF CacheInv, Goes
<1> DEFINE new == [code |-> artifact[key].generated, beside |-> artifact[key].mainDol,
                   tools |-> key.tools]
<1>1. new \in Built /\ new # Missing
  BY NewlyBuilt DEF Compile, NothingIsMissing, CacheTypeOK, Keys
<1>2. key \notin tainted => new = Whole(key)
  BY DEF Compile, BuildsItsKey, Whole
<1> HIDE DEF new
<1>3. artifact' = [artifact EXCEPT ![key].built = new] /\ step' = "publish"
  BY DEF Compile, new
<1>4. CacheTypeOK'
  BY <1>1, <1>3 DEF Compile, CacheTypeOK, Artifact, Steps
<1>5. \A k \in Keys : /\ artifact'[k].built = IF k = key THEN new ELSE artifact[k].built
                      /\ artifact'[k].module = artifact[k].module
                      /\ artifact'[k].manifest = artifact[k].manifest
  BY <1>3 DEF CacheTypeOK, Artifact
<1>6. BuiltAsNamed' /\ ManifestsAsNamed'
  BY <1>2, <1>5 DEF Compile, BuiltAsNamed, ManifestsAsNamed
<1>7. BuildsItsKey' /\ NothingIsMissing'
  BY <1>1, <1>3, <1>5 DEF Compile, BuildsItsKey, NothingIsMissing, Unread, CacheTypeOK
<1>8. QED
  BY <1>4, <1>6, <1>7

LEMMA CopyModuleKeeps ==
  ASSUME CacheInv, CopyModule
  PROVE  CacheInv'
<1> USE DEF CacheInv, Goes
<1>1. artifact[key].built \in Built /\ artifact[key].built # Missing
  BY DEF CopyModule, NothingIsMissing, CacheTypeOK, Artifact
<1>2. artifact' = [artifact EXCEPT ![key].module = artifact[key].built] /\ step' = "manifest"
  BY DEF CopyModule
<1>3. CacheTypeOK'
  BY <1>1, <1>2 DEF CopyModule, CacheTypeOK, Artifact, Steps
<1>4. \A k \in Keys : /\ artifact'[k].built = artifact[k].built
                      /\ artifact'[k].module = IF k = key THEN artifact[k].built
                                                          ELSE artifact[k].module
                      /\ artifact'[k].manifest = artifact[k].manifest
  BY <1>2 DEF CacheTypeOK, Artifact
<1>5. BuiltAsNamed' /\ ManifestsAsNamed'
  BY <1>4 DEF CopyModule, BuiltAsNamed, ManifestsAsNamed
<1>6. BuildsItsKey' /\ NothingIsMissing'
  BY <1>1, <1>2, <1>4 DEF CopyModule, BuildsItsKey, NothingIsMissing, Unread, CacheTypeOK
<1>7. QED
  BY <1>3, <1>5, <1>6

LEMMA WriteManifestKeeps ==
  ASSUME CacheInv, WriteManifest
  PROVE  CacheInv'
<1> USE DEF CacheInv, Goes
<1>1. artifact' = [artifact EXCEPT ![key].manifest = key.dol] /\ step' = "activate"
  BY DEF WriteManifest
<1>2. CacheTypeOK'
  <2>1. key.dol \in Dols
    BY DEF CacheTypeOK, Keys
  <2>2. artifact' \in [Keys -> Artifact]
    BY <1>1, <2>1 DEF CacheTypeOK, Artifact
  <2>3. QED
    BY <1>1, <2>2 DEF WriteManifest, CacheTypeOK, Steps
<1>3. \A k \in Keys : /\ artifact'[k].built = artifact[k].built
                      /\ artifact'[k].module = artifact[k].module
                      /\ artifact'[k].manifest = IF k = key THEN key.dol
                                                            ELSE artifact[k].manifest
  BY <1>1 DEF CacheTypeOK, Artifact
<1>4. QED
  BY <1>1, <1>2, <1>3 DEF WriteManifest, BuiltAsNamed, ManifestsAsNamed, BuildsItsKey,
                          NothingIsMissing, Unread, CacheTypeOK

LEMMA IdleKeeps ==
  ASSUME CacheInv, WriteActive \/ GiveUp
  PROVE  CacheInv'
BY DEF WriteActive, GiveUp, Goes, CacheInv, CacheTypeOK, Steps, BuiltAsNamed, ManifestsAsNamed,
       BuildsItsKey, NothingIsMissing, Unread

-----------------------------------------------------------------------------
(* A build that is cut off, and a DOL that is exchanged under it.           *)
LEMMA InterruptKeeps ==
  ASSUME CacheInv, Interrupt
  PROVE  CacheInv'
<1> USE DEF CacheInv
<1>1. /\ step' = "idle" /\ key' = key /\ dol' = dol /\ hasPatches' = hasPatches
      /\ active' \in {active, NoKey}
      /\ tainted \subseteq tainted' /\ tainted' \subseteq tainted \union {key}
  BY DEF Interrupt
<1>2. \/ artifact' = artifact
      \/ artifact' = Cut("built", key) /\ step = "compile"
      \/ artifact' = Cut("module", key) /\ step = "publish"
      \/ artifact' = Cut("manifest", key) /\ step = "manifest"
  BY DEF Interrupt
<1>3. CacheTypeOK'
  <2>1. artifact' \in [Keys -> Artifact]
    <3>1. CASE artifact' = artifact
      BY <3>1 DEF CacheTypeOK
    <3>2. CASE artifact' = [artifact EXCEPT ![key].built = Torn]
      BY <3>2 DEF CacheTypeOK, Artifact, Built
    <3>3. CASE artifact' = [artifact EXCEPT ![key].module = Torn]
      BY <3>3 DEF CacheTypeOK, Artifact, Built
    <3>4. CASE artifact' = [artifact EXCEPT ![key].manifest = Torn]
      BY <3>4 DEF CacheTypeOK, Artifact
    <3>5. QED
      BY <1>2, <3>1, <3>2, <3>3, <3>4 DEF Cut
  <2>2. QED
    BY <1>1, <2>1 DEF CacheTypeOK, Steps
<1>4. \A k \in Keys : artifact'[k].module \in {artifact[k].module, Torn}
  BY <1>2 DEF Cut, CacheTypeOK, Artifact
<1>5. \A k \in Keys \ tainted' : /\ artifact'[k].built = artifact[k].built
                                 /\ artifact'[k].module = artifact[k].module
  BY <1>2 DEF Interrupt, Cut, CacheTypeOK, Artifact
<1>6. \A k \in Keys : artifact'[k].manifest \in {artifact[k].manifest, Torn}
  BY <1>2 DEF Cut, CacheTypeOK, Artifact
<1>7. BuiltAsNamed' /\ ManifestsAsNamed'
  BY <1>1, <1>5, <1>6 DEF BuiltAsNamed, ManifestsAsNamed
<1>8. BuildsItsKey' /\ NothingIsMissing'
  BY <1>1, <1>4, CacheAssumption DEF BuildsItsKey, NothingIsMissing, Unread, CacheTypeOK
<1>9. QED
  BY <1>3, <1>7, <1>8

LEMMA ExchangeKeeps ==
  ASSUME CacheInv, NEW contents \in Dols, ExchangeDol(contents)
  PROVE  CacheInv'
<1> USE DEF CacheInv, ExchangeDol
<1>1. CacheTypeOK'
  BY DEF CacheTypeOK
<1>2. BuiltAsNamed' /\ ManifestsAsNamed'
  BY DEF BuiltAsNamed, ManifestsAsNamed
<1>3. BuildsItsKey' /\ NothingIsMissing'
  BY DEF BuildsItsKey, NothingIsMissing, Unread, RecompDol
<1>4. QED
  BY <1>1, <1>2, <1>3

LEMMA CacheStutters == ASSUME CacheInv, UNCHANGED cacheVars PROVE CacheInv'
BY DEF CacheInv, cacheVars, CacheTypeOK, BuiltAsNamed, ManifestsAsNamed, BuildsItsKey,
       NothingIsMissing, Unread, RecompDol

LEMMA CacheKeeps ==
  ASSUME CacheInv, CacheNext
  PROVE  CacheInv'
BY StartBuildKeeps, LookUpKeeps, PreparationKeeps, CompileKeeps, CopyModuleKeeps,
   WriteManifestKeeps, IdleKeeps, InterruptKeeps, ExchangeKeeps DEF CacheNext

LEMMA CacheInvariance == CacheSpec => []CacheInv
<1>1. CacheInv /\ [CacheNext]_cacheVars => CacheInv'
  BY CacheKeeps, CacheStutters
<1>2. QED
  BY <1>1, CacheStarts, PTL DEF CacheSpec

-----------------------------------------------------------------------------
(* The files of the cache are well typed, and a build is at one of its      *)
(* steps.                                                                   *)
THEOREM CacheTypeCorrect == CacheSpec => []CacheTypeOK
BY CacheInvariance, PTL DEF CacheInv

LEMMA CacheKeyed == ASSUME CacheInv PROVE CacheIsKeyed
<1>1. \A k \in Keys \ tainted :
        artifact[k].module \in {Missing, [code |-> k.dol, beside |-> k.dol, tools |-> k.tools]}
  BY DEF CacheInv, BuiltAsNamed, Whole
<1>2. active # NoKey => artifact[active].module # Missing
  BY DEF CacheInv, NothingIsMissing
<1>3. ASSUME NEW contents \in Dols, CachedModuleStatus(contents) = "current"
      PROVE  active.dol = contents
  BY <1>3, CacheAssumption
     DEF CacheInv, ManifestsAsNamed, CacheTypeOK, CachedModuleStatus
<1>4. QED
  BY <1>1, <1>2, <1>3 DEF CacheIsKeyed

(* A module that can be found by a key is the one the key names, whole,     *)
(* whatever was built, exchanged or cut off before; the module in use is    *)
(* there; and none is called current for another game.                      *)
THEOREM CacheServesItsKey == CacheSpec => []CacheIsKeyed
BY CacheKeyed, CacheInvariance, PTL

-----------------------------------------------------------------------------
(* The settings.                                                            *)

(* The records have their fields, whatever is in them.                      *)
FileFields == {"resolution", "fps", "backend", "fullscreen", "netplay", "controllers"}
PadFields == {"selected", "exists", "configured"}
Fields ==
  /\ DOMAIN file = FileFields /\ DOMAIN config = FileFields \cup {"controller"}
  /\ DOMAIN shown = {"resolution", "fps", "backend", "fullscreen"}
  /\ DOMAIN profile = {"exists", "devices"} /\ DOMAIN pads = PadFields
  /\ DOMAIN lobby = {"controllers", "count"}

SettingsInv ==
  /\ Fields /\ ShownIsSaved /\ PadsAreMapped
  /\ profile.devices # <<>> => profile.exists
  /\ mode = "netplay" => profile.exists

(* What a file says of the settings shown, a configuration of those that    *)
(* only it is saved from.                                                   *)
InFile(f) ==
  /\ f.backend = shown.backend /\ f.fullscreen = shown.fullscreen /\ f.fps = shown.fps
  /\ f.resolution # Multiple => f.resolution = shown.resolution

InMemory(c) == c.backend = shown.backend /\ c.fullscreen = shown.fullscreen

(* Two files or configurations that agree on what is shown.                 *)
Alike(f, c) ==
  f.backend = c.backend /\ f.fullscreen = c.fullscreen /\ f.fps = c.fps
    /\ f.resolution = c.resolution

(* A save that is whole has every line; one not opened leaves the file.     *)
LEMMA Saving ==
  ASSUME NEW old, DOMAIN old = FileFields, NEW c, NEW kept
  PROVE  LET saved == SaveConfig(old, c, kept) IN
           /\ DOMAIN saved.file = FileFields
           /\ saved.end \in {"unopened", "whole", "cut"}
           /\ saved.end = "whole" => saved.ok /\ Alike(saved.file, c)
           /\ saved.end = "unopened" => saved.file = old /\ ~saved.ok
<1> DEFINE lines == Lines(c)
           opened == ~Refused(c) /\ kept # Unopened
           broken == Broken(c.controllers)
           saved == SaveConfig(old, c, kept)
<1>1. DOMAIN lines = FileFields /\ Alike(lines, c)
  BY DEF Lines, FileFields, Alike
<1> HIDE DEF lines
<1>2. DOMAIN FirstLines(lines, kept) = FileFields
  BY <1>1 DEF FirstLines
<1>3. ASSUME kept = AllLines
      PROVE  Alike(FirstLines(lines, kept), lines)
  BY <1>1, <1>3 DEF FirstLines, AllLines, Place, Alike, FileFields
<1>4. /\ saved.file = IF opened THEN FirstLines(lines, kept) ELSE old
      /\ saved.ok = (opened /\ ~broken)
      /\ saved.end = IF ~opened THEN "unopened"
                     ELSE IF kept = AllLines /\ ~broken THEN "whole" ELSE "cut"
  BY DEF SaveConfig, lines
<1> HIDE DEF saved, opened, broken
<1>5. saved.end = "whole" => saved.ok /\ Alike(saved.file, c)
  BY <1>1, <1>3, <1>4 DEF Alike
<1>6. QED
  BY <1>2, <1>4, <1>5 DEF saved

(* A save by way of the file, of settings that are shown or about to be.    *)
LEMMA SavingByFile ==
  ASSUME DOMAIN file = FileFields, NEW resolution, NEW fps, NEW controller, NEW kept
  PROVE  LET saved == SaveConfig(file, Changed(file, resolution, fps, controller), kept) IN
           /\ DOMAIN saved.file = FileFields
           /\ LostByFile(saved) \in BOOLEAN
           /\ ~LostByFile(saved) => ~lost
           /\ ~LostByFile(saved) /\ ~saved.ok => saved.file = file
           /\ ~LostByFile(saved) /\ saved.ok =>
                /\ saved.file.backend = file.backend /\ saved.file.fullscreen = file.fullscreen
                /\ saved.file.fps = fps /\ saved.file.resolution = resolution
<1> DEFINE changed == Changed(file, resolution, fps, controller)
           saved == SaveConfig(file, changed, kept)
<1>1. ASSUME Readable(file)
      PROVE  /\ changed.backend = file.backend /\ changed.fullscreen = file.fullscreen
             /\ changed.fps = fps /\ changed.resolution = resolution
  BY <1>1 DEF Changed, LoadConfig
<1> HIDE DEF changed
<1>2. /\ DOMAIN saved.file = FileFields
      /\ saved.end \in {"unopened", "whole", "cut"}
      /\ saved.end = "whole" => saved.ok /\ Alike(saved.file, changed)
      /\ saved.end = "unopened" => saved.file = file /\ ~saved.ok
  BY Saving
<1> HIDE DEF saved
<1>3. QED
  BY <1>1, <1>2 DEF LostByFile, Alike, saved, changed

(* A write of the profile leaves it, cuts it or completes it.               *)
LEMMA Generating ==
  ASSUME NEW old, DOMAIN old = {"exists", "devices"}, NEW devices, NEW write
  PROVE  LET made == GenerateControllerConfig(old, devices, write) IN
           /\ DOMAIN made.profile = {"exists", "devices"}
           /\ made.end \in {"unopened", "whole", "cut"}
           /\ made.end = "whole" => made.profile = Profile(devices)
           /\ made.end # "unopened" => made.profile.exists
           /\ made.end = "unopened" => made.profile = old /\ ~made.ok
BY DEF GenerateControllerConfig, Profile

(* What SelectController and EnsureController may make of the state.        *)
StateFields == {"file", "profile", "config", "pads", "lost", "unmapped", "ok"}

Sound(made) ==
  /\ DOMAIN made.file = FileFields /\ DOMAIN made.config = FileFields \cup {"controller"}
  /\ DOMAIN made.profile = {"exists", "devices"} /\ DOMAIN made.pads = PadFields
  /\ InMemory(made.config)
  /\ ~made.lost => InFile(made.file)
  /\ made.profile.devices # <<>> => made.profile.exists
  /\ made.ok => made.profile.exists
  /\ made.ok /\ ~made.unmapped => /\ made.profile.devices # <<>>
                                  /\ made.pads.configured = made.profile.devices

(* Before anything is written, with whatever device selected.               *)
AsIs(s) ==
  /\ DOMAIN s = StateFields
  /\ s.file = file /\ s.profile = profile /\ s.config = config
  /\ s.lost = lost /\ s.unmapped = unmapped
  /\ DOMAIN s.pads = PadFields /\ s.ok = FALSE

LEMMA ShownNow ==
  ASSUME SettingsInv, mode = "launcher"
  PROVE  /\ InMemory(config) /\ (~lost => InFile(file))
         /\ Fields /\ (profile.devices # <<>> => profile.exists)
BY DEF SettingsInv, ShownIsSaved, InMemory, InFile

LEMMA NothingYetIsSound ==
  ASSUME SettingsInv, mode = "launcher", NEW s, AsIs(s)
  PROVE  Sound(s)
BY ShownNow DEF AsIs, Sound, Fields

LEMMA SelectionIsSound ==
  ASSUME SettingsInv, mode = "launcher", NEW s, AsIs(s), NEW device, NEW write, NEW kept
  PROVE  /\ Sound(SelectController(s, device, write, kept))
         /\ DOMAIN SelectController(s, device, write, kept) = StateFields
<1> DEFINE made == GenerateControllerConfig(profile, <<device>>, write)
           saved == SaveConfig(file, Changed(file, shown.resolution, shown.fps, device), kept)
           wrote == [s EXCEPT !.profile = made.profile]
           tried == [wrote EXCEPT !.file = saved.file, !.lost = LostByFile(saved)]
           new == [selected |-> device, configured |-> <<device>>, exists |-> TRUE]
           both == [tried EXCEPT
                      !.config = [@ EXCEPT !.controller = device, !.controllers = <<device>>,
                                           !.resolution = shown.resolution, !.fps = shown.fps],
                      !.pads = new,
                      !.unmapped = (made.end # "whole"),
                      !.ok = TRUE]
<1>1. SelectController(s, device, write, kept) =
        IF ~made.ok THEN wrote ELSE IF ~saved.ok THEN tried ELSE both
  BY DEF AsIs, SelectController
<1>2. Sound(s) /\ Fields /\ InMemory(config) /\ (~lost => InFile(file))
  BY NothingYetIsSound, ShownNow
<1>3. /\ DOMAIN made.profile = {"exists", "devices"}
      /\ made.end \in {"unopened", "whole", "cut"}
      /\ made.end = "whole" => made.profile = Profile(<<device>>)
      /\ made.end # "unopened" => made.profile.exists
      /\ made.end = "unopened" => made.profile = profile /\ ~made.ok
  BY <1>2, Generating DEF Fields
<1>4. /\ DOMAIN saved.file = FileFields
      /\ ~LostByFile(saved) => ~lost
      /\ ~LostByFile(saved) /\ ~saved.ok => saved.file = file
      /\ ~LostByFile(saved) /\ saved.ok =>
           /\ saved.file.backend = file.backend /\ saved.file.fullscreen = file.fullscreen
           /\ saved.file.fps = shown.fps /\ saved.file.resolution = shown.resolution
  BY <1>2, SavingByFile DEF Fields
<1>5. ~LostByFile(saved) => InFile(saved.file)
  BY <1>2, <1>4 DEF InFile
<1> HIDE DEF made, saved
<1>6. /\ DOMAIN wrote = StateFields /\ wrote.profile = made.profile /\ wrote.file = file
      /\ wrote.config = config /\ wrote.pads = s.pads /\ wrote.lost = lost /\ ~wrote.ok
  BY DEF AsIs, StateFields
<1>7. Sound(wrote) /\ DOMAIN wrote = StateFields
  BY <1>2, <1>3, <1>6 DEF Sound, Fields, AsIs
<1> HIDE DEF wrote
<1>8. /\ DOMAIN tried = StateFields /\ tried.profile = made.profile /\ tried.file = saved.file
      /\ tried.config = config /\ tried.pads = s.pads /\ tried.lost = LostByFile(saved)
      /\ ~tried.ok
  BY <1>6 DEF StateFields
<1>9. Sound(tried) /\ DOMAIN tried = StateFields
  BY <1>2, <1>4, <1>5, <1>7, <1>6, <1>8 DEF Sound
<1> HIDE DEF tried
<1>10. ASSUME made.ok
       PROVE  Sound(both) /\ DOMAIN both = StateFields
  <2> DEFINE c == [config EXCEPT !.controller = device, !.controllers = <<device>>,
                                 !.resolution = shown.resolution, !.fps = shown.fps]
  <2>1. DOMAIN c = DOMAIN config /\ c.backend = config.backend /\ c.fullscreen = config.fullscreen
    BY <1>2 DEF Fields, FileFields
  <2> HIDE DEF c
  <2>2. both = [tried EXCEPT !.config = c, !.pads = new,
                             !.unmapped = (made.end # "whole"), !.ok = TRUE]
    BY <1>8 DEF c
  <2>3. DOMAIN new = PadFields /\ new.configured = <<device>>
    BY DEF PadFields
  <2> HIDE DEF new
  <2>4. /\ DOMAIN both = StateFields /\ both.profile = made.profile /\ both.file = saved.file
        /\ both.config = c /\ both.pads = new /\ both.lost = LostByFile(saved)
        /\ both.unmapped = (made.end # "whole") /\ both.ok = TRUE
    BY <1>8, <2>2 DEF StateFields
  <2> HIDE DEF both
  <2>5. InMemory(c) /\ DOMAIN c = FileFields \cup {"controller"}
    BY <1>2, <2>1 DEF InMemory, Fields
  <2>6. made.profile.exists
    BY <1>3, <1>10
  <2>7. made.end = "whole" => made.profile.devices = <<device>> /\ <<device>> # <<>>
    BY <1>3 DEF Profile
  <2>8. QED
    BY <1>4, <1>5, <1>3, <2>3, <2>4, <2>5, <2>6, <2>7 DEF Sound
<1>11. QED
  BY <1>1, <1>7, <1>9, <1>10

LEMMA EnsuringIsSound ==
  ASSUME SettingsInv, mode = "launcher", NEW write, NEW kept
  PROVE  /\ Sound(EnsureController(Now, write, kept))
         /\ DOMAIN EnsureController(Now, write, kept) = StateFields
<1>1. AsIs(Now)
  BY DEF AsIs, Now, SettingsInv, Fields, StateFields
<1>2. Sound(Now) /\ DOMAIN Now = StateFields
  BY <1>1, NothingYetIsSound DEF AsIs
<1>3. Now.pads = pads /\ Now.profile = profile
  BY DEF Now
<1>4. CASE ~profile.exists
  <2>1. /\ Sound(SelectController(Now, Now.pads.selected, write, kept))
        /\ DOMAIN SelectController(Now, Now.pads.selected, write, kept) = StateFields
    BY <1>1, SelectionIsSound
  <2>2. QED
    BY <1>2, <1>3, <1>4, <2>1 DEF EnsureController
<1>5. CASE profile.exists /\ profile.devices = <<>>
  <2> DEFINE made == [Now EXCEPT !.pads = [@ EXCEPT !.exists = TRUE, !.configured = <<>>]]
  <2>1. EnsureController(Now, write, kept) = made
    BY <1>3, <1>5, <1>1 DEF EnsureController
  <2>2. /\ made.file = Now.file /\ made.config = Now.config /\ made.profile = Now.profile
        /\ made.lost = Now.lost /\ DOMAIN made.pads = PadFields /\ made.ok = FALSE
        /\ DOMAIN made = StateFields
    BY <1>1 DEF AsIs, StateFields
  <2> HIDE DEF made
  <2>3. QED
    BY <1>2, <2>1, <2>2 DEF Sound
<1>6. CASE profile.exists /\ profile.devices # <<>>
  <2> DEFINE new == [selected |-> Head(profile.devices), configured |-> profile.devices,
                     exists |-> TRUE]
             made == [Now EXCEPT !.pads = new, !.unmapped = FALSE, !.ok = TRUE]
  <2>1. EnsureController(Now, write, kept) = made
    BY <1>3, <1>6 DEF EnsureController
  <2>2. DOMAIN new = PadFields /\ new.configured = profile.devices
    BY DEF PadFields
  <2> HIDE DEF new
  <2>3. /\ made.file = Now.file /\ made.config = Now.config /\ made.profile = profile
        /\ made.lost = Now.lost /\ made.pads = new /\ DOMAIN made = StateFields
    BY <1>1, <1>3 DEF AsIs, StateFields
  <2> HIDE DEF made
  <2>4. QED
    BY <1>2, <1>3, <1>6, <2>1, <2>2, <2>3 DEF Sound
<1>7. QED
  BY <1>4, <1>5, <1>6

-----------------------------------------------------------------------------
(* Init, and the widgets.                                                   *)
LEMMA SettingsStarts == SettingsInit => SettingsInv
<1> SUFFICES ASSUME SettingsInit PROVE SettingsInv
  OBVIOUS
<1>1. /\ DOMAIN file = FileFields
      /\ file.resolution # Multiple => file.resolution = ShownResolution(file.resolution)
  BY DEF SettingsInit, FileFields, ShownResolution
<1>2. DOMAIN profile = {"exists", "devices"} /\ (profile.devices # <<>> => profile.exists)
  BY DEF SettingsInit, NoProfile, Profile
<1>3. /\ DOMAIN config = FileFields \cup {"controller"}
      /\ config.backend = file.backend /\ config.fullscreen = file.fullscreen
  BY DEF SettingsInit, LoadConfig, FileFields
<1>4. /\ DOMAIN shown = {"resolution", "fps", "backend", "fullscreen"}
      /\ shown.fps = file.fps /\ shown.backend = file.backend
      /\ shown.fullscreen = file.fullscreen
      /\ shown.resolution = ShownResolution(file.resolution)
  BY DEF SettingsInit
<1>5. DOMAIN pads = PadFields
  BY DEF SettingsInit, PadFields
<1>6. mode = "launcher" /\ DOMAIN lobby = {"controllers", "count"}
  BY DEF SettingsInit
<1>7. QED
  BY <1>1, <1>2, <1>3, <1>4, <1>5, <1>6 DEF SettingsInv, Fields, ShownIsSaved, PadsAreMapped

LEMMA BecomesKeeps ==
  ASSUME SettingsInv, NEW s, Sound(s), Becomes(s), UNCHANGED <<shown, lobby>>,
         \/ mode' = "launcher"
         \/ mode' = "solo" /\ s.ok
         \/ mode' = "netplay" /\ s.ok /\ s.config.controllers = s.pads.configured
  PROVE  SettingsInv'
<1>1. /\ file' = s.file /\ profile' = s.profile /\ config' = s.config /\ pads' = s.pads
      /\ lost' = s.lost /\ unmapped' = s.unmapped /\ shown' = shown /\ lobby' = lobby
  BY DEF Becomes
<1>2. Fields'
  BY <1>1 DEF Fields, SettingsInv, Sound
<1>3. ShownIsSaved'
  BY <1>1 DEF ShownIsSaved, Sound, InMemory, InFile
<1>4. PadsAreMapped'
  BY <1>1 DEF PadsAreMapped, Sound
<1>5. (profile.devices # <<>> => profile.exists)' /\ (mode = "netplay" => profile.exists)'
  BY <1>1 DEF Sound
<1>6. QED
  BY <1>2, <1>3, <1>4, <1>5 DEF SettingsInv

LEMMA GamepadsKeep ==
  ASSUME SettingsInv, NEW devices \in SUBSET Devices, NEW device, NEW write, NEW kept,
         \/ RefreshControllers(devices, write, kept)
         \/ PickController(device)
         \/ ReplaceProfile(write, kept)
  PROVE  SettingsInv'
<1>1. ASSUME RefreshControllers(devices, write, kept)
      PROVE  SettingsInv'
  <2> DEFINE selected == IF pads.selected \notin devices /\ devices # {} /\ ~pads.exists
                         THEN First(devices) ELSE pads.selected
             looked == [Now EXCEPT !.pads = [@ EXCEPT !.selected = selected]]
             made == IF pads.exists \/ devices = {} THEN looked
                     ELSE SelectController(looked, selected, write, kept)
  <2>1. mode = "launcher" /\ mode' = "launcher" /\ UNCHANGED <<shown, lobby>> /\ Becomes(made)
    BY <1>1 DEF RefreshControllers, Edit
  <2>2. AsIs(looked)
    BY DEF AsIs, Now, SettingsInv, Fields, StateFields
  <2> HIDE DEF selected, looked
  <2>3. Sound(made)
    BY <2>1, <2>2, NothingYetIsSound, SelectionIsSound
  <2> HIDE DEF made
  <2>4. QED
    BY <2>1, <2>3, BecomesKeeps
<1>2. ASSUME PickController(device)
      PROVE  SettingsInv'
  BY <1>2 DEF PickController, Edit, SettingsInv, Fields, ShownIsSaved, PadsAreMapped
<1>3. ASSUME ReplaceProfile(write, kept)
      PROVE  SettingsInv'
  <2>1. AsIs(Now)
    BY DEF AsIs, Now, SettingsInv, Fields, StateFields
  <2>2. QED
    BY <1>3, <2>1, SelectionIsSound, BecomesKeeps DEF ReplaceProfile, Edit
<1>4. QED
  BY <1>1, <1>2, <1>3

(* What a widget leaves when its save is refused, cut off or whole.         *)
LEMMA WidgetKeeps ==
  ASSUME SettingsInv, mode = "launcher", mode' = mode, UNCHANGED <<profile, pads, lobby, unmapped>>,
         DOMAIN file' = FileFields, DOMAIN config' = FileFields \cup {"controller"},
         DOMAIN shown' = DOMAIN shown,
         config'.backend = shown'.backend, config'.fullscreen = shown'.fullscreen,
         ~lost' => InFile(file)'
  PROVE  SettingsInv'
<1>1. Fields' /\ ShownIsSaved'
  BY DEF SettingsInv, Fields, ShownIsSaved, InFile
<1>2. PadsAreMapped'
  BY DEF SettingsInv, PadsAreMapped
<1>3. QED
  BY <1>1, <1>2 DEF SettingsInv

(* A widget saves what it changed, or leaves the file as it was, or has     *)
(* lost it.                                                                 *)
LEMMA WidgetsKeep ==
  ASSUME SettingsInv, NEW backend, NEW resolution, NEW kept, NEW fields,
         \/ ChangeBackend(backend, kept)
         \/ ChangeResolution(resolution, kept)
         \/ ToggleFullscreen(kept)
         \/ ToggleFps(kept)
         \/ EditNetplay(fields)
  PROVE  SettingsInv'
<1>1. mode = "launcher" /\ mode' = mode /\ UNCHANGED <<profile, pads, lobby, unmapped>>
  BY DEF ChangeBackend, ChangeResolution, ToggleFullscreen, ToggleFps, EditNetplay, Edit
<1>2. Fields /\ InMemory(config) /\ (~lost => InFile(file))
  BY <1>1, ShownNow
<1>3. ASSUME ChangeBackend(backend, kept)
      PROVE  SettingsInv'
  <2> DEFINE changed == [FromWidgets EXCEPT !.backend = backend]
             saved == SaveConfig(file, changed, kept)
  <2>1. /\ DOMAIN changed = FileFields \cup {"controller"}
        /\ changed.fps = shown.fps /\ changed.resolution = shown.resolution
        /\ changed.backend = backend /\ changed.fullscreen = config.fullscreen
    BY <1>2 DEF FromWidgets, Fields, FileFields
  <2>2. /\ config' = IF saved.ok THEN changed ELSE [changed EXCEPT !.backend = config.backend]
        /\ file' = saved.file /\ lost' = LostByAll(saved)
        /\ shown' = IF saved.ok THEN [shown EXCEPT !.backend = backend] ELSE shown
    BY <1>3 DEF ChangeBackend
  <2> HIDE DEF changed
  <2>3. /\ DOMAIN saved.file = FileFields
        /\ saved.end \in {"unopened", "whole", "cut"}
        /\ saved.end = "whole" => saved.ok /\ Alike(saved.file, changed)
        /\ saved.end = "unopened" => saved.file = file /\ ~saved.ok
    BY <1>2, Saving DEF Fields
  <2> HIDE DEF saved
  <2>4. /\ DOMAIN config' = FileFields \cup {"controller"} /\ DOMAIN shown' = DOMAIN shown
        /\ config'.backend = shown'.backend /\ config'.fullscreen = shown'.fullscreen
    BY <1>2, <2>1, <2>2 DEF Fields, FileFields, InMemory
  <2>5. ~lost' => InFile(file)'
    <3>1. CASE saved.end = "whole"
      BY <1>2, <2>1, <2>2, <2>3, <3>1 DEF InFile, Alike, InMemory, Fields
    <3>2. CASE saved.end = "unopened"
      BY <1>2, <2>2, <2>3, <3>2 DEF InFile, LostByAll
    <3>3. CASE saved.end = "cut"
      BY <2>2, <3>3 DEF LostByAll
    <3>4. QED
      BY <2>3, <3>1, <3>2, <3>3
  <2>6. QED
    BY <1>1, <2>2, <2>3, <2>4, <2>5, WidgetKeeps
<1>4. ASSUME ToggleFullscreen(kept)
      PROVE  SettingsInv'
  <2> DEFINE changed == [FromWidgets EXCEPT !.fullscreen = ~shown.fullscreen]
             saved == SaveConfig(file, changed, kept)
  <2>1. /\ DOMAIN changed = FileFields \cup {"controller"}
        /\ changed.fps = shown.fps /\ changed.resolution = shown.resolution
        /\ changed.backend = config.backend /\ changed.fullscreen = ~shown.fullscreen
    BY <1>2 DEF FromWidgets, Fields, FileFields
  <2>2. /\ config' = IF saved.ok THEN changed
                     ELSE [changed EXCEPT !.fullscreen = shown.fullscreen]
        /\ file' = saved.file /\ lost' = LostByAll(saved)
        /\ shown' = IF saved.ok THEN [shown EXCEPT !.fullscreen = ~@] ELSE shown
    BY <1>4 DEF ToggleFullscreen
  <2> HIDE DEF changed
  <2>3. /\ DOMAIN saved.file = FileFields
        /\ saved.end \in {"unopened", "whole", "cut"}
        /\ saved.end = "whole" => saved.ok /\ Alike(saved.file, changed)
        /\ saved.end = "unopened" => saved.file = file /\ ~saved.ok
    BY <1>2, Saving DEF Fields
  <2> HIDE DEF saved
  <2>4. /\ DOMAIN config' = FileFields \cup {"controller"} /\ DOMAIN shown' = DOMAIN shown
        /\ config'.backend = shown'.backend /\ config'.fullscreen = shown'.fullscreen
    BY <1>2, <2>1, <2>2 DEF Fields, FileFields, InMemory
  <2>5. ~lost' => InFile(file)'
    <3>1. CASE saved.end = "whole"
      BY <1>2, <2>1, <2>2, <2>3, <3>1 DEF InFile, Alike, InMemory, Fields
    <3>2. CASE saved.end = "unopened"
      BY <1>2, <2>2, <2>3, <3>2 DEF InFile, LostByAll
    <3>3. CASE saved.end = "cut"
      BY <2>2, <3>3 DEF LostByAll
    <3>4. QED
      BY <2>3, <3>1, <3>2, <3>3
  <2>6. QED
    BY <1>1, <2>2, <2>3, <2>4, <2>5, WidgetKeeps
<1>5. ASSUME ChangeResolution(resolution, kept)
      PROVE  SettingsInv'
  <2> DEFINE saved == SaveConfig(file, Changed(file, resolution, shown.fps, pads.selected), kept)
  <2>1. /\ file' = saved.file /\ lost' = LostByFile(saved)
        /\ shown' = IF saved.ok THEN [shown EXCEPT !.resolution = resolution] ELSE shown
        /\ config' = IF saved.ok THEN [config EXCEPT !.resolution = resolution] ELSE config
    BY <1>5 DEF ChangeResolution
  <2>2. /\ DOMAIN saved.file = FileFields
        /\ ~LostByFile(saved) => ~lost
        /\ ~LostByFile(saved) /\ ~saved.ok => saved.file = file
        /\ ~LostByFile(saved) /\ saved.ok =>
             /\ saved.file.backend = file.backend /\ saved.file.fullscreen = file.fullscreen
             /\ saved.file.fps = shown.fps /\ saved.file.resolution = resolution
    BY <1>2, SavingByFile DEF Fields
  <2> HIDE DEF saved
  <2>3. /\ DOMAIN config' = FileFields \cup {"controller"} /\ DOMAIN shown' = DOMAIN shown
        /\ config'.backend = shown'.backend /\ config'.fullscreen = shown'.fullscreen
    BY <1>2, <2>1 DEF Fields, FileFields, InMemory
  <2>4. ~lost' => InFile(file)'
    BY <1>2, <2>1, <2>2 DEF InFile, Fields
  <2>5. QED
    BY <1>1, <2>1, <2>2, <2>3, <2>4, WidgetKeeps
<1>6. ASSUME ToggleFps(kept)
      PROVE  SettingsInv'
  <2> DEFINE saved == SaveConfig(file, Changed(file, shown.resolution, ~shown.fps,
                                               pads.selected), kept)
  <2>1. /\ file' = saved.file /\ lost' = LostByFile(saved)
        /\ shown' = IF saved.ok THEN [shown EXCEPT !.fps = ~@] ELSE shown
        /\ config' = IF saved.ok THEN [config EXCEPT !.fps = ~shown.fps] ELSE config
    BY <1>6 DEF ToggleFps
  <2>2. /\ DOMAIN saved.file = FileFields
        /\ ~LostByFile(saved) => ~lost
        /\ ~LostByFile(saved) /\ ~saved.ok => saved.file = file
        /\ ~LostByFile(saved) /\ saved.ok =>
             /\ saved.file.backend = file.backend /\ saved.file.fullscreen = file.fullscreen
             /\ saved.file.fps = ~shown.fps /\ saved.file.resolution = shown.resolution
    BY <1>2, SavingByFile DEF Fields
  <2> HIDE DEF saved
  <2>3. /\ DOMAIN config' = FileFields \cup {"controller"} /\ DOMAIN shown' = DOMAIN shown
        /\ config'.backend = shown'.backend /\ config'.fullscreen = shown'.fullscreen
    BY <1>2, <2>1 DEF Fields, FileFields, InMemory
  <2>4. ~lost' => InFile(file)'
    BY <1>2, <2>1, <2>2 DEF InFile, Fields
  <2>5. QED
    BY <1>1, <2>1, <2>2, <2>3, <2>4, WidgetKeeps
<1>7. ASSUME EditNetplay(fields)
      PROVE  SettingsInv'
  BY <1>7 DEF EditNetplay, Edit, SettingsInv, Fields, ShownIsSaved, PadsAreMapped
<1>8. QED
  BY <1>3, <1>4, <1>5, <1>6, <1>7

(* A game is started, played, and its lobby changed.                        *)
LEMMA PlayingKeeps ==
  ASSUME SettingsInv, NEW write, NEW first, NEW kept,
         Play(write, first) \/ StartNetplay(write, first, kept)
  PROVE  SettingsInv'
<1> DEFINE ensured == EnsureController(Now, write, first)
<1>1. mode = "launcher" /\ UNCHANGED <<shown, lobby>>
  BY DEF Play, StartNetplay
<1>2. Sound(ensured) /\ DOMAIN ensured = StateFields
  BY <1>1, EnsuringIsSound
<1>3. ASSUME Play(write, first)
      PROVE  SettingsInv'
  BY <1>1, <1>2, <1>3, BecomesKeeps DEF Play
<1>4. ASSUME StartNetplay(write, first, kept)
      PROVE  SettingsInv'
  <2> DEFINE controllers == ensured.pads.configured
             wanted == [ensured.config EXCEPT
                         !.netplay = text, !.controllers = controllers,
                         !.controller = Front(controllers),
                         !.resolution = shown.resolution, !.fps = shown.fps]
             saved == SaveConfig(ensured.file, wanted, kept)
             gone == IF saved.end = "unopened" THEN ensured.lost ELSE saved.end = "cut"
             made == [ensured EXCEPT !.config = wanted, !.file = saved.file, !.lost = gone]
  <2>1. IF ensured.ok THEN Becomes(made) /\ mode' = IF saved.ok THEN "netplay" ELSE mode
        ELSE Becomes(ensured) /\ UNCHANGED mode
    BY <1>4, <1>2 DEF StartNetplay, StateFields
  <2> HIDE DEF ensured
  <2>2. /\ DOMAIN wanted = FileFields \cup {"controller"}
        /\ wanted.fps = shown.fps /\ wanted.resolution = shown.resolution
        /\ wanted.backend = shown.backend /\ wanted.fullscreen = shown.fullscreen
        /\ wanted.controllers = ensured.pads.configured
    BY <1>2 DEF Sound, FileFields, InMemory
  <2> HIDE DEF wanted
  <2>3. /\ DOMAIN saved.file = FileFields
        /\ saved.end \in {"unopened", "whole", "cut"}
        /\ saved.end = "whole" => saved.ok /\ Alike(saved.file, wanted)
        /\ saved.end = "unopened" => saved.file = ensured.file /\ ~saved.ok
    BY <1>2, Saving DEF Sound
  <2> HIDE DEF saved
  <2>4. CASE ~ensured.ok
    BY <1>1, <1>2, <2>1, <2>4, BecomesKeeps
  <2>5. CASE ensured.ok
    <3>1. ~gone => InFile(saved.file)
      <4>1. CASE saved.end = "whole"
        BY <2>2, <2>3, <4>1 DEF InFile, Alike
      <4>2. CASE saved.end = "unopened"
        BY <1>2, <2>3, <4>2 DEF Sound
      <4>3. CASE saved.end = "cut"
        BY <4>3
      <4>4. QED
        BY <2>3, <4>1, <4>2, <4>3
    <3> HIDE DEF gone
    <3>2. /\ made.config = wanted /\ made.profile = ensured.profile
          /\ made.pads = ensured.pads /\ made.ok = ensured.ok
          /\ made.file = saved.file /\ made.lost = gone /\ made.unmapped = ensured.unmapped
      BY <1>2 DEF StateFields
    <3>3. Becomes(made) /\ (mode' = "launcher" \/ mode' = "netplay")
      BY <1>1, <2>1, <2>5
    <3> HIDE DEF made
    <3>4. Sound(made)
      BY <1>2, <2>2, <2>3, <3>1, <3>2 DEF Sound, InMemory
    <3>5. QED
      BY <1>1, <2>2, <2>5, <3>2, <3>3, <3>4, BecomesKeeps
  <2>6. QED
    BY <2>4, <2>5
<1>5. QED
  BY <1>3, <1>4

LEMMA RunnerKeeps ==
  ASSUME SettingsInv, NEW write, NEW kept, RunnerPlays(write) \/ RunnerOpensLobby(write, kept)
  PROVE  SettingsInv'
<1>1. Fields /\ (profile.devices # <<>> => profile.exists)
  BY DEF SettingsInv
<1>2. ASSUME RunnerPlays(write)
      PROVE  SettingsInv'
  <2> DEFINE device == LoadConfig(file).controller
             made == GenerateControllerConfig(profile, <<device>>, write)
  <2>1. \/ profile' = profile
        \/ profile' = made.profile
    BY <1>2 DEF RunnerPlays, EnsureControllerConfig
  <2>2. /\ DOMAIN made.profile = {"exists", "devices"}
        /\ made.end # "unopened" => made.profile.exists
        /\ made.end = "unopened" => made.profile = profile
    BY <1>1, Generating DEF Fields
  <2> HIDE DEF made
  <2>3. DOMAIN profile' = {"exists", "devices"} /\ (profile'.devices # <<>> => profile'.exists)
    BY <1>1, <2>1, <2>2 DEF Fields
  <2>4. QED
    BY <1>1, <1>2, <2>3 DEF RunnerPlays, SettingsInv, Fields, ShownIsSaved, PadsAreMapped
<1>3. ASSUME RunnerOpensLobby(write, kept)
      PROVE  SettingsInv'
  <2> DEFINE wanted == [LoadConfig(file) EXCEPT !.controllers = config.controllers,
                                                !.controller = Front(config.controllers),
                                                !.netplay = config.netplay]
             saved == SaveConfig(file, wanted, kept)
  <2>1. /\ mode = "netplay" /\ profile.exists
        /\ ~unmapped => config.controllers = profile.devices
    BY <1>3 DEF RunnerOpensLobby, SettingsInv, PadsAreMapped
  <2>2. EnsureControllerConfig(profile, config.controllers, write) =
          [profile |-> profile, ok |-> TRUE, end |-> "unopened"]
    BY <2>1 DEF EnsureControllerConfig
  <2>3. /\ UNCHANGED <<profile, pads, shown, unmapped>>
        /\ \/ /\ config' = wanted /\ file' = saved.file
              /\ mode' \in {"lobby", "ended"}
              /\ lobby' = [controllers |-> config.controllers, count |-> Len(config.controllers)]
           \/ mode' = "ended" /\ UNCHANGED <<config, file, lobby>>
    BY <1>3, <2>2 DEF RunnerOpensLobby
  <2>4. DOMAIN wanted = FileFields \cup {"controller"}
    BY DEF LoadConfig, FileFields
  <2> HIDE DEF wanted
  <2>5. DOMAIN saved.file = FileFields
    BY <1>1, Saving DEF Fields
  <2> HIDE DEF saved
  <2>6. QED
    BY <1>1, <2>1, <2>3, <2>4, <2>5 DEF SettingsInv, Fields, ShownIsSaved, PadsAreMapped
<1>4. QED
  BY <1>2, <1>3

LEMMA LobbyKeeps ==
  ASSUME SettingsInv, NEW device, NEW write, NEW assigned, NEW kept,
         \/ ToggleController(device, write, kept)
         \/ TrimControllers(assigned, kept)
         \/ LeaveLobby
  PROVE  SettingsInv'
<1>1. Fields /\ (profile.devices # <<>> => profile.exists) /\ PadsAreMapped
  BY DEF SettingsInv
<1>2. \A controllers : DOMAIN WithControllers(controllers) = FileFields \cup {"controller"}
  BY <1>1 DEF WithControllers, Fields, FileFields
<1>3. ASSUME NEW c PROVE DOMAIN SaveConfig(file, c, kept).file = FileFields
  BY <1>1, Saving DEF Fields
<1>4. ASSUME ToggleController(device, write, kept)
      PROVE  SettingsInv'
  <2>1. PICK controllers :
          LET made == GenerateControllerConfig(profile, controllers, write)
              saved == SaveConfig(file, WithControllers(controllers), kept)
              both == made.ok /\ saved.ok
          IN /\ config' = WithControllers(controllers)
             /\ profile' = made.profile
             /\ file' = IF made.ok THEN saved.file ELSE file
             /\ unmapped' = IF made.end = "unopened" THEN unmapped
                            ELSE ~(made.end = "whole" /\ both)
             /\ lobby' = [controllers |-> controllers,
                          count |-> CountWhenSaved(both, controllers)]
    BY <1>4 DEF ToggleController
  <2> DEFINE made == GenerateControllerConfig(profile, controllers, write)
             saved == SaveConfig(file, WithControllers(controllers), kept)
             both == made.ok /\ saved.ok
  <2>2. mode = "lobby" /\ mode' = mode /\ pads' = pads /\ shown' = shown
    BY <1>4 DEF ToggleController, Edit
  <2>3. /\ DOMAIN made.profile = {"exists", "devices"}
        /\ made.end \in {"unopened", "whole", "cut"}
        /\ made.end = "whole" => made.profile = Profile(controllers)
        /\ made.end # "unopened" => made.profile.exists
        /\ made.end = "unopened" => made.profile = profile /\ ~made.ok
    BY <1>1, Generating DEF Fields
  <2>4. /\ config' = WithControllers(controllers) /\ profile' = made.profile
        /\ DOMAIN file' = FileFields
        /\ unmapped' = IF made.end = "unopened" THEN unmapped
                       ELSE ~(made.end = "whole" /\ both)
        /\ lobby' = [controllers |-> controllers, count |-> CountWhenSaved(both, controllers)]
    BY <1>1, <1>3, <2>1 DEF Fields
  <2> HIDE DEF made, saved
  <2>5. ASSUME ~unmapped'
        PROVE  lobby'.count = Len(profile'.devices)
    <3>1. CASE made.end = "unopened"
      BY <1>1, <2>2, <2>3, <2>4, <2>5, <3>1 DEF CountWhenSaved, PadsAreMapped
    <3>2. CASE made.end # "unopened"
      <4> HIDE DEF both
      <4>1. made.end = "whole" /\ both
        BY <2>4, <2>5, <3>2
      <4>2. CountWhenSaved(both, controllers) = Len(controllers)
        BY <4>1 DEF CountWhenSaved
      <4>3. lobby'.count = Len(controllers)
        BY <2>4, <4>2
      <4>4. profile'.devices = controllers
        BY <2>3, <2>4, <4>1 DEF Profile
      <4>5. QED
        BY <4>3, <4>4
    <3>3. QED
      BY <3>1, <3>2
  <2>6. Fields' /\ ShownIsSaved' /\ (profile.devices # <<>> => profile.exists)'
    BY <1>1, <1>2, <2>2, <2>3, <2>4 DEF Fields, ShownIsSaved
  <2>7. QED
    BY <2>2, <2>5, <2>6 DEF PadsAreMapped, SettingsInv
<1>5. ASSUME TrimControllers(assigned, kept)
      PROVE  SettingsInv'
  <2>1. /\ mode = "lobby" /\ mode' = mode /\ UNCHANGED <<profile, pads, shown, lost, unmapped>>
        /\ config' = WithControllers(SubSeq(lobby.controllers, 1, assigned))
        /\ file' = SaveConfig(file, config', kept).file
        /\ lobby' = [lobby EXCEPT !.controllers = SubSeq(lobby.controllers, 1, assigned)]
    BY <1>5 DEF TrimControllers
  <2>2. /\ DOMAIN file' = FileFields /\ DOMAIN config' = FileFields \cup {"controller"}
        /\ DOMAIN lobby' = DOMAIN lobby /\ lobby'.count = lobby.count
    BY <1>1, <1>2, <1>3, <2>1 DEF Fields
  <2>3. QED
    BY <1>1, <2>1, <2>2 DEF SettingsInv, Fields, ShownIsSaved, PadsAreMapped
<1>6. ASSUME LeaveLobby
      PROVE  SettingsInv'
  BY <1>6 DEF LeaveLobby, SettingsInv, Fields, ShownIsSaved, PadsAreMapped
<1>7. QED
  BY <1>4, <1>5, <1>6

LEMMA SettingsStutters == ASSUME SettingsInv, UNCHANGED settingsVars PROVE SettingsInv'
BY DEF SettingsInv, settingsVars, Fields, ShownIsSaved, PadsAreMapped

LEMMA SettingsKeeps ==
  ASSUME SettingsInv, SettingsNext
  PROVE  SettingsInv'
<1>1. ASSUME NEW write, NEW kept,
             \/ \E devices \in SUBSET Devices : RefreshControllers(devices, write, kept)
             \/ ReplaceProfile(write, kept)
             \/ \E device \in Devices : PickController(device)
      PROVE  SettingsInv'
  BY <1>1, GamepadsKeep
<1>2. ASSUME NEW write, NEW first, NEW kept,
             Play(write, kept) \/ StartNetplay(write, first, kept)
      PROVE  SettingsInv'
  BY <1>2, PlayingKeeps
<1>3. ASSUME NEW write, NEW kept, RunnerPlays(write) \/ RunnerOpensLobby(write, kept)
      PROVE  SettingsInv'
  BY <1>3, RunnerKeeps
<1>4. ASSUME NEW kept,
             \/ \E backend \in Backends : ChangeBackend(backend, kept)
             \/ \E i \in DOMAIN Listed : ChangeResolution(Listed[i], kept)
             \/ ToggleFullscreen(kept)
             \/ ToggleFps(kept)
             \/ \E fields \in Netplay : EditNetplay(fields)
      PROVE  SettingsInv'
  BY <1>4, WidgetsKeep
<1>5. ASSUME NEW device, NEW write, NEW assigned, NEW kept,
             \/ ToggleController(device, write, kept)
             \/ TrimControllers(assigned, kept)
             \/ LeaveLobby
      PROVE  SettingsInv'
  BY <1>5, LobbyKeeps
<1>6. QED
  BY <1>1, <1>2, <1>3, <1>4, <1>5 DEF SettingsNext

LEMMA SettingsInvariance == SettingsSpec => []SettingsInv
<1>1. SettingsInv /\ [SettingsNext]_settingsVars => SettingsInv'
  BY SettingsKeeps, SettingsStutters
<1>2. QED
  BY <1>1, SettingsStarts, PTL DEF SettingsSpec

-----------------------------------------------------------------------------
(* What the launcher shows is what it has in memory, and what the runner    *)
(* will read, whichever widget was used last, whichever save was refused    *)
(* and however often; but for a file that a save has cut, or started over,  *)
(* until all that is in memory is saved.                                    *)
THEOREM SettingsAreShownAsSaved == SettingsSpec => []ShownIsSaved
BY SettingsInvariance, PTL DEF SettingsInv

(* A game starts with a profile that names a device, netplay with its       *)
(* devices in its order, and the client is told of as many controllers as   *)
(* the profile maps, through any ticking, clearing and cutting in the lobby *)
(* and whatever earlier write of the profile was cut off; but for one whose *)
(* own write was, or was not followed by config.ini.                        *)
THEOREM GamesStartWithPads == SettingsSpec => []PadsAreMapped
BY SettingsInvariance, PTL DEF SettingsInv

-----------------------------------------------------------------------------
(* The three programs as one specification: what is followed keeps its      *)
(* invariant, and what rests keeps it by resting.                           *)
LEMMA FrontendInvariance == Spec => [](SettingsInv /\ InstallInv /\ CacheInv)
<1> DEFINE FrontendInv == SettingsInv /\ InstallInv /\ CacheInv
<1>1. Init => FrontendInv
  BY SettingsStarts, InstallStarts, CacheStarts DEF Init, SettingsRest, InstallRest, CacheRest
<1>2. FrontendInv /\ [SettingsNext]_settingsVars => SettingsInv'
  BY SettingsKeeps, SettingsStutters
<1>3. FrontendInv /\ [InstallNext]_installVars => InstallInv'
  BY InstallKeeps, InstallStutters
<1>4. FrontendInv /\ [CacheNext]_cacheVars => CacheInv'
  BY CacheKeeps, CacheStutters
<1>5. [Next]_frontendVars =>
        [SettingsNext]_settingsVars /\ [InstallNext]_installVars /\ [CacheNext]_cacheVars
  BY DEF Next, frontendVars
<1>6. FrontendInv /\ [Next]_frontendVars => FrontendInv'
  BY <1>2, <1>3, <1>4, <1>5
<1>7. QED
  BY <1>1, <1>6, PTL DEF Spec

(* The same of the specification the runs check: whichever program is       *)
(* followed, its settings are saved as shown, its pads mapped, its game     *)
(* valid, and its modules found by the right key.                           *)
THEOREM FrontendIsSound ==
  Spec => [](ShownIsSaved /\ PadsAreMapped /\ WhatIsPlayedIsValid /\ CacheIsKeyed)
<1>1. InstallInv => WhatIsPlayedIsValid
  BY DEF InstallInv, ThreadKnows, WindowKnows, WhatIsPlayedIsValid
<1>2. SettingsInv => ShownIsSaved /\ PadsAreMapped
  BY DEF SettingsInv
<1>3. QED
  BY <1>1, <1>2, CacheKeyed, FrontendInvariance, PTL
=============================================================================
