-------------------------- MODULE LauncherSettings --------------------------
(* The settings of moderngekko_launcher: what its widgets show, the         *)
(* configuration it keeps in memory, the two files it writes, and the       *)
(* controllers that come and go; then the runner it starts, which reads the *)
(* files again, and the lobby, which writes them.  One thread at a time; an *)
(* action is what one widget, or one event, does in a frame.                *)
EXTENDS FrontendConfig, FiniteSets

CONSTANTS
  Devices,       \* SDL gamepads
  MaxEdits       \* bound: what happens before and after a game is started

ASSUME SettingsAssumption ==
  /\ NoDevice \notin Devices
  /\ Unwritable \subseteq Devices /\ Unwritable # Devices
  /\ Cuts \subseteq 0..5 /\ DeviceCuts \subseteq 0..3
  /\ MaxEdits \in Nat

VARIABLES
  file,          \* config.ini
  profile,       \* WiimoteNew.ini or GCPadNew.ini
  config,        \* ConfigResult in memory
  pads,          \* [selected, exists, configured]: selected_controller and so on
  shown,         \* the widgets: [resolution, fps, backend, fullscreen]
  text,          \* the fields of netplay
  connected,     \* SDL gamepads
  mode,          \* "launcher", "solo", "netplay": launched, "lobby", "ended"
  lobby,         \* [controllers, count]: NetplayOptions, and the client's count
  lost,          \* a save cut config.ini, or started from one that was not readable
  unmapped,      \* the last write of the profile was cut, or not followed by config.ini
  edits

settingsVars == <<file, profile, config, pads, shown, text, connected, mode, lobby,
                  lost, unmapped, edits>>

\* resolution_index is 0 for what has no label.
ShownResolution(resolution) == IF resolution = Multiple THEN Listed[1] ELSE resolution

First(devices) == CHOOSE d \in devices : TRUE

SettingsInit ==
  /\ file \in [resolution: {"1920x1080", Multiple}, fps: {TRUE}, backend: {"Vulkan"},
               fullscreen: {FALSE}, netplay: {"default"},
               controllers: {<<>>, <<First(Devices \ Unwritable)>>}]
  /\ profile \in {NoProfile, Profile(<<>>)}
                   \union {Profile(<<d>>) : d \in Devices \ Unwritable}
  /\ config = LoadConfig(file)
  /\ pads = [configured |-> profile.devices, exists |-> profile.exists,
             selected |-> IF profile.devices = <<>> THEN config.controller
                          ELSE Head(profile.devices)]
  /\ shown = [resolution |-> ShownResolution(file.resolution), fps |-> file.fps,
              backend |-> file.backend, fullscreen |-> file.fullscreen]
  /\ text = file.netplay
  /\ connected = {}
  /\ mode = "launcher"
  /\ lobby = [controllers |-> <<>>, count |-> 0]
  /\ lost = FALSE
  /\ unmapped = FALSE
  /\ edits = 0

Edit(where) == mode = where /\ edits < MaxEdits /\ edits' = edits + 1

\* A save of all that is in memory makes good what others have lost; one by
\* way of the file carries on what it finds there.
LostByAll(saved) == IF saved.end = "unopened" THEN lost ELSE saved.end = "cut"

LostByFile(saved) ==
  \/ lost
  \/ saved.end = "cut"
  \/ saved.end = "whole" /\ ~Readable(file)

-----------------------------------------------------------------------------
(* The controllers.  select_controller and ensure_controller as functions   *)
(* of what they may change, with their result.                              *)

Now == [file |-> file, profile |-> profile, config |-> config, pads |-> pads,
        lost |-> lost, unmapped |-> unmapped, ok |-> FALSE]

Becomes(s) ==
  /\ file' = s.file
  /\ profile' = s.profile
  /\ config' = s.config
  /\ pads' = s.pads
  /\ lost' = s.lost
  /\ unmapped' = s.unmapped

\* The profile is written first, then config.ini; memory follows when both were.
SelectController(s, device, write, kept) ==
  LET made == GenerateControllerConfig(s.profile, <<device>>, write)
      saved == SaveConfig(s.file, Changed(s.file, shown.resolution, shown.fps, device), kept)
      wrote == [s EXCEPT !.profile = made.profile]
      tried == [wrote EXCEPT !.file = saved.file, !.lost = LostByFile(saved)]
  IN IF ~made.ok THEN wrote
     ELSE IF ~saved.ok THEN tried
     ELSE [tried EXCEPT
            !.config = [@ EXCEPT !.controller = device, !.controllers = <<device>>,
                                 !.resolution = shown.resolution, !.fps = shown.fps],
            !.pads = [selected |-> device, configured |-> <<device>>, exists |-> TRUE],
            !.unmapped = (made.end # "whole"),
            !.ok = TRUE]

\* With a profile it is read again; without one it is made, if the device is there.
EnsureController(s, write, kept) ==
  IF s.profile.exists
  THEN IF s.profile.devices = <<>>
       THEN [s EXCEPT !.pads.exists = TRUE, !.pads.configured = <<>>]
       ELSE [s EXCEPT !.pads = [selected |-> Head(s.profile.devices),
                                configured |-> s.profile.devices,
                                exists |-> TRUE],
                      !.unmapped = FALSE,
                      !.ok = TRUE]
  ELSE IF s.pads.selected \notin connected THEN s
  ELSE SelectController(s, s.pads.selected, write, kept)

\* A gamepad was added or removed: while no profile is known one is made at once.
RefreshControllers(devices, write, kept) ==
  /\ Edit("launcher")
  /\ connected' = devices
  /\ LET selected == IF pads.selected \notin devices /\ devices # {} /\ ~pads.exists
                     THEN First(devices) ELSE pads.selected
         looked == [Now EXCEPT !.pads.selected = selected]
     IN Becomes(IF pads.exists \/ devices = {} THEN looked
                ELSE SelectController(looked, selected, write, kept))
  /\ UNCHANGED <<shown, text, mode, lobby>>

PickController(device) ==
  /\ Edit("launcher")
  /\ device \in connected
  /\ pads' = [pads EXCEPT !.selected = device]
  /\ UNCHANGED <<file, profile, config, shown, text, connected, mode, lobby, lost, unmapped>>

\* The button that replaces the profile.
ReplaceProfile(write, kept) ==
  /\ Edit("launcher")
  /\ pads.selected \in connected
  /\ Becomes(SelectController(Now, pads.selected, write, kept))
  /\ UNCHANGED <<shown, text, connected, mode, lobby>>

-----------------------------------------------------------------------------
(* The widgets *)

\* What the widgets that save the whole configuration put into it first.
FromWidgets == [config EXCEPT !.resolution = shown.resolution, !.fps = shown.fps,
                              !.controller = pads.selected]

\* A bug: what could not be saved stays in memory, and is saved by the next widget.
ChangeBackendForgetting(backend, kept) ==
  LET changed == [FromWidgets EXCEPT !.backend = backend]
      saved == SaveConfig(file, changed, kept)
  IN /\ Edit("launcher")
     /\ config' = changed
     /\ file' = saved.file
     /\ lost' = LostByAll(saved)
     /\ shown' = IF saved.ok THEN [shown EXCEPT !.backend = backend] ELSE shown
     /\ UNCHANGED <<profile, pads, text, connected, mode, lobby, unmapped>>

ChangeBackend(backend, kept) ==
  LET changed == [FromWidgets EXCEPT !.backend = backend]
      saved == SaveConfig(file, changed, kept)
  IN /\ Edit("launcher")
     /\ config' = IF saved.ok THEN changed ELSE [changed EXCEPT !.backend = config.backend]
     /\ file' = saved.file
     /\ lost' = LostByAll(saved)
     /\ shown' = IF saved.ok THEN [shown EXCEPT !.backend = backend] ELSE shown
     /\ UNCHANGED <<profile, pads, text, connected, mode, lobby, unmapped>>

ToggleFullscreen(kept) ==
  LET changed == [FromWidgets EXCEPT !.fullscreen = ~shown.fullscreen]
      saved == SaveConfig(file, changed, kept)
  IN /\ Edit("launcher")
     /\ config' = IF saved.ok THEN changed ELSE [changed EXCEPT !.fullscreen = shown.fullscreen]
     /\ file' = saved.file
     /\ lost' = LostByAll(saved)
     /\ shown' = IF saved.ok THEN [shown EXCEPT !.fullscreen = ~@] ELSE shown
     /\ UNCHANGED <<profile, pads, text, connected, mode, lobby, unmapped>>

\* The other two save by way of the file.
ChangeResolution(resolution, kept) ==
  LET saved == SaveConfig(file, Changed(file, resolution, shown.fps, pads.selected), kept)
  IN /\ Edit("launcher")
     /\ file' = saved.file
     /\ lost' = LostByFile(saved)
     /\ shown' = IF saved.ok THEN [shown EXCEPT !.resolution = resolution] ELSE shown
     /\ config' = IF saved.ok THEN [config EXCEPT !.resolution = resolution] ELSE config
     /\ UNCHANGED <<profile, pads, text, connected, mode, lobby, unmapped>>

ToggleFps(kept) ==
  LET saved == SaveConfig(file, Changed(file, shown.resolution, ~shown.fps, pads.selected), kept)
  IN /\ Edit("launcher")
     /\ file' = saved.file
     /\ lost' = LostByFile(saved)
     /\ shown' = IF saved.ok THEN [shown EXCEPT !.fps = ~@] ELSE shown
     /\ config' = IF saved.ok THEN [config EXCEPT !.fps = ~shown.fps] ELSE config
     /\ UNCHANGED <<profile, pads, text, connected, mode, lobby, unmapped>>

EditNetplay(fields) ==
  /\ Edit("launcher")
  /\ text' = fields
  /\ UNCHANGED <<file, profile, config, pads, shown, connected, mode, lobby, lost, unmapped>>

-----------------------------------------------------------------------------
(* Playing *)

Play(write, kept) ==
  /\ mode = "launcher"
  /\ LET ensured == EnsureController(Now, write, kept) IN
       /\ Becomes(ensured)
       /\ mode' = IF ensured.ok THEN "solo" ELSE mode
  /\ UNCHANGED <<shown, text, connected, lobby, edits>>

\* Host and Join: the fields go into the configuration, and stay when it is
\* refused.  It is saved after what ensure_controller may have saved.
StartNetplay(write, first, kept) ==
  /\ mode = "launcher"
  /\ LET ensured == EnsureController(Now, write, first)
         controllers == ensured.pads.configured
         wanted == [ensured.config EXCEPT
                     !.netplay = text, !.controllers = controllers,
                     !.controller = Front(controllers),
                     !.resolution = shown.resolution, !.fps = shown.fps]
         saved == SaveConfig(ensured.file, wanted, kept)
     IN IF ensured.ok
        THEN /\ Becomes([ensured EXCEPT !.config = wanted, !.file = saved.file,
                                        !.lost = IF saved.end = "unopened" THEN @
                                                 ELSE saved.end = "cut"])
             /\ mode' = IF saved.ok THEN "netplay" ELSE mode
        ELSE Becomes(ensured) /\ UNCHANGED mode
  /\ UNCHANGED <<shown, text, connected, lobby, edits>>

\* The runner reads both files, and ends when it cannot read the first; a
\* solo game makes a profile if there is none.
RunnerPlays(write) ==
  /\ mode = "solo"
  /\ mode' = "ended"
  /\ profile' = IF ~Readable(file) \/ LoadConfig(file).controller = NoDevice THEN profile
                ELSE EnsureControllerConfig(profile, <<LoadConfig(file).controller>>, write).profile
  /\ UNCHANGED <<file, config, pads, shown, text, connected, lobby, lost, unmapped, edits>>

\* The controllers and the fields of netplay come from the command line; the
\* rest is what the file says.
RunnerOpensLobby(write, kept) ==
  LET wanted == [LoadConfig(file) EXCEPT !.controllers = config.controllers,
                                         !.controller = Front(config.controllers),
                                         !.netplay = config.netplay]
      ensured == EnsureControllerConfig(profile, config.controllers, write)
      saved == SaveConfig(file, wanted, kept)
  IN /\ mode = "netplay"
     /\ \/ /\ Readable(file) /\ ensured.ok
           /\ profile' = ensured.profile
           /\ config' = wanted
           /\ file' = saved.file
           /\ mode' = IF saved.ok THEN "lobby" ELSE "ended"
           /\ lobby' = [controllers |-> config.controllers, count |-> Len(config.controllers)]
        \/ /\ Readable(file) /\ ~ensured.ok
           /\ profile' = ensured.profile
           /\ mode' = "ended"
           /\ UNCHANGED <<config, file, lobby>>
        \/ /\ ~Readable(file)
           /\ mode' = "ended"
           /\ UNCHANGED <<profile, config, file, lobby>>
     /\ UNCHANGED <<pads, shown, text, connected, lost, unmapped, edits>>

-----------------------------------------------------------------------------
(* The lobby *)

WithControllers(controllers) ==
  [config EXCEPT !.controllers = controllers, !.controller = Front(controllers)]

Without(controllers, device) == SelectSeq(controllers, LAMBDA d : d # device)

\* A bug: the client is told although the profile could not be written.
CountAnyway(saved, controllers) == Len(controllers)

\* What the client is told: nothing, unless both files were written.
CountWhenSaved(saved, controllers) == IF saved THEN Len(controllers) ELSE lobby.count

\* A box is ticked or cleared; the last one cannot be cleared.
ToggleController(device, write, kept) ==
  LET ticked == \E i \in DOMAIN lobby.controllers : lobby.controllers[i] = device
      controllers == IF ~ticked THEN Append(lobby.controllers, device)
                     ELSE IF Len(lobby.controllers) > 1
                          THEN Without(lobby.controllers, device)
                          ELSE lobby.controllers
      changed == WithControllers(controllers)
      made == GenerateControllerConfig(profile, controllers, write)
      saved == SaveConfig(file, changed, kept)
      both == made.ok /\ saved.ok
  IN /\ Edit("lobby")
     /\ device \in Devices
     /\ config' = changed
     /\ profile' = made.profile
     /\ file' = IF made.ok THEN saved.file ELSE file
     /\ unmapped' = IF made.end = "unopened" THEN unmapped ELSE ~(made.end = "whole" /\ both)
     /\ lobby' = [controllers |-> controllers, count |-> CountWhenSaved(both, controllers)]
     /\ UNCHANGED <<pads, shown, text, connected, mode, lost>>

\* The host has fewer slots than this player wants: the list is cut, not the
\* profile, and whether it could be saved is not asked.
TrimControllers(assigned, kept) ==
  /\ mode = "lobby"
  /\ assigned \in 1..(Len(lobby.controllers) - 1)
  /\ LET controllers == SubSeq(lobby.controllers, 1, assigned) IN
       /\ config' = WithControllers(controllers)
       /\ file' = SaveConfig(file, config', kept).file
       /\ lobby' = [lobby EXCEPT !.controllers = controllers]
  /\ UNCHANGED <<profile, pads, shown, text, connected, mode, lost, unmapped, edits>>

LeaveLobby ==
  /\ mode = "lobby"
  /\ mode' = "ended"
  /\ UNCHANGED <<file, profile, config, pads, shown, text, connected, lobby, lost, unmapped, edits>>

\* A profile of one device is written when it is asked for.
WritesWhen(asked) == IF asked THEN ProfileWrites(1) ELSE {NoWrite}

SettingsNext ==
  \/ \E devices \in SUBSET Devices :
       \E write \in WritesWhen(~pads.exists /\ devices # {}) : \E kept \in SavesAfter(write) :
         RefreshControllers(devices, write, kept)
  \/ \E write \in WritesWhen(~profile.exists) :
       \/ \E kept \in SavesAfter(write) : Play(write, kept)
       \/ \E first \in SavesAfter(write), kept \in Kept : StartNetplay(write, first, kept)
       \/ RunnerPlays(write)
       \/ \E kept \in Kept : RunnerOpensLobby(write, kept)
  \/ \E write \in ProfileWrites(1) : \E kept \in SavesAfter(write) :
       ReplaceProfile(write, kept)
  \/ \E write \in ProfileWrites(4) : \E kept \in SavesAfter(write) :
       \E device \in Devices : ToggleController(device, write, kept)
  \/ \E kept \in Kept :
       \/ \E backend \in Backends : ChangeBackend(backend, kept)
       \/ \E i \in DOMAIN Listed : ChangeResolution(Listed[i], kept)
       \/ ToggleFullscreen(kept)
       \/ ToggleFps(kept)
       \/ \E assigned \in 1..Cardinality(Devices) : TrimControllers(assigned, kept)
  \/ \E device \in Devices : PickController(device)
  \/ \E fields \in Netplay : EditNetplay(fields)
  \/ LeaveLobby

SettingsSpec == SettingsInit /\ [][SettingsNext]_settingsVars
-----------------------------------------------------------------------------
(* Properties *)

\* What the launcher shows is in memory, whichever save was refused, reported
\* or lost: a setting that could not be saved is not shown, nor kept to be saved
\* by another widget.  And it is in the file, where the runner will read it,
\* whichever of the two ways of saving was used last, unless a save cut the file
\* or started over from one that could not be read; until a save of all that is
\* in memory reaches the disc.  Only a resolution without a label is not shown
\* as it is.
ShownIsSaved ==
  mode = "launcher" =>
    /\ config.backend = shown.backend /\ config.fullscreen = shown.fullscreen
    /\ ~lost => /\ file.backend = shown.backend
                /\ file.fullscreen = shown.fullscreen
                /\ file.fps = shown.fps
                /\ file.resolution # Multiple => file.resolution = shown.resolution

\* A game starts with a profile on disk that names a device, netplay with the
\* devices of the profile, in its order, whatever became of earlier writes, unless
\* the profile was made for this start and cut off in silence; and the lobby tells
\* the client of just as many controllers as the profile maps, unless the profile
\* was cut off or config.ini not written after it.
PadsAreMapped ==
  ~unmapped =>
    /\ mode \in {"solo", "netplay"} => profile.devices # <<>>
    /\ mode = "netplay" => config.controllers = profile.devices
    /\ mode = "lobby" => lobby.count = Len(profile.devices)
=============================================================================
