--------------------------- MODULE FrontendConfig ---------------------------
(* config.ini and the controller profile, as the launcher, the runner and   *)
(* the lobby read and write them.  Operators only.  config.ini is what      *)
(* LoadConfig finds in its lines, where a missing line leaves a default; a  *)
(* profile is [exists, devices]; a device is a member of a small set.       *)
(*   Both files are truncated first and then written, and the end of what   *)
(* is written reaches the disc when the file is closed, which nobody looks  *)
(* at: a write may be refused, cut off and reported, or cut off in silence. *)
EXTENDS Sequences, Naturals

CONSTANTS
  Unwritable,    \* devices whose name has a line break
  Cuts,          \* lines of config.ini after which a write may be cut off
  DeviceCuts     \* devices of a profile after which a write may be cut off

NoDevice == "no device"

\* SupportedResolutions: two that have a label, and an exact multiple that has no label.
Listed == <<"640x528", "1920x1080">>
Multiple == "1280x1056"

\* Values of SupportedGraphicsBackends.
Backends == {"Vulkan", "OGL"}

\* Nickname, address, port and buffer: the defaults, others that are valid, a
\* nickname of blanks, which is saved and then refused, and what is not saved
\* (an empty name, a character no host name has).
Netplay == {"default", "valid", "blank", "invalid"}

Front(controllers) == IF controllers = <<>> THEN NoDevice ELSE Head(controllers)

-----------------------------------------------------------------------------
(* config.ini *)

\* Of the controllers the first four are written, up to one whose name has a line break.
Broken(controllers) == \E i \in DOMAIN controllers : i <= 4 /\ controllers[i] \in Unwritable

BeforeBreak(controllers) ==
  SubSeq(controllers, 1,
         CHOOSE n \in 0..Len(controllers) :
           /\ n <= 4 /\ \A i \in 1..n : controllers[i] \notin Unwritable
           /\ n = 4 \/ n = Len(controllers) \/ controllers[n + 1] \in Unwritable)

\* The lines of config.ini: no `controller` line is ever written.
Lines(config) ==
  [resolution |-> config.resolution, backend |-> config.backend,
   fullscreen |-> config.fullscreen, fps |-> config.fps,
   controllers |-> BeforeBreak(config.controllers),
   netplay |-> IF Broken(config.controllers) THEN "default" ELSE config.netplay]

\* Their order, and what ConfigResult has without them.
Place == [resolution |-> 1, backend |-> 2, fullscreen |-> 3, fps |-> 4, controllers |-> 5,
          netplay |-> 6]
Default == [resolution |-> "", backend |-> "Vulkan", fullscreen |-> FALSE, fps |-> TRUE,
            controllers |-> <<>>, netplay |-> "default"]
AllLines == 6
Unopened == 7

\* How a save may end: so many lines, or the file not opened.
Kept == Cuts \cup {AllLines, Unopened}

\* The first of the lines.  A cut in the middle of a value makes the file
\* unreadable, like one before the resolution.
FirstLines(lines, kept) ==
  [field \in DOMAIN lines |-> IF Place[field] <= kept THEN lines[field] ELSE Default[field]]

\* What LoadConfig makes of a file that it accepts: it asks for a resolution,
\* and for a nickname after taking its blanks away.
Readable(file) == file.resolution # "" /\ file.netplay # "blank"

LoadConfig(file) ==
  [resolution |-> file.resolution, fps |-> file.fps, backend |-> file.backend,
   fullscreen |-> file.fullscreen, netplay |-> file.netplay,
   controllers |-> file.controllers, controller |-> Front(file.controllers)]

\* Refused before the file is opened.
Refused(config) == config.resolution = "" \/ config.netplay = "invalid"

\* What becomes of the file, the result, and whether the file was opened and
\* has all its lines.  The line break is found when four lines are written.
SaveConfig(file, config, kept) ==
  LET opened == ~Refused(config) /\ kept # Unopened
      broken == Broken(config.controllers)
  IN [file |-> IF opened THEN FirstLines(Lines(config), kept) ELSE file,
      ok |-> opened /\ ~broken,
      end |-> IF ~opened THEN "unopened"
              ELSE IF kept = AllLines /\ ~broken THEN "whole" ELSE "cut"]

\* The overload with five parameters reads the file, or falls back to the
\* defaults; one controller, or none, takes the place of all.
Changed(file, resolution, fps, controller) ==
  [LoadConfig(IF Readable(file) THEN file ELSE Default) EXCEPT
          !.resolution = resolution, !.fps = fps, !.controller = controller,
          !.controllers = IF controller = NoDevice THEN <<>> ELSE <<controller>>]

-----------------------------------------------------------------------------
(* The controller profile *)

NoProfile == [exists |-> FALSE, devices |-> <<>>]

Profile(controllers) == [exists |-> TRUE, devices |-> controllers]

\* A write of so many devices is refused by the disc, or keeps some of them or all, and
\* is reported or not.
NoWrite == [opened |-> FALSE, kept |-> 0, ok |-> FALSE]
ProfileWrites(count) ==
  {NoWrite} \cup [opened: {TRUE}, kept: {n \in DeviceCuts : n < count} \cup {4}, ok: BOOLEAN]

\* config.ini is not saved after a write that was reported.
SavesAfter(write) == IF write.ok THEN Kept ELSE {Unopened}

\* One to four devices, without line breaks.
GenerateControllerConfig(profile, controllers, write) ==
  IF ~write.opened \/ Len(controllers) \notin 1..4 \/ Broken(controllers)
  THEN [profile |-> profile, ok |-> FALSE, end |-> "unopened"]
  ELSE IF write.kept < Len(controllers)
  THEN [profile |-> Profile(SubSeq(controllers, 1, write.kept)), ok |-> write.ok, end |-> "cut"]
  ELSE [profile |-> Profile(controllers), ok |-> write.ok, end |-> "whole"]

\* A profile that is there is never written over.
EnsureControllerConfig(profile, controllers, write) ==
  IF profile.exists THEN [profile |-> profile, ok |-> TRUE, end |-> "unopened"]
  ELSE GenerateControllerConfig(profile, controllers, write)
=============================================================================
