# A verification development for ModernGekko

ModernGekko runs recompiled GameCube programs: compiled blocks of guest code call
into a host that keeps the guest's time, its devices, its graphics stream and its
mods, that measures itself while it does so, and that a launcher, a runner and a
netplay lobby start and stop. This directory holds TLA+ models of that host, the TLC
configurations that check them on small instances, and theorems about them that
TLAPS checks for every value of the constants.

Every definition is translated from the code of the repository, and names what it
translates where TLA+ allows it. `PROJECT.json` maps each definition to its lines,
each property to a mutant of the code that breaks it, and lists the hazards the
properties are for. Paths below are relative to the repository.

To check a model: `tlc -config scheduler.cfg MCEventScheduler.tla`.
To check a proof: `tlapm EventSchedulerProofs.tla`.

## 1. The system and its parts

```
   launcher ── config.ini, profile, default-game.txt ──> moderngekko_run ── netplay session
      │                                                        │                  │
      └── extracts a disc, patches its DOL                     └── Runtime: Create, Run, destroy
   moderngekko-port ── cache of recompiled modules                    │
                                                                      ▼
   guest block ── registers ──> MmioBus ──> PI, DI, AudioSystem ──┐  mods, module tables
        │                                         ▲               │ schedule, cancel
        │ cycles                          callbacks               ▼
        └──> LegacyRuntime::Run ── Advance ──> EventScheduler ────┘
        ├──> Dispatch ──> ModManager (hooks, patches, events)
        └──> FIFO ──> GxCommandProcessor ──> GxStateBackend ──> GxVertexLoader ──> device

   present thread ─┐
   console thread ─┼──> Diagnostics (counters, capture, history, sampler) ── analyzer ──> .mgdiag
   sampler thread ─┤
   host thread ────┘
```

| Part | State | Operations | Interaction | What makes it correct |
|---|---|---|---|---|
| `EventScheduler` (`src/timing`) | queue, time, next identifier | ScheduleAfter, Cancel, Advance, Reset | devices hold identifiers; Advance calls back into them | every event once, in order, never early, never skipped, also with callbacks that change the queue |
| `ProcessorInterface` (`src/hardware`) | interrupt causes, mask, CPU exception bit | SetInterrupt, writes of cause and mask, Reset | called by devices and by the guest | a cause that is shown is a device's own |
| `DiscInterface` (`src/hardware`) | status, command, DMA registers, busy | register writes, start, FinishTransfer, Reset | completion event, interrupt | a start ends; no interrupt without its cause |
| `AudioSystem` (`src/audio`) | sample counter, control, DMA stream, event handles | register accesses, interrupt and block events, Reset | two events, two interrupts | the interrupt is due when the counter matches; the stream neither stalls nor leaves its buffer |
| `LegacyRuntime` (`src/runtime`) | CPU, bus, module, all of the above | Run, Reset, LoadDol, LoadModule | owns everything on one thread | devices that share one queue never take one another's events |
| `MmioBus`, `AddressSpace` | mappings; two memories | Register, Read, Write, Clear, Resolve | called on each access | exactly one handler or none; no access outside |
| GX command processor, backend, vertex loader (`src/gpu`) | undecoded bytes, two copies of the CP registers, XF, BP, display list depth | Write, DecodeOne, display lists; LoadCp/Xf/Bp, Draw | guest FIFO in, render device out | what the stream means does not depend on how it was cut; both copies agree |
| texture decoder, pipeline key, shader compiler, video host | none, or Dolphin's | pure functions and adapters | called by the render device | tables |
| `ModManager` (`src/runtime/mod_loader.cpp`) | mods, exports, import slots, patches, hooks, callbacks, pending returns | Load, LoadDirectories, Unload, TriggerEvent, Dispatch | calls into the libraries of mods; called at each guest call | all or nothing, with nothing left behind; order; return hooks for the frame that returns |
| module validation (`module.cpp`, `module_loader.cpp`) | the library that is loaded | Open, Attach, Close, validate | LegacyRuntime, tools | the tables cover the code exactly |
| `Diagnostics` (`src/diagnostics`) | capture, history, hotspots, thread accumulators, sampler thread | StartCapture, StopCapture, SaveHistory, EndFrame, AddCounter, Initialize, Shutdown | every thread of the program | a capture is written once, with its own data; nothing counted is lost |
| analyzer (`bottleneck_analyzer.cpp`) | none | Analyze | on each report | it blames no more than it has evidence for |
| reports (`report_*`, `zip_archive`) | one file | write, read, render | after a capture; the diag tool | what is written is read back, or refused |
| `Runtime` (`dolphin_runtime.cpp`) | running, platform, hooks, boot data | Create, Run, Pause, RequestStop, destructor | Dolphin's core; diagnostics; netplay; signals | every boot, failed ones too, is undone; a stop is honoured; nobody reaches a Runtime that is dying |
| netplay session (`tools/netplay_session.cpp`) | lobby, client, runtime | host, join, BootGame, StopGame | the client's thread, the host thread | a game started is booted once, and the lobby comes back |
| `moderngekko_run` | console, signal watcher | RunMain | threads that outlast or precede the Runtime | they let go of it before it goes |
| launcher and configuration | `config.ini`, a profile, an extraction thread | widgets that save, extract, play | the runner and the lobby read and write the same files | what is shown is in memory, and in the file unless a write was cut off; what is played passed the inspection |
| `moderngekko-port` | a cache of modules | build, look up, publish | the launcher exchanges the DOL | what a name is served for is what it names, apart from a torn copy and an exchanged DOL |

The behaviours that are hard to get right, and hard to test:

* **One thread, but reentrant.** Device events are callbacks that run inside
  `Advance` and change the queue it walks. Handles outlive a reset of the queue
  that made them. Counters are brought up to date only when somebody looks.
* **A stream cut anywhere.** Vertex sizes depend on registers written earlier in
  the same stream, and display lists are decoded in the middle of it.
* **All or nothing.** Loading mods is seven phases, of which all but the last may fail. An
  extraction is ten steps, a build eight, and each may be cut off.
* **A stack kept beside another.** Return hooks follow the guest's stack without
  seeing its frames.
* **Many small critical sections.** Diagnostics takes and releases four locks in
  one operation, from four threads, one of which it joins.
* **Counting without atomics.** Each thread adds with a plain load and store.
* **Starting and stopping.** A stop may come from a signal, a netplay message, the
  window or the core, before the main loop, in it and after it, by pointers that
  must be gone before the Runtime is.
* **Files that several programs write**, one of which remembers what they held. A write
  truncates the file first, and its end is not looked at.

The 40 hazards, with their lines and the properties that catch them, are in
`PROJECT.json`; those without a property say why.

## 2. The modules

Where several parts are put into one module below, they are either composed over
state they share (devices, session) or are independent of one another and follow one
part per behaviour, the others at rest in an initial state (`Diagnostics`,
`GameSetup`, `Frontend`). In the second case no step of one part reads or writes what
another has, so an interleaving of two parts is, for each, one of its own behaviours
with stutters; nothing is lost by not producing it, and one configuration checks them all.

### Time

`EventQueue` holds the operators of the queue: a queue is a set of events
`[due, id, callback]`, ordered by `(due, id)`, with times that saturate at
`TickMax` (2^64-1 in the code). `EventScheduler` has one action per operation and
takes `Advance` apart: `Advance` moves the time, `Fire` hands the first event that
is due to its callback, the callback's own `ScheduleAfter`, `Cancel` and `Reset`
follow, `CallbackReturn` goes back to the loop and `AdvanceReturn` leaves it when
nothing is due. `lastFired` is a history variable.

`TimerService` is what the scheduler promises, with no identifiers counter, no loop
and no saturation: timers are armed, disarmed, delivered once, in order, and time
does not pass an overdue one. `ImplementsTimers` says that the scheduler implements
it (`now <- ticks, pending <- events, last <- lastFired`).

### Devices

`ProcessorInterface`, `DiscInterface` and `AudioSystem` declare the variables of one
device each and the queue they share, and give one operator per register write and
per callback; every operator contains the calls the code makes (the cancel and
reschedule in a control write, the interrupt update at its end). `LegacyRuntime`
instantiates the three over one queue. Between two calls of `Advance` the guest
writes any of its registers (`GuestWrites...`) and the host may insert or remove the
disc; `Reset` resets the scheduler first and the devices after it, in the order of
`LegacyRuntime::Reset`. All of this is one thread in the code, so a register write is
atomic, and an interleaving is an order the guest chooses. `guest` says which
registers a program writes and with which values; it never changes.

Sample counts are taken modulo `SampleModulus` (2^32 in the code); a DMA source
address has two halves of `HighUnit` units.

### Setting up a guest

`ModLoader` is `Load`, `LoadDirectories` and `Unload`, a step per mod and phase: register
the sources, check and resolve the dependencies, order, collect exports and events, link
imports, patches, hooks and callbacks, call `on_load`; any issue leads to the `Unload` of
everything, which clears every table, the return hooks that wait for the guest and the
mark that the runtime has started. `Load` keeps the order it is given, `LoadDirectories`
the one of the whole paths. A descriptor keeps what the phases tell apart, with an invalid
or repeated entry in each of its seven tables; `Dispatch` is here only what `Unload` has to
undo of it. `ModuleTables` is the validation of a recompiled module, in the order of
its checks with the cursor that tiles the code with chunks, and the library that is
opened, attached and closed; it is compared with `TablesAreSound`, which speaks of
sets of addresses and knows no cursor. `MmioBus` registers, finds and clears ranges,
with every sum taken modulo `Modulus` (2^32 in the code); it is compared with the
sets of bytes, which no width limits. `GameSetup` holds the three.

### Mods at run time

`ModDispatch` is `Dispatch` against the stack of the guest: `Call`, `TailCall` and
`Return` are the external guest program, `PopReturn` and `PushReturn` what the
manager does when control arrives.

### Graphics

`GxVertexLoader` (what a vertex consists of, which ones are skipped, when decoding
fails, the index buffer), `GxStateBackend` (registers and calls of the render device,
as operators on a record) and `GxCommandProcessor` (the decoder: one action per
kind of command, a stack of the display lists under way, `WriteBytes` and
`WriteReturns` around them). The guest's program is a sequence of commands and what it
writes is their encoding, in chunks of any size. `GxMeaning` defines what a sequence
of commands does with no stream at all: the display lists it calls are written out in
their place, as deep as the code goes, and one command is done after the other.

A unit of the stream is an opcode, a half of a header, a value or a byte of a
vertex. `DecodeOne` acts on nothing but whole commands, so cutting a value in two
leads to the same states as cutting before it. Register values are members of a
small set, and `Fields` says what the bits of each mean in each register.

### Diagnostics

Four stages, each of which hands a finished result to the next:

* `PerfRecorder`: threads that register, load and store; the frame that adds their
  accumulators up one at a time and shows the difference in 32 bits (`MaxDelta`); and
  `Initialize`, which adds them up too, for the next frame to begin there.
* `DiagnosticsCapture`: the present thread (`Measure`, `PushHistory`, `AskCapturing`,
  `PushFrame`, the last of `EndFrame`), the console thread (toggle, save), the
  sampler, and the host thread that creates, runs and destroys the Runtime. A step is
  one critical section: where the code releases a lock and takes the next, another
  thread may come between. So the sampler reads a PC in one step and counts it in the
  next, and a capture may start and clear the counts in between. A report may fail to
  be written.
* `BottleneckAnalyzer`: the rules, each with its condition and score, their order, and
  the verdicts for want of evidence. Times are percentages of the frame, and what a
  rule compares with a median is the comparison.
* `ReportFile`: the archive, written cell by cell over what is there and cut short
  anywhere, its directory and checksums, and the reader with the CSV fields and lines
  it takes apart. Three entries stand for all.

`Diagnostics` holds them.

### Sessions

`RuntimeLifecycle` is the Runtime: `Create` (one step, under its mutex), `Run` taken
apart where another thread can come between (`EnterRun`, `TakeBootData`,
`RegisterPresent`, `RegisterState`, `BootCore`, `MainLoopReturns`, `LeaveRun`, with the
returns and the exception that leave it early), and the destructor in the order of its
body. The core, which may end by itself, the title thread and the user's stop are
actions of others. `NetplaySession` extends it with the lobby's host thread and the
callbacks on the client's thread, which handles one message at a time; what the
server and the other players do is which callback comes. `Runner` adds `RunMain`
without netplay, the console, the signal handler and its watcher. `GameRounds` is
the abstract specification: games are played one at a time, each later than the one
before (`played <- round, playing <- (core = "running")`).

### Before a game

`FrontendConfig` says what is in the two files and what reading and writing them does.
Both are truncated first. A write of `config.ini` is refused before the file is opened,
written whole, stopped after four lines by a controller whose name has a line break, or
cut off in silence after any number of lines, since nobody looks at the stream when it
is closed; a write of the profile may in addition be cut off and reported. A file that
says too little is refused by `LoadConfig`, and the overload of `SaveConfig` that
changes the file then starts from the defaults; so it does after a nickname of blanks,
which is saved and then refused. `LauncherSettings` has an action per widget that saves,
with each of these outcomes for each of its writes, gamepads that come and go, and the
runner and the lobby that read and write the same files afterwards. `GameInstall` is the
extraction on its thread, step by step with its failures, against the window that waits
or plays another game meanwhile, and a launcher that dies anywhere and starts again.
`ModuleCache` is a build of `moderngekko-port` step by step, with the DOL exchanged
under it and builds cut off. `Frontend` holds the three; the one file two of them touch,
`main.dol`, is exchanged by an action of the cache itself.

## 3. What the runs check

| Run | Module, configuration | Distinct states | Question |
|---|---|---|---|
| `scheduler` | `MCEventScheduler`, `scheduler.cfg` | 19,774 | Is every event delivered once, in order, in time, however callbacks change the queue? Is it a timer service? Does every event leave, unless its clients schedule without end? |
| `devices` | `MCLegacyRuntime`, `devices.cfg` | 602,732 | Do the handles of the devices match the queue they share, across resets? Are interrupts real and on time? Does every transfer end, and a stream stay in its buffer? |
| `setup` | `MCGameSetup`, `setup.cfg` | 969,051 | Is exactly the loadable set of mods accepted, in the order of dependencies and paths, and nothing left of a rejected one? Is a module accepted just when its chunks partition its code? Does an access reach the device of its bytes? |
| `dispatch` | `ModDispatch`, `dispatch.cfg` | 6,940 | Are return hooks those of the frame that returns, also when the stack is deeper than there is room for? |
| `gx` | `MCGxCommandProcessor`, `gx.cfg` | 127,221 | Does the stream mean what its commands mean however it is cut? Do the two copies of the registers agree about vertices? Do writes return? |
| `diagnostics` | `MCDiagnostics`, `diagnostics.cfg` | 359,871 | Is anything counted lost, or in two frames? Are captures written once, timed ones ended, with their own data? Does the verdict follow from the evidence? Is a report read back whole or refused? |
| `session` | `Runner`, `session.cfg` | 33,452 | Does anybody reach a Runtime that is dying? Is anything left of a boot, however it ended? Is a stop honoured? Is a game played once? |
| `frontend` | `Frontend`, `frontend.cfg` | 717,249 | Is what the launcher shows what the runner reads, whatever became of the saves? Does what is played pass the inspection? Is a cached module the one it is named after? |
| `capture_totals` | `DiagnosticsCapture`, `capture_totals.cfg` | violation | Is a report made of its own capture's frames? |
| `counters_shared` | `PerfRecorder`, `counters_shared.cfg` | violation | Is nothing lost with more threads than accumulators? |
| `analyzer_basic` | `MCDiagnostics`, `analyzer_basic.cfg` | violation | Is no subsystem named where nothing is timed? |
| `mmio_top` | `MmioBus`, `mmio_top.cfg` | violation | Does an access that is not mapped find nothing? |

What the properties say:

* **scheduler.** `NoMissedEvent`: outside `Advance` nothing queued is overdue.
  `FiresOnceInOrder`: callbacks run in the order of due times and then of
  identifiers, and an identifier that has left does not come back. `ImplementsTimers`
  is the refinement, `EveryEventLeaves` the liveness: every event is fired, cancelled or
  reset, unless the clients schedule without end and never reset (`SchedulesWithoutEnd`).
  The exception is the code's own. A callback that schedules itself anew after zero
  cycles, or after any number at the saturated clock, keeps `Advance` in its loop for
  ever, and what is due later never leaves. `MaxId`, the bound on the events between two
  resets, keeps this out of the behaviours the run checks.
* **devices.** `HandlesMatchQueue`: a handle names its device's one event, and a busy disc
  has a completion queued. `DiscEventsSurvive`: a completion leaves the queue only by
  its own delivery, when it is the event `Advance` has come to and the transfer then shows
  its outcome, or by a reset of the machine; no cancel of another device takes it, inside
  `Advance` either. `NoSpuriousInterrupt`: the
  controller shows a device's interrupt only while the device has one. `DmaStreamIsSound`,
  `AidEndsBuffer`: the stream goes on, inside the buffer it latched, and marks its end
  there and nowhere else. `SampleInterruptOnTime`: the event scheduled from a
  counter that is brought up to date lazily is due when the counter will match.
  `TransferEnds`: the start bit a guest polls becomes clear.
* **setup.** `AcceptsExactlyLoadable` (with an invalid entry in any table, skipped in its
  phase, among what must not be accepted), `OrderedByDependenciesThenPath`,
  `DependenciesAreLoaded`, `NothingIsLeftBehind` (no mod, export, patch, hook,
  subscription, slot or waiting return) for the mods, `TheModuleIsSound` for
  the module, `AccessesReachTheirDevice` for the bus away from the last byte of the
  address space.
* **dispatch.** `PendingFollowsTheStack`: pending returns are those of the innermost hooked
  frames, in order. `EveryHookedFrameIsPending`: none is missing while there is room.
* **gx.** `AsIfWrittenAtOnce` compares every state between commands with `GxMeaning`;
  `DrawsAreSound` says that draws are decoded with the sizes they were cut out with and
  index only vertices they kept; `DecodingProgresses` is the variant of the decoder's loop.
* **diagnostics.** `CountsOfOwner`, `FramesAddUp` (the counts of a Runtime's frames, with what
  did not fit in 32 bits, add up to what was read since it was initialized);
  `OneReportPerCapture`, `BuffersHoldTheirOwn` (the profile of a capture holds at most one
  sample of before, which was on its way when the profile was cleared),
  `EveryTimedCaptureEnds` (its report is written or fails to be), `DestructionReturns`;
  `VerdictFollowsTheEvidence`; `ReadBackWholeOrRefused`.
* **session.** `NothingReachesADeadRuntime`: who can still reach the Runtime (the session's
  pointer, the console's, the watcher, the title thread, the core) finds one whose
  destructor has not begun. `NothingLeftRegistered`: a Runtime that is gone, however
  `Create` and `Run` ended, has left no hook, capture, static or service.
  `HostCallsReachTheLiveManager`: guest code calls the mods of this Runtime and not of one
  before it. `StopIsHonoured`, `ImplementsRounds`.
* **frontend.** `ShownIsSaved`: what is shown is in memory always, and in the file unless a
  save has cut the file or started from one that was not readable; a save of the whole
  configuration that reaches the disc makes it good. A failed save may thus leave a
  truncated file, not the previous one, and the runner then refuses to start or plays with
  defaults. `PadsAreMapped`: a game starts with a profile that names a device, netplay
  with the devices of the profile, and the lobby counts as many as it maps, but for a
  profile whose own last write was cut off or not followed by `config.ini`.
  `WhatIsPlayedIsValid`: the game that is started passes the inspection at that time. For
  a build that pins a game that means the right disc and executable; for one that does not
  it means a header and an executable that can be parsed, and no more: whether the export
  of the files was complete is not looked at, by the code or by the property.
  `AValidGameIsKept`. `CacheIsKeyed`: a module in the cache is the one its name says,
  outside two cases in which the code does serve another as a cache hit. One is a copy
  that was cut off at `moderngekko_port.cpp:501` and is found by the next build at 490;
  the other is a DOL that is exchanged between the hash and the compilation. The property
  says that there is no third case, and that the two spread to no other key.

### Bounds, and why they are enough

* **scheduler.** Delays 0, 1 and 3 and a clock that saturates at 5: events share due
  times, one jump passes several, due times saturate while others are waiting, and a
  callback schedules something due at once behind something that waits. Three
  identifiers make every order of three events; they also keep a client from scheduling
  without end between two resets. The proofs of safety remove these bounds.
* **devices.** Three guests. The first drives the disc: three starts from one reset to the
  next, so that two completions are in flight and a third follows; transfers of 0
  and 2 units on a disc of 2 at offsets 0 and 1, which are empty, exact, and beyond the
  end. The second streams audio: buffers of 0 and 2 blocks, 8 ticks of a period of 2,
  so that a buffer ends and the next begins, enabled and disabled at every point of
  both. The third uses all devices with fewer values: the counter wraps at 4 samples of
  2 cycles, and charges of 1 and 3 make events late. A reset at any point starts the
  identifiers again. `TickMax` is beyond what any of them reaches.
* **setup.** Pairs of descriptors (dependencies, optional and old ones, exports, imports,
  events, subscriptions, patches, each alone and with a second mod it depends on, and an
  invalid entry in one table of a mod that uses all), all 512 dependency graphs on three
  mods, in every order of the sources and in the order of paths over two directories that
  is not the one of the file names; some 80,000 tables of
  up to two code ranges and three chunks on five addresses, with empty, reversed and
  touching ranges, and modules with one fault elsewhere; addresses modulo 8 with two
  ranges of any place and size and every access, which is every way in which two ranges
  and an access can lie.
* **dispatch.** Three functions, two of them hooked, two return sites, a stack of five
  and room for three: recursion, dropping the oldest twice, and coming back to frames
  whose entry was dropped.
* **gx.** 7 layouts with 7 sets of formats (every descriptor kind, 1 to 4 byte
  components, three normal indices or one), 8 primitives with 0 to 7 vertices, four
  patterns of indices (valid, all skipped, some skipped, some out of memory); all pairs
  of 19 commands and all triples between two display list calls; lists nested to
  the limit of 3 (16 in the code), calling themselves, cut short, and missing. Chunks
  of 1, 3 and 8 units reach every cut of every command. `MaxUnit` is the 65,535 of a
  16-bit index, and all vertex registers and all eight textures are there.
* **diagnostics.** Two threads with two accumulators and three additions each, and counts
  of a frame of at most 2, so that a frame shows less than was counted: a lost
  addition needs two threads and one each. A history of 2 frames and frames numbered
  modulo 3, so that a gap of one or two frames shows; a limit of 2 frames; the capture
  started on boot and one by the console, which is as many as can be stopped at once.
  Telemetries on both sides of every threshold. Reports with a name of up to two of the
  five kinds of character, or three of the ones that quoting is about, and with
  lines of up to two; two writings, so that a report is cut short over an older one.
* **session.** Two Runtimes and two games: what the first leaves is met by the second. Two
  signals: the second comes after the watcher has gone.
* **frontend.** Three gamepads, one of which has a name with a line break, and three
  edits, which is a save by each of the two ways with a failure between them.
  `config.ini` is cut before its first line, which makes it unreadable, and after the
  backend, which leaves the rest to the defaults; a profile before and after its first
  device. Two extractions and one crash: one that is cut off and one that finds its
  remains. Two contents of the DOL, two sets of tools, three builds, two exchanges, one
  interruption: a name is built, lost, and built again after another.

`CHECK_DEADLOCK FALSE` is set where the system may stop: a guest at its bound of time,
threads that have counted all they may, a process that has ended, a launcher that was
closed. `scheduler`, `setup`, `dispatch`, `gx` and `session` are checked for deadlock.

### Fairness

Safety needs none. `scheduler` and `devices` assume that the loop of `Advance` goes on and
a callback returns (weak: it is one thread in one loop), and that the running
guest charges cycles (strong: the charge is enabled only between two calls of `Advance`,
again and again; what a compiled block charges is up to the guest's code, which is
external). `diagnostics` assumes that a thread of the capture which is in an operation goes on with
it and that the game presents frames while it runs, and strong fairness of the
host taking the console's lock, which the console holds only for lines that were typed.
`session` assumes that the host thread, the title thread, the signal watcher and the
client's thread are scheduled. Nowhere is anything assumed of what a user types, presses
or closes, of when the core ends, of a signal, or of what another player does.

That `WriteBytes` returns is not a liveness property but a variant
(`DecodingProgresses`): each step decreases what the decoders have before them, so no
fairness is needed beyond the loop's running.

### Findings

* `capture_totals`: `StopCapture` clears `capturing` and releases the lock before it
  copies the buffers (`diagnostics.cpp:493-509`). A capture that starts in between
  empties them, and the report of the first capture has none of its frames.
* `counters_shared`: threads past the 128th share the first accumulator
  (`perf_recorder.cpp:54`), where `diagnostics.hpp:238` says that only the owning
  thread writes; additions are lost.
* `analyzer_basic`: at the basic level the rules that look at counters, compilations and
  threads still name a subsystem (`bottleneck_analyzer.cpp:369`), where
  `docs/diagnostics.md:130` says that the analyzer refuses to.
* `mmio_top`: the end of an access to the last bytes of the address space is 0, and
  it is given to a device it does not touch (`mmio_bus.cpp:40`). The guest's accesses
  are masked before they reach the bus, so only a direct user of it meets this.

Found while modelling and not listed as findings, for want of a text they contradict:
CP register numbers whose low bits the processor ignores and the backend does not
(`gx_command_processor.cpp:308`, excluded from `DrawsDecode` by name); a netplay stop
that comes before `SetRuntime`, which finds no Runtime and is lost
(`netplay_session.cpp:121`, excluded from `StopIsHonoured`, which speaks of the stops
that find one); the pointers of the session and of the console, which dangle once `Run`
has thrown and until the program has unwound (excluded from
`NothingReachesADeadRuntime` by `threw`); report names with a time of one second, so that
the second capture that ends in it overwrites the first (`diagnostics.cpp:641`); the saves
that cut a file and say they did not (`frontend_config.cpp:245-274`, excluded from
`ShownIsSaved` by `lost`, from `PadsAreMapped` by `unmapped`).

`mod-template/README.md:18` says that mods are ordered by dependencies and then package
filename. That holds of the mods of one directory. The runner loads two
(`moderngekko_run.cpp:310-311`), and the files found are sorted by their whole paths
(`mod_loader.cpp:531`), so the directory decides before the file name does.
`OrderedByDependenciesThenPath` states what the code does; the two directories are among
the inputs of `setup`.

## 4. What is proved

All theorems are checked by TLAPS from the assumptions named in the modules that
declare the constants; TLC evaluates the same assumptions in every run. Every
invariant and every action property that a passing run checks is stated by a theorem.

**`EventSchedulerProofs`**, for any clock width, any set of delays and callbacks and
any number of events: `TypeCorrect`, `NoEventMissed`, `IdsUnique`, `InOrder`,
`AtMostOnce`, `OnceInOrder` and `Refinement` (the scheduler implements `TimerService`).
The inductive invariant is

    IInv == TypeOK /\ NoMissedEvent /\ QueuedAfterLastFired /\ UniqueIds /\ LastFiredIsPast

`QueuedAfterLastFired` (what is queued comes after what was fired last) is what order
needs, and is not inductive alone: an event scheduled now is behind the last one only
because that one's due time and identifier are both past (`LastFiredIsPast`).
`NoMissedEvent` is kept by `AdvanceReturn`'s own condition and lost by no client
call, since saturating addition never goes back. The refinement takes a step of
`IInv` to a step of the service: `ScheduleAfter` to `Arm`, `Cancel` to `Disarm` or a
stutter, `Advance` to `Pass`, `Fire` to `Deliver`, `Reset` to `Clear`.

**`LegacyRuntimeProofs`**, for any guest and any of the widths, periods and delays:

* `HandlesAreTheirOwn` (`HandlesMatchQueue`), from `QueueInv`, which adds
  `IdentifiersAreOnce`: identifiers in the queue are below the next one and of one
  event each, and so are the handles. That is what makes the two handles and the queue
  agree after a cancel: only the event of that identifier goes. A reset keeps it because
  the queue is emptied before the devices are.
* `DiscEventsAreDelivered` (`DiscEventsSurvive`), from the same invariant: the cancels of
  the audio system name its own events, in its register writes and in the callbacks inside
  `Advance` alike.
* `InterruptsAreReal` (`NoSpuriousInterrupt`), which is inductive as it stands because
  every operator that changes a device ends in its interrupt update. The converse is not
  claimed: the guest may clear a cause in the controller while the device keeps it.
* `StreamsStayInTheirBuffer` (`DmaStreamIsSound`), from `StreamInv`, which adds that
  addresses and counts are natural numbers.
* `AidComesLast` (`AidEndsBuffer`), from the same invariant: AID is raised only by a block
  that finds at most one remaining, and what remains says where in the buffer it is.
* `SampleInterruptsAreOnTime` (`SampleInterruptOnTime`), from `SampleInv` and `QueueInv`.
  The argument is arithmetic: the event's delay is a whole number of samples from a time
  less than a sample after the counter was brought up to date (`ScheduledOnTime`), and
  bringing it up to date again moves the quotient and the counter by the same amount
  (`UpdateKeepsReading`, for every sample length and modulus). `QueueInv` keeps the other
  devices from taking the event away. It needs `SamplesAssumption`: the registers hold
  samples, and no guest runs to within one turn of the counter of the time at which the
  64-bit clock saturates, where an event would be due too early.

**`GameSetupProofs`**, for any mods, modules and ranges:

* The mods: `DependenciesStayLoaded` (`DependenciesAreLoaded`), `UnloadLeavesNothing`
  (`NothingIsLeftBehind`), `LoadOrderIsDetermined` (`OrderedByDependenciesThenPath`) and
  `LoadJudgesRightly` (`AcceptsExactlyLoadable`). `LoaderInv` says, of every phase, what
  the loop has done so far: `Sourced` (every mod has its place among the sources, which
  are in the order of paths when directories were loaded), `Ordering` (the mods placed
  so far stand where the order wants them, the ready set holds exactly those whose
  dependencies are placed, and a count is the number of dependencies that are not),
  `Loading` (what is loaded is a beginning of the order, in unloading too),
  `LinksAreOfMods` (exports, patches, hooks, callbacks, slots and waiting returns belong
  to mods that are there) and `Judging` (there are issues by now just when what was
  looked at has one). That the order ends early exactly at a cycle is an argument about
  sets of mods none of which is ready: each of them waits for another.
* The module: `ModulesAreSound` (`TheModuleIsSound`). The loops of the validation are
  recursive functions with a cursor. What they return is compared with the sets of
  addresses by their least counterexample (`StatusJudges`), in both directions, so
  acceptance is shown to be exact. `TablesInv` adds that the library which is open is
  that of the attached module.
* The bus: `DevicesAreReached` (`AccessesReachTheirDevice`), for any width of an address.
  The invariant is the type, `RangesAreApart` (of two ranges below the last byte, one ends
  where the other begins or before) and `AccessIsServed` (the last access is inside the
  range it was given, and inside none if it was given none); both are arithmetic over sums
  that may wrap, and are turned into the sets of bytes at the end. Find's choice of the
  first range takes well-foundedness.
* The composition: every behaviour of `GameSetup` is one of each part
  (`SetupImplementsItsParts`), so all six hold of it (`SetupIsSound`).

**`ModDispatchProofs`**, for any program, depth and size of the buffer:
`ReturnHooksFollowTheStack`, the type invariant, and `NoHookedFrameIsForgotten`. The
first invariant is `TypeOK /\ PendingFollowsTheStack`: an entry is dropped only at the
outer end, and taken only at the inner end by the return of the frame it is of, because
the stack pointer tells frames of equal return address apart. The second adds
`EveryHookedFrameIsPending`: pending returns are of different hooked frames, so by the
pigeonhole principle there are no more of them than of those, and the buffer is full
only when there are as many hooked frames as it has room for.

**`GxProofs`**, for any program, any display lists, any cutting of the stream:

* `CommandsTypeCorrect`.
* `DecodingEnds` (`DecodingProgresses`): every step between a write and its return
  takes what the decoders have before them down in the order `Below`, and
  `BelowIsWellFounded` says that this cannot go on for ever, for any depth of lists.
* `WritesAreAsOne` (`AsIfWrittenAtOnce`), from `SyncInv`. For every decoder under way, the
  outermost one and one per display list, there is a number of commands it has still to
  do, and what it has before it is their encoding, possibly cut short (`Told`). Following
  the levels from the innermost to the outermost gives what is left to do; what is done
  already (`past`) is such that `past` followed by what is left is the program with its
  lists written out, and such that the registers and the render device are what `past`
  leads to. A call moves a command from what is left to a new level, the end of a list drops
  a level with nothing left, and every other command goes from what is left to `past`.
  What the sums and concatenations of any length yield is shown by the least length at
  which it would not, and the inlining likewise by the least depth.
* `DrawsAreRead` (`DrawsAreSound`), from the same invariant and from `GoodState`, which
  holds along every beginning of what the program inlines to: the processor's copy of
  the vertex registers is the backend's (`Mirrors`) as long as the register numbers are
  usual ones, and what the render device was called with was decoded with the sizes it was
  cut out with (`GoodCalls`). `DrawIsRead` shows that reading a vertex takes exactly the
  bytes its size counted, attribute by attribute, and `IndicesCover` that each kind of
  primitive indexes only the vertices that were kept.

They rest on what is assumed of the guest: that it writes commands with bodies of
the size their header tells (`CommandsAssumption`), in chunks of any size
(`ChunkAssumption`), and that the table of fields gives each register value its bits
(`FieldsAssumption`, `RegisterAssumption`, `UnitsAssumption`, `DrawsAssumption`).

**`DiagnosticsProofs`**, for any finite set of threads, any ring, time limit, telemetry
and report:

* The counters: `OwnersCountsAreKept` (`CountsOfOwner`), as long as there are no more
  threads than accumulators (`RoomForAll`, a hypothesis of the theorem, which
  `counters_shared` shows to be needed). The invariant adds to the counts that no two
  threads have the same accumulator (`OneOwner`), that a value loaded is still current
  when it is stored (`LoadsAreCurrent`), and that accumulators not handed out are zero.
* The frames: `FramesAreAddedUp` (`FramesAddUp`) and `NothingIsLost` (`NothingLost`,
  which the run without room refutes), under the same hypothesis. `FrameInv` bounds the
  total from both sides: what was shown last is at most what was read and what is still
  to be read, and that is at most what is registered now, while every thread goes on
  adding; what the frames showed and what was clipped from them is what the total grew
  by since `Initialize`. Sums over finite sets are shown not to depend on the order they
  are taken in, and to grow with their parts.
* The captures: `CapturesAreWrittenOnce` (`OneReportPerCapture`), from `ReportInv`: the
  number of a capture is taken by the one thread that clears `capturing` under the lock
  and stays in its locals until the report is written (`NumbersAreTaken`), and a number
  that was written is nobody's any more (`NumbersAreSpent`).
* The buffers: `BuffersAreTheirOwn` (`BuffersHoldTheirOwn`), from `BufferInv`: the ring
  has no gap (`RingIsGapless`), the frame that the present thread has measured comes
  next (`FrameIsNext`), the samples counted belong to the capture under way, but for the
  one that was read before it and counted after its start (`SamplesOfThisCapture`), and
  there is nothing in the buffers while there is no Runtime (`HostFollows`,
  `CleanWhenOff`).
* The verdict: `VerdictsFollowTheEvidence`. The findings are sorted by score and, within
  one score, by the order of the rules; ranks show that the first one has the highest
  score. That a subsystem is named only with frames and timings enough, and never two
  that exclude each other, follows from the conditions of the rules for every telemetry.
* The report: `ReportsComeBack` (`ReadBackWholeOrRefused`), from `FileInv`: the file is a
  beginning of the archive of the report, and what is pending is all of the rest, or
  nothing, when it was cut off there. An archive whose directory and checksums are in
  order is a whole one. That the texts in it come back, of any length, is shown for each
  loop by the length at which it would first go wrong: reading a line adds its characters
  and ends it (`LogIsRead`), and taking apart what quoting a character wrote gives that
  character again (`DoubledIsTaken`).
* The composition: `DiagnosticsImplementItsParts` and `DiagnosticsAreSound`. The stages
  take turns, and the invariant of the analyzer holds while it has its turn (`StageInv`).

**`RunnerProofs`**, for any number of Runtimes, games and signals:
`RuntimeOutlivesItsUsers` (`NothingReachesADeadRuntime`), `RuntimeCleansUp`
(`NothingLeftRegistered`), `RunnerPlaysRounds` (`ImplementsRounds`) and
`HostCallsAreLive`. The invariant says where the host thread is when the Runtime is
where it is (`HostFollowsLife`), which pointers there are then
(`PointersFollowTheHost`), and, for each thing that is registered or started, in which
part of a Runtime's life it may be there (`WhatRunStarts`, `WhatCreateSetsUp`,
`WhatTheSessionOwns`). The refinement needs one more (`RoundsGrow`): a game that is
about to be booted is later than the last one and not later than the last the server
started, which the start request and the boot data, each taken once, carry along.
`HostCallsAreLive` (`HostCallsReachTheLiveManager`) needs only that Create alone makes a
manager and tells the JIT of it, or that there is none (`ManagerSteps`).

**`FrontendProofs`**, for any number of edits, extractions, crashes, builds, exchanges
and interruptions:

* The game: `InstallTypeCorrect`, `PlaysOnlyValidGames` (`WhatIsPlayedIsValid`) and
  `ValidGamesAreKept` (`AValidGameIsKept`). The invariant adds what the thread knows at each
  step (`ThreadKnows`: from its look at the directory on, it replaces only what was not
  valid, and removes only when what takes its place is) and what the window knows
  (`WindowKnows`: a game found valid is still so).
* The cache: `CacheTypeCorrect` and `CacheServesItsKey` (`CacheIsKeyed`). The invariant
  follows the DOL through the build (`BuildsItsKey`), says that no step reads what is not
  there (`NothingIsMissing`), and that both copies of a module and its manifest are what
  the name says (`BuiltAsNamed`, `ManifestsAsNamed`), outside the keys the property excepts.
* The settings: `SettingsAreShownAsSaved` (`ShownIsSaved`) and `GamesStartWithPads`
  (`PadsAreMapped`). Each is inductive with the other once the fields of the two files are
  known and a profile that names devices, or that netplay was started with, exists.
  `Saving` says what a save leaves of the file for each of its outcomes, `SavingByFile` what
  of it is carried over by the saves that go through the file, and `Sound` what choosing a
  controller, which writes both files and may fail at either, leaves of them.
* The composition: `FrontendIsSound`.

Only model-checked is liveness (`EveryEventLeaves`, `TransferEnds`, `StopIsHonoured`,
`EveryTimedCaptureEnds`, `DestructionReturns`), which is out of the prover's reach.

## 5. What is not modelled, and why

* Values: coordinates, colours, texels, samples, disc contents, the numbers of a report.
  The code that computes them is table and arithmetic, and the tests compare it with
  reference data. With them go the texture decoder, the pipeline key and the controller
  table, and what `report_render.cpp` prints.
* The vendored Dolphin core, the shader compiler, the video host and system queries:
  external code, or none of the repository's own logic.
* The command line: arguments, file dialogs, the layout of windows, the text of files.
  `frontend_config.cpp` is modelled by what its reading and writing keep.
* `LegacyRuntime`: the dispatch of compiled blocks in `Run`, whose code is the guest's, and
  `LoadDol`, which copies sections. That time goes on at all depends on what a block
  charges.
* Mods: events triggered from inside `on_load` and `on_unload`; hooks that leave the state
  of the manager alone; tail calls from one hooked function to another and `longjmp`,
  which leave a pending return behind that nothing takes.
* Diagnostics: `RecordEvent` (an event goes to the buffers as a frame does), a
  disabled diagnostics, the log, the anonymisation, zone timing and percentiles.
* The Runtime: `Pause`, the progress of shader compilation, the size of the window.
* Graphics: the counters of the command processor except for unknown opcodes; a backend
  or device exchanged in mid-stream.
* Netplay: the fingerprint of the files two players compare, pings and chat.

`PROJECT.json` says the same per component, and `status` says which of them are whole.

## 6. Order of work, and what is left

The core came first, and each part was proved about once TLC agreed:

1. Time and devices: `EventQueue`, `EventScheduler` implementing `TimerService`,
   `ProcessorInterface`, `DiscInterface`, `AudioSystem`, composed in `LegacyRuntime`.
2. Threads: `DiagnosticsCapture`, `PerfRecorder`.
3. Mods: `ModLoader`, `ModDispatch`; with `ModuleTables` and `MmioBus` in `GameSetup`.
4. Graphics: `GxVertexLoader`, `GxStateBackend`, `GxCommandProcessor` against `GxMeaning`.
5. Sessions: `RuntimeLifecycle`, `NetplaySession`, `Runner` implementing `GameRounds`.
6. Reports: `BottleneckAnalyzer`, `ReportFile`, with 2 in `Diagnostics`.
7. Before a game: `LauncherSettings`, `GameInstall`, `ModuleCache` in `Frontend`.

Left:

* Events triggered from `on_load` and `on_unload` in `ModLoader`; tail calls between
  hooked functions in `ModDispatch`, with the stale entry they leave.
* `Pause` in `RuntimeLifecycle`; trace events and a history report's baselines in
  `DiagnosticsCapture`.
