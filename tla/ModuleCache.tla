---------------------------- MODULE ModuleCache ----------------------------
(* moderngekko-port: the cache of recompiled modules of one disc.  A build  *)
(* names its directory after the hash of the DOL and the tools, and reads   *)
(* the DOL again later; the launcher and the runner may exchange the DOL    *)
(* meanwhile (their bundled patches); a build may be cut off at any step.   *)
(* The recompiler, the C compiler and the linker are external: each makes a *)
(* whole file, or fails and makes none, unless it is cut off.               *)
EXTENDS Naturals

CONSTANTS
  Dols,              \* contents of main.dol
  Missing, Torn,     \* a file that is not there, and one that was cut off
  NoKey,             \* what an empty active-module.txt says
  Toolsets,          \* recompiler, compiler, flags and backend, by what they hash to
  MaxBuilds,         \* bound: builds that are started
  MaxExchanges,      \* bound: times the DOL is exchanged
  MaxInterruptions   \* bound: builds that are cut off

Keys == [dol : Dols, tools : Toolsets]

\* A module: the DOL its code was recompiled from, the DOL that lies beside the
\* code, and the tools.
Modules == [code : Dols, beside : Dols, tools : Toolsets]

ASSUME CacheAssumption ==
  /\ MaxBuilds \in Nat /\ MaxExchanges \in Nat /\ MaxInterruptions \in Nat
  /\ Toolsets # {}
  /\ NoKey \notin Keys
  /\ Missing \notin Modules \union Dols /\ Torn \notin Modules \union Dols /\ Missing # Torn

VARIABLES
  dol,           \* the game's main.dol
  hasPatches,    \* the settings of the disc hold enabled patches
  artifact,      \* the directory of each key
  active,        \* active-module.txt: a key, or NoKey
  step,          \* the next step of Build, "idle" when none runs
  key,           \* cache_key of the build
  tainted,       \* history: keys whose build lost its DOL, or was cut off in a copy
  builds, exchanges, interruptions

cacheVars == <<dol, hasPatches, artifact, active, step, key, tainted,
               builds, exchanges, interruptions>>
buildBounds == <<builds, exchanges, interruptions>>

\* The files of a key that are read again.
NoArtifact == [patchedDol |-> Missing, generated |-> Missing, mainDol |-> Missing,
               built |-> Missing, module |-> Missing, manifest |-> Missing]

CacheInit ==
  /\ dol \in Dols
  /\ hasPatches \in BOOLEAN
  /\ artifact = [k \in Keys |-> NoArtifact]
  /\ active = NoKey
  /\ step = "idle"
  /\ key = CHOOSE k \in Keys : TRUE
  /\ tainted = {}
  /\ builds = 0 /\ exchanges = 0 /\ interruptions = 0

Goes(next) ==
  /\ step' = next
  /\ UNCHANGED <<dol, hasPatches, key, tainted, buildBounds>>

\* A bug: the name of the directory says nothing of the DOL.
CacheKeyOfTools(contents, tools) == [dol |-> CHOOSE d \in Dols : TRUE, tools |-> tools]

CacheKey(contents, tools) == [dol |-> contents, tools |-> tools]

\* The game is inspected and its DOL hashed; the tools are hashed too.
StartBuild(tools) ==
  /\ step = "idle"
  /\ builds < MaxBuilds
  /\ builds' = builds + 1
  /\ key' = CacheKey(dol, tools)
  /\ step' = "look up"
  /\ UNCHANGED <<dol, hasPatches, artifact, active, tainted, exchanges, interruptions>>

LookUp ==
  /\ step = "look up"
  /\ Goes(IF artifact[key].module # Missing THEN "activate"
          ELSE IF artifact[key].built # Missing THEN "publish"
          ELSE IF hasPatches THEN "patch" ELSE "recompile")
  /\ UNCHANGED <<artifact, active>>

\* The DOL with the default patches, in the directory of the key.
PatchDol ==
  /\ step = "patch"
  /\ artifact' = [artifact EXCEPT ![key].patchedDol = dol]
  /\ Goes("recompile")
  /\ UNCHANGED active

RecompDol == IF hasPatches THEN artifact[key].patchedDol ELSE dol

Recompile ==
  /\ step = "recompile"
  /\ artifact' = [artifact EXCEPT ![key].generated = RecompDol]
  /\ Goes("copy DOL")
  /\ UNCHANGED active

CopyDol ==
  /\ step = "copy DOL"
  /\ artifact' = [artifact EXCEPT ![key].mainDol = RecompDol]
  /\ Goes("compile")
  /\ UNCHANGED active

Compile ==
  /\ step = "compile"
  /\ artifact' = [artifact EXCEPT
       ![key].built = [code |-> artifact[key].generated, beside |-> artifact[key].mainDol,
                       tools |-> key.tools]]
  /\ Goes("publish")
  /\ UNCHANGED active

\* publish_module: the module is copied in place, then its manifest is written,
\* then the name of the module that is used.
CopyModule ==
  /\ step = "publish"
  /\ artifact' = [artifact EXCEPT ![key].module = artifact[key].built]
  /\ Goes("manifest")
  /\ UNCHANGED active

WriteManifest ==
  /\ step = "manifest"
  /\ artifact' = [artifact EXCEPT ![key].manifest = key.dol]
  /\ Goes("activate")
  /\ UNCHANGED active

\* Also what a cache hit does.
WriteActive ==
  /\ step = "activate"
  /\ active' = key
  /\ Goes("idle")
  /\ UNCHANGED artifact

\* A tool returned an error, or made nothing.
GiveUp ==
  /\ step \in {"patch", "recompile", "compile"}
  /\ Goes("idle")
  /\ UNCHANGED <<artifact, active>>

\* The file that is being written when a build is cut off: it may be torn.
Cut(file, k) == [artifact EXCEPT ![k][file] = Torn]

\* The process dies, or a copy throws.
Interrupt ==
  /\ step # "idle"
  /\ interruptions < MaxInterruptions
  /\ interruptions' = interruptions + 1
  /\ step' = "idle"
  /\ artifact' \in {artifact} \union
       CASE step = "compile" -> {Cut("built", key)}
         [] step = "publish" -> {Cut("module", key)}
         [] step = "manifest" -> {Cut("manifest", key)}
         [] OTHER -> {}
  /\ active' \in {active} \union (IF step = "activate" THEN {NoKey} ELSE {})
  /\ tainted' = IF step \in {"compile", "publish"} THEN tainted \union {key} ELSE tainted
  /\ UNCHANGED <<dol, hasPatches, key, builds, exchanges>>

\* Until when the DOL is still to be read.
Unread == {"look up", "patch"} \union IF hasPatches THEN {} ELSE {"recompile", "copy DOL"}

\* The launcher or the runner patches the game: the file is replaced as a whole.
\* A build that has still to read it is a build of another DOL.
ExchangeDol(contents) ==
  /\ exchanges < MaxExchanges
  /\ exchanges' = exchanges + 1
  /\ dol' = contents
  /\ tainted' = IF step \in Unread THEN tainted \union {key} ELSE tainted
  /\ UNCHANGED <<hasPatches, artifact, active, step, key, builds, interruptions>>

CacheNext ==
  \/ \E tools \in Toolsets : StartBuild(tools)
  \/ LookUp \/ PatchDol \/ Recompile \/ CopyDol \/ Compile
  \/ CopyModule \/ WriteManifest \/ WriteActive
  \/ GiveUp
  \/ Interrupt
  \/ \E contents \in Dols : ExchangeDol(contents)

CacheSpec == CacheInit /\ [][CacheNext]_cacheVars

-----------------------------------------------------------------------------
(* Properties *)

\* What `inspect` says of the module that is used.
CachedModuleStatus(contents) ==
  IF active = NoKey THEN "none"
  ELSE IF artifact[active].module = Missing THEN "missing"
  ELSE IF artifact[active].manifest = Missing THEN "unverified"
  ELSE IF artifact[active].manifest = contents THEN "current"
  ELSE "stale"

\* A module in the cache is whole, made by the tools and of the DOL its directory is
\* named after, whatever was built, patched or cut off before, unless the DOL was
\* exchanged, or a file cut off, in a build of the same name; the module that is
\* used is there, and `inspect` calls it current only for the DOL of its name.
CacheIsKeyed ==
  /\ \A k \in Keys \ tainted :
       artifact[k].module \in {Missing, [code |-> k.dol, beside |-> k.dol, tools |-> k.tools]}
  /\ active # NoKey => artifact[active].module # Missing
  /\ \A contents \in Dols : CachedModuleStatus(contents) = "current" => active.dol = contents
=============================================================================
