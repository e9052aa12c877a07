----------------------------- MODULE ModLoader ------------------------------
(***************************************************************************)
(* ModManager's Load and Unload.  Load unloads what was there, registers   *)
(* the sources, orders them by their dependencies with a queue of those    *)
(* that are ready, collects exports and events, links imports, patches,    *)
(* hooks and callbacks, and calls on_load; the first phase that has an     *)
(* issue unloads everything again.  Unload calls on_unload backwards, then *)
(* clears.  LoadDirectories is Load with the files of some directories in  *)
(* the order of their paths; when it cannot look through them, nothing     *)
(* happens to what is loaded.                                              *)
(*                                                                         *)
(* A mod has at most one export, one event, one patch and one return hook, *)
(* the last two at addresses that all mods share.                          *)
(***************************************************************************)
EXTENDS Naturals, FiniteSets, Sequences

CONSTANTS
  Ids,    \* the mods there may be, and be named by a dependency
  Inputs  \* the arguments of Load: functions from some of Ids to descriptors

Host == 0  \* "*", the provider of runtime_start

ASSUME IdsAssumption == Ids \subseteq Nat \ {Host}

Arrays == {"dependencies", "exports", "events", "imports", "patches", "hooks", "callbacks"}

ModDescriptor == [
  path      : Nat \X Nat,  \* its directory and its file there, by their names
  valid     : BOOLEAN,     \* its library and descriptor pass the first checks, its id is new
  invalid   : SUBSET Arrays, \* those with an entry that is invalid or twice there
  deps      : SUBSET Ids,
  optional  : SUBSET Ids,  \* the dependencies that may be absent
  old       : SUBSET Ids,  \* those it wants in a version newer than there is
  export    : BOOLEAN,
  imports   : SUBSET Ids,  \* the providers it imports the export of
  event     : BOOLEAN,
  callbacks : SUBSET (Ids \cup {Host}), \* the providers it wants the event of
  hook      : BOOLEAN,
  patch     : {"none", "normal", "force"}]

ASSUME InputsAssumption ==
  \A input \in Inputs :
    /\ DOMAIN input \subseteq Ids /\ IsFiniteSet(DOMAIN input)
    /\ \A id \in DOMAIN input : input[id] \in ModDescriptor

VARIABLES
  phase,     \* "idle", or what Load or Unload is doing
  byPath,    \* it is LoadDirectories that loads
  sources,   \* the mods in the order Load is given them
  descs,     \* their descriptors
  mods,      \* m_impl->mods, by identifier
  indegree, ready, order,  \* the locals of the ordering
  cursor,    \* how far the loop over mods of this phase has come
  issues,    \* report.issues is not empty
  after,     \* what follows the Unload under way
  loaded,    \* the mods whose loaded flag is set
  exports,   \* the mods whose export is in m_impl->exports
  patched,   \* the mod whose patch is installed, if any
  hooks,     \* the mods with a return hook in m_impl->hooks
  callbacks, \* m_impl->callbacks: pairs of provider and subscriber
  tracked,   \* m_impl->import_slots: pairs of importer and provider
  slots,     \* the importers' memory: the slots that hold a function
  pending,   \* the mods with a function in m_impl->pending_returns
  started    \* m_impl->runtime_started

sourceVars == <<byPath, sources, descs>>
orderVars == <<indegree, ready, order>>
linkVars == <<exports, patched, hooks, callbacks, tracked, slots>>
guestVars == <<pending, started>>
loaderVars == <<phase, sourceVars, mods, orderVars, cursor, issues, after,
          loaded, linkVars, guestVars>>

Present == DOMAIN descs

(* std::filesystem::path compares directory before file.                   *)
PathBefore(p, q) == p[1] < q[1] \/ (p[1] = q[1] /\ p[2] < q[2])

Arrangements(S) ==
  {list \in [1 .. Cardinality(S) -> S] : \A i, j \in DOMAIN list : list[i] = list[j] => i = j}

(* A plausible bug: the files as the directory yields them.                *)
DiscoverUnsorted(input) == Arrangements(DOMAIN input)

DiscoverModSources(input) ==
  {list \in Arrangements(DOMAIN input) :
     \A i, j \in DOMAIN list : i < j => PathBefore(input[list[i]].path, input[list[j]].path)}

Place(list, m) == CHOOSE i \in DOMAIN list : list[i] = m
InPlaces(list, S) ==
  [i \in 1 .. Cardinality(S) |->
     CHOOSE m \in S : Cardinality({n \in S : Place(list, n) < Place(list, m)}) = i - 1]
First(S) == CHOOSE m \in S : \A n \in S : Place(sources, m) <= Place(sources, n)

LoaderInit ==
  /\ phase = "idle" /\ byPath = FALSE /\ sources = <<>> /\ descs = <<>> /\ mods = <<>>
  /\ indegree = <<>> /\ ready = {} /\ order = <<>> /\ cursor = 0
  /\ issues = FALSE /\ after = "idle"
  /\ loaded = {} /\ exports = {} /\ patched = {} /\ hooks = {} /\ callbacks = {}
  /\ tracked = {} /\ slots = {} /\ pending = {} /\ started = FALSE

-----------------------------------------------------------------------------
(* Unload, as it is called by a client, by Load and by a Load that fails.  *)
UnloadThen(next, what) ==
  /\ phase' = "unload" /\ after' = next /\ cursor' = Len(what)

(* A plausible bug: first loaded, first unloaded.                          *)
OnUnloadForwards ==
  /\ phase = "unload" /\ cursor > 0
  /\ loaded' = loaded \ {mods[Len(mods) + 1 - cursor]}
  /\ cursor' = cursor - 1
  /\ UNCHANGED <<phase, sourceVars, mods, orderVars, issues, after, linkVars, guestVars>>

OnUnload ==
  /\ phase = "unload" /\ cursor > 0
  /\ loaded' = loaded \ {mods[cursor]}
  /\ cursor' = cursor - 1
  /\ UNCHANGED <<phase, sourceVars, mods, orderVars, issues, after, linkVars, guestVars>>

(* What every variant of the clearing does.                                *)
ForgetMods ==
  /\ phase = "unload" /\ cursor = 0
  /\ phase' = after /\ after' = "idle"
  /\ mods' = <<>> /\ sources' = <<>> /\ descs' = <<>>
  /\ indegree' = <<>> /\ ready' = {} /\ order' = <<>>
  /\ exports' = {} /\ patched' = {} /\ callbacks' = {} /\ tracked' = {}
  /\ UNCHANGED <<byPath, cursor, issues, loaded>>

(* A plausible bug: the importers keep their pointers.                     *)
ClearKeepingSlots ==
  ForgetMods /\ hooks' = {} /\ pending' = {} /\ started' = FALSE /\ UNCHANGED slots

(* A plausible bug: what the guest has entered still returns to the mods.  *)
ClearKeepingReturns ==
  ForgetMods /\ hooks' = {} /\ slots' = slots \ tracked /\ UNCHANGED guestVars

ClearMods ==
  /\ ForgetMods
  /\ slots' = slots \ tracked
  /\ hooks' = {} /\ pending' = {} /\ started' = FALSE

Unload ==
  /\ phase = "idle"
  /\ UnloadThen("idle", mods)
  /\ issues' = FALSE  \* no report is under way
  /\ byPath' = FALSE
  /\ UNCHANGED <<sources, descs, mods, orderVars, loaded, linkVars, guestVars>>

Reject(what) == issues' = TRUE /\ UnloadThen("idle", what)

-----------------------------------------------------------------------------
(* Load looks at its sources only once it has unloaded.                    *)
LoadFrom(directories) ==
  /\ phase = "idle"
  /\ UnloadThen("register", mods)
  /\ issues' = FALSE
  /\ byPath' = directories
  /\ UNCHANGED <<sources, descs, mods, orderVars, loaded, linkVars, guestVars>>

Load == LoadFrom(FALSE)
LoadDirectories == LoadFrom(TRUE)

RegisterMods ==
  /\ phase = "register"
  /\ \E input \in Inputs :
     \E list \in IF byPath THEN DiscoverModSources(input) ELSE Arrangements(DOMAIN input) :
       /\ descs' = input /\ sources' = list
       /\ mods' = InPlaces(list, {m \in DOMAIN input : input[m].valid})
       /\ IF \A m \in DOMAIN input : input[m].valid
            THEN phase' = "resolve" /\ UNCHANGED <<issues, cursor, after>>
            ELSE Reject(mods')
  /\ UNCHANGED <<byPath, orderVars, loaded, linkVars, guestVars>>

DependencyIssue(m) ==
  \/ "dependencies" \in descs[m].invalid
  \/ \E d \in descs[m].deps : IF d \in Present THEN d \in descs[m].old ELSE d \notin descs[m].optional

EdgesInto(m) == descs[m].deps \cap Present

ResolveDependencies ==
  /\ phase = "resolve"
  /\ IF \E m \in Present : DependencyIssue(m)
       THEN Reject(mods) /\ UNCHANGED orderVars
       ELSE /\ phase' = "order"
            /\ indegree' = [m \in Present |-> Cardinality(EdgesInto(m))]
            /\ ready' = {m \in Present : EdgesInto(m) = {}}
            /\ order' = <<>>
            /\ UNCHANGED <<issues, cursor, after>>
  /\ UNCHANGED <<sourceVars, mods, loaded, linkVars, guestVars>>

(* A plausible bug: a dependent is ready with its first dependency.        *)
PopReadyEarly ==
  /\ phase = "order" /\ ready # {}
  /\ LET m == First(ready)
         dependents == {n \in Present : m \in EdgesInto(n)}
     IN /\ order' = Append(order, m)
        /\ indegree' = [n \in Present |-> IF n \in dependents THEN 0 ELSE indegree[n]]
        /\ ready' = (ready \ {m}) \cup {n \in dependents : indegree[n] # 0}
  /\ UNCHANGED <<phase, sourceVars, mods, cursor, issues, after, loaded, linkVars, guestVars>>

(* A plausible bug: the last of the mods that are ready.                   *)
PopReadyUnordered ==
  /\ phase = "order" /\ ready # {}
  /\ LET m == CHOOSE i \in ready : \A j \in ready : Place(sources, j) <= Place(sources, i)
         dependents == {n \in Present : m \in EdgesInto(n)}
     IN /\ order' = Append(order, m)
        /\ indegree' = [n \in Present |-> indegree[n] - (IF n \in dependents THEN 1 ELSE 0)]
        /\ ready' = (ready \ {m}) \cup {n \in dependents : indegree'[n] = 0}
  /\ UNCHANGED <<phase, sourceVars, mods, cursor, issues, after, loaded, linkVars, guestVars>>

PopReady ==
  /\ phase = "order" /\ ready # {}
  /\ LET m == First(ready)
         dependents == {n \in Present : m \in EdgesInto(n)}
     IN /\ order' = Append(order, m)
        /\ indegree' = [n \in Present |-> indegree[n] - (IF n \in dependents THEN 1 ELSE 0)]
        /\ ready' = (ready \ {m}) \cup {n \in dependents : indegree'[n] = 0}
  /\ UNCHANGED <<phase, sourceVars, mods, cursor, issues, after, loaded, linkVars, guestVars>>

(* Exports and events of all mods are collected before the first is linked.*)
Exporters == {m \in Present : descs[m].export}
(* A plausible bug: an export that is there twice is skipped in silence.   *)
TableIssueOfEvents == \E m \in Present : "events" \in descs[m].invalid
TableIssue == \E m \in Present : descs[m].invalid \cap {"exports", "events"} # {}

OrderDone ==
  /\ phase = "order" /\ ready = {}
  /\ IF Len(order) # Len(mods)
       THEN Reject(mods) /\ UNCHANGED <<mods, exports>>
       ELSE /\ phase' = "link" /\ mods' = order /\ cursor' = 1
            /\ exports' = Exporters /\ issues' = TableIssue
            /\ UNCHANGED after
  /\ UNCHANGED <<sourceVars, orderVars, loaded, patched, hooks, callbacks, tracked, slots, guestVars>>

-----------------------------------------------------------------------------
ImportIssue(m, known) ==
  \/ "imports" \in descs[m].invalid
  \/ \E p \in descs[m].imports : p \notin descs[m].deps \/ p \in Present \ known

PatchConflict(m) == descs[m].patch = "normal" /\ patched # {}
PatchIssue(m) == "patches" \in descs[m].invalid \/ PatchConflict(m)

HookIssue(m) == "hooks" \in descs[m].invalid

(* The mod itself and the host need not be declared, "*" always has its    *)
(* event, and what has been found is subscribed to, whatever else failed.  *)
Subscribable(m) == {Host} \cup {p \in (descs[m].deps \cup {m}) \cap Present : descs[p].event}
CallbackIssue(m) ==
  \/ "callbacks" \in descs[m].invalid
  \/ ~(descs[m].callbacks \subseteq Subscribable(m))

Link ==
  /\ phase = "link" /\ cursor <= Len(mods)
  /\ LET m == mods[cursor]
         declared == descs[m].imports \cap descs[m].deps
         bound == declared \cap Present \cap exports
     IN /\ tracked' = tracked \cup ({m} \X declared)
        /\ slots' = (slots \ ({m} \X (declared \ Present))) \cup ({m} \X bound)
        /\ patched' = IF descs[m].patch = "none" \/ PatchConflict(m) THEN patched ELSE {m}
        /\ hooks' = IF descs[m].hook THEN hooks \cup {m} ELSE hooks
        /\ callbacks' = callbacks \cup {<<p, m>> : p \in descs[m].callbacks \cap Subscribable(m)}
        /\ issues' = (issues \/ ImportIssue(m, exports) \/ PatchIssue(m) \/ HookIssue(m) \/ CallbackIssue(m))
  /\ cursor' = cursor + 1
  /\ UNCHANGED <<phase, sourceVars, mods, orderVars, after, loaded, exports, guestVars>>

LinkDone ==
  /\ phase = "link" /\ cursor > Len(mods)
  /\ IF issues THEN Reject(mods)
     ELSE phase' = "onload" /\ cursor' = 1 /\ UNCHANGED <<issues, after>>
  /\ UNCHANGED <<sourceVars, mods, orderVars, loaded, linkVars, guestVars>>

OnLoad ==
  /\ phase = "onload" /\ cursor <= Len(mods)
  /\ loaded' = loaded \cup {mods[cursor]}
  /\ cursor' = cursor + 1
  /\ UNCHANGED <<phase, sourceVars, mods, orderVars, issues, after, linkVars, guestVars>>

LoadReturns ==
  /\ phase = "onload" /\ cursor > Len(mods)
  /\ phase' = "idle" /\ cursor' = 0
  /\ UNCHANGED <<sourceVars, mods, orderVars, issues, after, loaded, linkVars, guestVars>>

(* Dispatch as far as Unload undoes it: a guest that enters the hooked     *)
(* address leaves the return hooks waiting, one that returns uses them up. *)
Dispatch ==
  /\ phase = "idle"
  /\ started' = TRUE
  /\ pending' \in {pending, pending \cup hooks, {}}
  /\ UNCHANGED <<phase, sourceVars, mods, orderVars, cursor, issues, after, loaded, linkVars>>

LoaderNext ==
  \/ Load \/ LoadDirectories \/ Unload \/ Dispatch
  \/ RegisterMods \/ ResolveDependencies \/ PopReady \/ OrderDone
  \/ Link \/ LinkDone \/ OnLoad \/ LoadReturns
  \/ OnUnload \/ ClearMods

LoaderSpec == LoaderInit /\ [][LoaderNext]_loaderVars

-----------------------------------------------------------------------------
(* From its on_load to its on_unload a mod finds its dependencies loaded.  *)
DependenciesAreLoaded ==
  \A m \in loaded : EdgesInto(m) \subseteq loaded

(* A load that reports an issue, and an Unload, leave no mod, no export, no*)
(* patch, no hook, no subscription, no pointer into a mod and no return    *)
(* hook behind that waits for the guest; nor does a Load inherit any, and  *)
(* its mods will be told of the start of the runtime.                      *)
NothingIsLeftBehind ==
  /\ phase = "register" \/ (phase = "idle" /\ mods = <<>>) =>
       loaded \cup exports \cup patched \cup hooks \cup callbacks \cup tracked \cup slots \cup pending = {}
  /\ phase \notin {"idle", "unload"} => ~started

(* "Mods are ordered by dependencies and then package filename"            *)
(* (mod-template/README.md:18), as far as the code makes it so: at each    *)
(* place stands, of the mods whose dependencies come before it, the first  *)
(* by its whole path when directories are loaded, so by its file name only *)
(* among those of one directory, and else the first in the caller's list.  *)
ComesBefore(m, n) ==
  IF byPath THEN PathBefore(descs[m].path, descs[n].path)
            ELSE Place(sources, m) < Place(sources, n)

OrderedByDependenciesThenPath ==
  phase = "onload" =>
    \A i \in 1 .. Len(mods) :
      LET earlier == {mods[j] : j \in 1 .. i - 1}
          free == {m \in Present \ earlier : EdgesInto(m) \subseteq earlier}
      IN mods[i] \in free /\ \A m \in free \ {mods[i]} : ComesBefore(mods[i], m)

(* No group of mods in which each waits for another of the group.          *)
Acyclic ==
  \A S \in (SUBSET Present) \ {{}} : \E m \in S : EdgesInto(m) \cap S = {}

PatchersBefore(i) == {mods[j] : j \in {j \in 1 .. i - 1 : descs[mods[j]].patch # "none"}}

Loadable ==
  /\ \A m \in Present : descs[m].valid /\ descs[m].invalid = {} /\ ~DependencyIssue(m)
  /\ Acyclic
  /\ \A m \in Present : ~ImportIssue(m, Exporters) /\ ~CallbackIssue(m)
  /\ \A i \in 1 .. Len(mods) : descs[mods[i]].patch = "normal" => PatchersBefore(i) = {}

(* Load rejects what cannot be loaded, and only that: the queue leaves a   *)
(* mod over exactly when there is a cycle, the patches conflict exactly    *)
(* when an unforced one comes after another, and an entry that is invalid  *)
(* or twice there, in any array and skipped in its phase, is not forgotten.*)
AcceptsExactlyLoadable ==
  /\ phase = "onload" => Loadable
  /\ phase = "unload" /\ issues => ~Loadable
=============================================================================
