--------------------------- MODULE GameSetupProofs ---------------------------
(* What is put in place before a guest runs, for any mods and whatever they *)
(* ask of each other, any module, and every width of an address: the order  *)
(* and the links of the mods, the tables of a module, the ranges of the bus.*)
EXTENDS GameSetup, FiniteSetTheorems, SequenceTheorems, WellFoundedInduction, TLAPS

-----------------------------------------------------------------------------
(* The mods.                                                                *)
Earlier(list, i) == {list[j] : j \in 1 .. i - 1}
Members(list) == Earlier(list, Len(list) + 1)
Free(placed) == {m \in Present \ placed : EdgesInto(m) \subseteq placed}

(* Each mod of a list stands where the order wants it, after its            *)
(* dependencies.                                                            *)
Placed(list) ==
  /\ list \in Seq(Present)
  /\ \A i \in 1 .. Len(list) :
       list[i] \in Free(Earlier(list, i)) /\ list[i] = First(Free(Earlier(list, i)))

Phases == {"idle", "unload", "register", "resolve", "order", "link", "onload"}

LoaderTypeOK ==
  /\ phase \in Phases /\ after \in {"idle", "register"} /\ issues \in BOOLEAN /\ byPath \in BOOLEAN
  /\ descs \in Inputs \cup {<<>>}
  /\ Len(mods) \in Nat /\ DOMAIN mods = 1 .. Len(mods)
  /\ cursor \in Nat

(* Every mod has its place among the sources, which LoadDirectories sorted. *)
Sourced ==
  /\ sources \in Seq(Present)
  /\ \A m \in Present : \E i \in DOMAIN sources : sources[i] = m
  /\ byPath /\ phase # "unload" =>
       \A i, j \in DOMAIN sources : i < j => PathBefore(descs[sources[i]].path, descs[sources[j]].path)

(* The queue of the ordering holds what is free of dependencies not placed. *)
Ordering ==
  phase = "order" =>
    /\ Placed(order)
    /\ ready = Free(Members(order))
    /\ \A m \in Present : indegree[m] = Cardinality(EdgesInto(m) \ Members(order))

InOrder == Placed(mods) /\ Members(mods) = Present

(* Before the links there is nothing loaded and nothing linked; afterwards  *)
(* the mods are ordered, and those up to the cursor are loaded.             *)
Loading ==
  /\ phase \in {"register", "resolve", "order"} =>
       loaded \cup patched \cup hooks \cup callbacks \cup tracked \cup slots \cup exports = {}
  /\ phase = "register" => mods = <<>>
  /\ phase = "link" => InOrder /\ loaded = {} /\ cursor \in 1 .. Len(mods) + 1
  /\ phase = "onload" => InOrder /\ loaded = Earlier(mods, cursor) /\ cursor \in 1 .. Len(mods) + 1
  /\ phase = "idle" => InOrder /\ loaded = Members(mods)
  /\ phase = "unload" =>
       /\ cursor <= Len(mods)
       /\ loaded = {} \/ (InOrder /\ loaded = Earlier(mods, cursor + 1))

LinksAreOfMods ==
  /\ patched \cup hooks \cup exports \cup pending \subseteq Members(mods)
  /\ pending \subseteq hooks
  /\ \A link \in callbacks : link[2] \in Members(mods)
  /\ \A slot \in tracked : slot[1] \in Members(mods)
  /\ slots \subseteq tracked
  /\ phase \notin {"idle", "unload"} => pending = {} /\ ~started

(* What the phases so far have found.                                       *)
Unforced(i) == descs[mods[i]].patch = "normal" /\ PatchersBefore(i) # {}
LinkIssue(m) ==
  \/ ImportIssue(m, Exporters) \/ CallbackIssue(m) \/ HookIssue(m)
  \/ "patches" \in descs[m].invalid
IssueBefore(n) ==
  \/ TableIssue
  \/ \E i \in 1 .. n - 1 : LinkIssue(mods[i]) \/ Unforced(i)

Judging ==
  /\ phase \in {"register", "resolve", "order"} => ~issues
  /\ phase \in {"resolve", "order"} => Len(mods) = Cardinality(Present)
  /\ phase \in {"resolve", "order", "link", "onload"} => \A m \in Present : descs[m].valid
  /\ phase \in {"order", "link", "onload"} => \A m \in Present : ~DependencyIssue(m)
  /\ phase = "link" => /\ exports = Exporters
                       /\ issues <=> IssueBefore(cursor)
                       /\ patched = {} <=> PatchersBefore(cursor) = {}
  /\ phase = "onload" => ~IssueBefore(Len(mods) + 1)
  /\ phase = "unload" /\ after = "register" => ~issues
  /\ phase = "unload" /\ issues => ~Loadable

LoaderInv == LoaderTypeOK /\ Sourced /\ Ordering /\ Loading /\ LinksAreOfMods /\ Judging

-----------------------------------------------------------------------------
LEMMA LeastNatural ==
  ASSUME NEW S, S \subseteq Nat, S # {}
  PROVE  \E i \in S : \A j \in S : i <= j
<1> DEFINE less == {pair \in Nat \X Nat : pair[1] < pair[2]}
<1>1. IsWellFoundedOn(less, Nat)
  BY NatLessThanWellFounded DEF OpToRel
<1> HIDE DEF less
<1>2. PICK i \in S : \A j \in S : <<j, i>> \notin less
  BY <1>1, WFMin
<1>3. \A j \in S : ~(j < i)
  BY <1>2 DEF less
<1>4. QED
  BY <1>3

LEMMA PlacesTell ==
  ASSUME Sourced, NEW m \in Present
  PROVE  Place(sources, m) \in 1 .. Len(sources) /\ sources[Place(sources, m)] = m
<1>1. \E i \in DOMAIN sources : sources[i] = m
  BY DEF Sourced
<1>2. Place(sources, m) \in DOMAIN sources /\ sources[Place(sources, m)] = m
  BY <1>1 DEF Place
<1>3. DOMAIN sources = 1 .. Len(sources)
  BY DEF Sourced
<1>4. QED
  BY <1>2, <1>3

LEMMA FirstIsIn ==
  ASSUME Sourced, NEW S, S \subseteq Present, S # {}
  PROVE  /\ First(S) \in S
         /\ \A n \in S \ {First(S)} : Place(sources, First(S)) < Place(sources, n)
<1> DEFINE places == {Place(sources, m) : m \in S}
<1>1. \A m \in S : Place(sources, m) \in Nat /\ sources[Place(sources, m)] = m
  <2>1. \A m \in S : Place(sources, m) \in 1 .. Len(sources) /\ sources[Place(sources, m)] = m
    BY PlacesTell
  <2>2. QED
    BY <2>1
<1>2. PICK i \in places : \A j \in places : i <= j
  <2>1. places \subseteq Nat /\ places # {}
    BY <1>1
  <2> HIDE DEF places
  <2>2. QED
    BY <2>1, LeastNatural
<1>3. \E m \in S : \A n \in S : Place(sources, m) <= Place(sources, n)
  BY <1>2
<1>4. First(S) \in S /\ \A n \in S : Place(sources, First(S)) <= Place(sources, n)
  BY <1>3 DEF First
<1>5. \A n \in S \ {First(S)} : Place(sources, First(S)) # Place(sources, n)
  BY <1>1, <1>4
<1>6. QED
  <2> SUFFICES ASSUME NEW n \in S \ {First(S)} PROVE Place(sources, First(S)) < Place(sources, n)
    BY <1>4
  <2>1. Place(sources, First(S)) \in Nat /\ Place(sources, n) \in Nat
    BY <1>1, <1>4
  <2>2. QED
    BY <1>4, <1>5, <2>1

LEMMA DescriptorsTyped ==
  ASSUME LoaderTypeOK
  PROVE  /\ Present \subseteq Nat /\ IsFiniteSet(Present)
         /\ \A m \in Present : descs[m] \in ModDescriptor
<1>1. CASE descs = <<>>
  <2>1. Present = {}
    BY <1>1 DEF Present
  <2>2. QED
    BY <2>1, FS_EmptySet
<1>2. CASE descs \in Inputs
  BY <1>2, InputsAssumption, IdsAssumption DEF Present
<1>3. QED
  BY <1>1, <1>2 DEF LoaderTypeOK

-----------------------------------------------------------------------------
(* Lists in which each mod stands at its place.                             *)
LEMMA EarlierGrows ==
  ASSUME NEW list, NEW i \in Nat
  PROVE  /\ Earlier(list, 1) = {}
         /\ i >= 1 => Earlier(list, i + 1) = Earlier(list, i) \cup {list[i]}
BY DEF Earlier

LEMMA MembersOfPlaced ==
  ASSUME NEW list, Placed(list)
  PROVE  /\ \A i, j \in 1 .. Len(list) : list[i] = list[j] => i = j
         /\ \A i \in 1 .. Len(list) : EdgesInto(list[i]) \subseteq Earlier(list, i)
         /\ Members(list) \subseteq Present
         /\ IsFiniteSet(Members(list)) /\ Cardinality(Members(list)) = Len(list)
<1>1. list \in Seq(Present) /\ Len(list) \in Nat
  BY DEF Placed
<1>2. \A i \in 1 .. Len(list) :
        list[i] \in Present /\ list[i] \notin Earlier(list, i) /\ EdgesInto(list[i]) \subseteq Earlier(list, i)
  BY DEF Placed, Free
<1>3. \A i, j \in 1 .. Len(list) : list[i] = list[j] => i = j
  <2> SUFFICES ASSUME NEW i \in 1 .. Len(list), NEW j \in 1 .. Len(list), i < j, list[i] = list[j]
               PROVE  FALSE
    BY <1>1
  <2>1. list[i] \in Earlier(list, j)
    BY <1>1 DEF Earlier
  <2>2. QED
    BY <1>2, <2>1
<1>4. Members(list) = {list[i] : i \in 1 .. Len(list)}
  BY <1>1 DEF Members, Earlier
<1>5. list \in Bijection(1 .. Len(list), Members(list))
  <2>1. list \in [1 .. Len(list) -> Members(list)]
    BY <1>1, <1>4
  <2>2. QED
    BY <1>3, <1>4, <2>1 DEF Bijection, Injection, Surjection, IsInjective
<1>6. IsFiniteSet(Members(list)) /\ Cardinality(Members(list)) = Len(list)
  <2>1. ExistsBijection(1 .. Len(list), Members(list))
    BY <1>5 DEF ExistsBijection
  <2>2. QED
    BY <1>1, <2>1, FS_NatBijection, FS_CountingElements
<1>7. Members(list) \subseteq Present
  BY <1>2, <1>4
<1>8. QED
  BY <1>2, <1>3, <1>6, <1>7

LEMMA PlacedAppend ==
  ASSUME NEW list, Placed(list), NEW m, m \in Free(Members(list)), m = First(Free(Members(list)))
  PROVE  Placed(Append(list, m)) /\ Members(Append(list, m)) = Members(list) \cup {m}
<1> DEFINE longer == Append(list, m)
<1>1. list \in Seq(Present) /\ Len(list) \in Nat /\ m \in Present
  BY DEF Placed, Free
<1>2. /\ longer \in Seq(Present) /\ Len(longer) = Len(list) + 1
      /\ \A i \in 1 .. Len(list) : longer[i] = list[i]
      /\ longer[Len(list) + 1] = m
  BY <1>1
<1> HIDE DEF longer
<1>3. \A i \in 1 .. Len(list) + 1 : Earlier(longer, i) = Earlier(list, i)
  <2> SUFFICES ASSUME NEW i \in 1 .. Len(list) + 1 PROVE Earlier(longer, i) = Earlier(list, i)
    OBVIOUS
  <2>1. \A j \in 1 .. i - 1 : longer[j] = list[j]
    BY <1>1, <1>2
  <2>2. QED
    BY <2>1 DEF Earlier
<1>4. Placed(longer)
  <2> SUFFICES ASSUME NEW i \in 1 .. Len(longer)
               PROVE  /\ longer[i] \in Free(Earlier(longer, i))
                      /\ longer[i] = First(Free(Earlier(longer, i)))
    BY <1>2 DEF Placed
  <2>1. CASE i = Len(list) + 1
    BY <1>1, <1>2, <1>3, <2>1 DEF Members
  <2>2. CASE i \in 1 .. Len(list)
    BY <1>2, <1>3, <2>2 DEF Placed
  <2>3. QED
    BY <1>1, <1>2, <2>1, <2>2
<1>5. Members(longer) = Members(list) \cup {m}
  <2>1. Len(list) + 1 \in 1 .. Len(list) + 1 /\ Len(list) + 1 \in Nat /\ Len(list) + 1 >= 1
    BY <1>1
  <2>2. Earlier(longer, Len(list) + 1 + 1) = Earlier(longer, Len(list) + 1) \cup {longer[Len(list) + 1]}
    BY <2>1, EarlierGrows
  <2>3. QED
    BY <1>2, <1>3, <2>1, <2>2 DEF Members
<1>6. QED
  BY <1>4, <1>5 DEF longer

(* An order of all mods refutes every cycle, and when none is free although *)
(* some are left, those that are left are a cycle.                          *)
LEMMA OrderRefutesCycles ==
  ASSUME LoaderTypeOK, InOrder PROVE Acyclic
<1> SUFFICES ASSUME NEW S \in (SUBSET Present) \ {{}} PROVE \E m \in S : EdgesInto(m) \cap S = {}
  BY DEF Acyclic
<1> DEFINE places == {i \in 1 .. Len(mods) : mods[i] \in S}
<1>1. Members(mods) = {mods[i] : i \in 1 .. Len(mods)}
  BY DEF Members, Earlier, LoaderTypeOK
<1>2. PICK i \in places : \A j \in places : i <= j
  <2>0. S # {} /\ S \subseteq Present
    OBVIOUS
  <2>1. PICK m \in S : m \in Members(mods)
    BY <2>0 DEF InOrder
  <2>2. places # {}
    BY <1>1, <2>1
  <2>3. places \subseteq Nat
    BY DEF LoaderTypeOK
  <2>4. QED
    BY <2>2, <2>3, LeastNatural
<1>3. Earlier(mods, i) \cap S = {}
  BY <1>2 DEF Earlier, LoaderTypeOK
<1>4. EdgesInto(mods[i]) \subseteq Earlier(mods, i)
  BY <1>2, MembersOfPlaced DEF InOrder
<1>5. QED
  BY <1>2, <1>3, <1>4

LEMMA NothingFreeIsACycle ==
  ASSUME NEW placed, placed \subseteq Present, placed # Present, Free(placed) = {}
  PROVE  ~Acyclic
<1> DEFINE left == Present \ placed
<1>1. left \in (SUBSET Present) \ {{}}
  <2>1. \E m \in Present : m \notin placed
    OBVIOUS
  <2>2. QED
    BY <2>1
<1>2. \A m \in left : EdgesInto(m) \cap left # {}
  BY DEF Free, EdgesInto
<1>3. QED
  BY <1>1, <1>2 DEF Acyclic

-----------------------------------------------------------------------------
(* What is said of the descriptors and the list of mods stays true while    *)
(* neither changes.                                                         *)
LEMMA SameMods ==
  ASSUME UNCHANGED <<sources, descs, mods>>
  PROVE  /\ Present' = Present /\ Members(mods)' = Members(mods)
         /\ \A i : Earlier(mods, i)' = Earlier(mods, i)
         /\ InOrder' <=> InOrder
         /\ \A placed : Free(placed)' = Free(placed)
         /\ \A list : Placed(list)' <=> Placed(list)
         /\ \A n : PatchersBefore(n)' = PatchersBefore(n)
         /\ Exporters' = Exporters
         /\ \A n : IssueBefore(n)' <=> IssueBefore(n)
         /\ \A m : DependencyIssue(m)' <=> DependencyIssue(m)
         /\ \A m : EdgesInto(m)' = EdgesInto(m)
         /\ Loadable' <=> Loadable
<1>1. Present' = Present /\ Members(mods)' = Members(mods)
      /\ \A i : Earlier(mods, i)' = Earlier(mods, i)
  BY DEF Present, Members, Earlier
<1>2. \A m : EdgesInto(m)' = EdgesInto(m)
  BY <1>1 DEF EdgesInto
<1>3. \A placed : Free(placed)' = Free(placed)
  BY <1>1, <1>2 DEF Free
<1>4. \A list : Placed(list)' <=> Placed(list)
  <2>1. \A S : First(S)' = First(S)
    BY DEF First
  <2>2. QED
    BY <1>1, <1>3, <2>1 DEF Placed
<1>5. InOrder' <=> InOrder
  BY <1>1, <1>4 DEF InOrder
<1>6. \A n : PatchersBefore(n)' = PatchersBefore(n)
  BY DEF PatchersBefore
<1>7. /\ Exporters' = Exporters /\ (TableIssue' <=> TableIssue)
      /\ \A m : /\ ImportIssue(m, Exporters)' <=> ImportIssue(m, Exporters)
                /\ CallbackIssue(m)' <=> CallbackIssue(m)
                /\ DependencyIssue(m)' <=> DependencyIssue(m)
                /\ HookIssue(m)' <=> HookIssue(m)
  BY <1>1 DEF Exporters, TableIssue, ImportIssue, CallbackIssue, Subscribable, DependencyIssue, HookIssue
<1>8. \A n : IssueBefore(n)' <=> IssueBefore(n)
  <2>1. \A m : LinkIssue(m)' <=> LinkIssue(m)
    BY <1>7 DEF LinkIssue
  <2>2. QED
    BY <1>6, <1>7, <2>1 DEF IssueBefore, Unforced
<1>9. Acyclic' <=> Acyclic
  BY <1>1, <1>2 DEF Acyclic
<1>10. Loadable' <=> Loadable
  BY <1>1, <1>6, <1>7, <1>9 DEF Loadable
<1>11. QED
  BY <1>1, <1>2, <1>3, <1>4, <1>5, <1>6, <1>7, <1>8, <1>10

LEMMA SameSources ==
  ASSUME Sourced, UNCHANGED <<sources, descs, byPath>>, phase # "unload" \/ phase' = "unload"
  PROVE  Sourced'
BY DEF Sourced, Present

-----------------------------------------------------------------------------
LEMMA LoaderStarts == LoaderInit => LoaderInv
<1> SUFFICES ASSUME LoaderInit PROVE LoaderInv
  OBVIOUS
<1> USE DEF LoaderInit
<1>1. LoaderTypeOK
  <2>1. Len(mods) = 0 /\ DOMAIN mods = {} /\ 1 .. 0 = {}
    OBVIOUS
  <2>2. QED
    BY <2>1 DEF LoaderTypeOK, Phases
<1>2. InOrder /\ Members(mods) = {}
  <2>1. Members(mods) = {}
    BY DEF Members, Earlier
  <2>2. Present = {}
    BY DEF Present
  <2>3. Placed(mods)
    BY DEF Placed
  <2>4. QED
    BY <2>1, <2>2, <2>3 DEF InOrder
<1>3. Sourced /\ Ordering /\ Loading /\ LinksAreOfMods
  BY <1>2 DEF Sourced, Present, Ordering, Loading, LinksAreOfMods
<1>4. Judging
  BY DEF Judging
<1>5. QED
  BY <1>1, <1>3, <1>4 DEF LoaderInv

LEMMA UnloadingKeeps ==
  ASSUME LoaderInv, Load \/ LoadDirectories \/ Unload PROVE LoaderInv'
<1>1. /\ phase = "idle" /\ phase' = "unload" /\ after' \in {"idle", "register"}
      /\ cursor' = Len(mods) /\ issues' = FALSE /\ byPath' \in BOOLEAN
      /\ UNCHANGED <<sources, descs, mods, orderVars, loaded, linkVars, guestVars>>
  BY DEF Load, LoadDirectories, LoadFrom, Unload, UnloadThen
<1>2. LoaderTypeOK' /\ Sourced'
  BY <1>1 DEF LoaderInv, LoaderTypeOK, Phases, Sourced, Present
<1>3. Ordering' /\ LinksAreOfMods'
  BY <1>1, SameMods DEF LoaderInv, Ordering, LinksAreOfMods, linkVars, guestVars
<1>4. Loading'
  BY <1>1, SameMods DEF LoaderInv, LoaderTypeOK, Loading, Members
<1>5. Judging'
  BY <1>1 DEF Judging
<1>6. QED
  BY <1>2, <1>3, <1>4, <1>5 DEF LoaderInv

LEMMA DispatchKeeps ==
  ASSUME LoaderInv, Dispatch PROVE LoaderInv'
<1>1. /\ phase = "idle" /\ pending' \in {pending, pending \cup hooks, {}}
      /\ UNCHANGED <<phase, sourceVars, mods, orderVars, cursor, issues, after, loaded, linkVars>>
  BY DEF Dispatch
<1>2. LoaderTypeOK' /\ Sourced'
  BY <1>1, SameSources DEF LoaderInv, LoaderTypeOK, sourceVars
<1>3. Ordering' /\ Loading' /\ Judging'
  BY <1>1, SameMods DEF LoaderInv, Ordering, Loading, Judging, sourceVars
<1>4. LinksAreOfMods'
  BY <1>1, SameMods DEF LoaderInv, LinksAreOfMods, linkVars, sourceVars
<1>5. QED
  BY <1>2, <1>3, <1>4 DEF LoaderInv

LEMMA OnUnloadKeeps ==
  ASSUME LoaderInv, OnUnload PROVE LoaderInv'
<1>1. /\ phase = "unload" /\ cursor > 0 /\ cursor' = cursor - 1
      /\ loaded' = loaded \ {mods[cursor]}
      /\ UNCHANGED <<phase, sourceVars, mods, orderVars, issues, after, linkVars, guestVars>>
  BY DEF OnUnload
<1>2. cursor \in Nat /\ Len(mods) \in Nat /\ cursor <= Len(mods)
  BY <1>1 DEF LoaderInv, LoaderTypeOK, Loading
<1>3. LoaderTypeOK' /\ Sourced'
  BY <1>1, <1>2, SameSources DEF LoaderInv, LoaderTypeOK, sourceVars
<1>4. Ordering' /\ LinksAreOfMods'
  BY <1>1, SameMods DEF LoaderInv, Ordering, LinksAreOfMods, linkVars, guestVars, sourceVars
<1>5. Loading'
  <2>1. CASE loaded = {}
    BY <1>1, <1>2, <2>1 DEF Loading
  <2>2. CASE InOrder /\ loaded = Earlier(mods, cursor + 1)
    <3>1. Earlier(mods, cursor + 1) \ {mods[cursor]} = Earlier(mods, cursor)
      <4>1. \A j \in 1 .. cursor - 1 : mods[j] # mods[cursor]
        BY <1>1, <1>2, <2>2, MembersOfPlaced DEF InOrder
      <4>2. Earlier(mods, cursor + 1) = Earlier(mods, cursor) \cup {mods[cursor]}
        BY <1>1, <1>2, EarlierGrows
      <4>3. QED
        BY <4>1, <4>2 DEF Earlier
    <3>2. loaded' = Earlier(mods', cursor' + 1) /\ InOrder' /\ cursor' <= Len(mods')
      BY <1>1, <1>2, <2>2, <3>1, SameMods DEF sourceVars
    <3>3. QED
      BY <1>1, <3>2 DEF Loading
  <2>3. QED
    BY <1>1, <2>1, <2>2 DEF LoaderInv, Loading
<1>6. Judging'
  BY <1>1, SameMods DEF LoaderInv, Judging, sourceVars
<1>7. QED
  BY <1>3, <1>4, <1>5, <1>6 DEF LoaderInv

LEMMA ClearKeeps ==
  ASSUME LoaderInv, ClearMods PROVE LoaderInv'
<1>1. /\ phase = "unload" /\ cursor = 0 /\ phase' = after /\ after' = "idle"
      /\ slots' = slots \ tracked /\ sources' = <<>> /\ descs' = <<>> /\ mods' = <<>>
      /\ exports' = {} /\ patched' = {} /\ hooks' = {} /\ callbacks' = {} /\ tracked' = {}
      /\ pending' = {} /\ started' = FALSE
      /\ UNCHANGED <<byPath, cursor, issues, loaded>>
  BY DEF ClearMods, ForgetMods
<1>2. loaded = {} /\ slots' = {} /\ after \in {"idle", "register"}
  <2>1. Earlier(mods, 1) = {}
    BY EarlierGrows
  <2>2. QED
    BY <1>1, <2>1 DEF LoaderInv, Loading, LinksAreOfMods, LoaderTypeOK
<1>3. LoaderTypeOK' /\ Sourced'
  BY <1>1, <1>2 DEF LoaderInv, LoaderTypeOK, Phases, Sourced, Present
<1>4. InOrder' /\ Members(mods)' = {}
  <2>1. Members(mods)' = {}
    BY <1>1 DEF Members, Earlier
  <2>2. Present' = {}
    BY <1>1 DEF Present
  <2>3. Placed(mods)'
    BY <1>1 DEF Placed
  <2>4. QED
    BY <2>1, <2>2, <2>3 DEF InOrder
<1>5. Ordering' /\ Loading' /\ LinksAreOfMods'
  BY <1>1, <1>2, <1>4 DEF Ordering, Loading, LinksAreOfMods
<1>6. Judging'
  BY <1>1, <1>2 DEF LoaderInv, Judging
<1>7. QED
  BY <1>3, <1>5, <1>6 DEF LoaderInv

LEMMA RegisterKeeps ==
  ASSUME LoaderInv, RegisterMods PROVE LoaderInv'
<1>1. PICK input \in Inputs :
      \E list \in IF byPath THEN DiscoverModSources(input) ELSE Arrangements(DOMAIN input) :
        /\ descs' = input /\ sources' = list
        /\ mods' = InPlaces(list, {m \in DOMAIN input : input[m].valid})
        /\ IF \A m \in DOMAIN input : input[m].valid
             THEN phase' = "resolve" /\ UNCHANGED <<issues, cursor, after>>
             ELSE Reject(mods')
  BY DEF RegisterMods
<1> DEFINE valid == {m \in DOMAIN input : input[m].valid}
<1>2. /\ phase = "register" /\ UNCHANGED <<byPath, orderVars, loaded, linkVars, guestVars>>
      /\ loaded = {} /\ exports = {} /\ patched = {} /\ hooks = {} /\ callbacks = {} /\ tracked = {}
      /\ slots = {} /\ pending = {} /\ ~started /\ ~issues
  BY DEF RegisterMods, LoaderInv, Loading, LinksAreOfMods, Judging
<1>3. PICK list \in Arrangements(DOMAIN input) :
        /\ descs' = input /\ sources' = list /\ mods' = InPlaces(list, valid)
        /\ byPath => \A i, j \in DOMAIN list : i < j => PathBefore(input[list[i]].path, input[list[j]].path)
  BY <1>1 DEF DiscoverModSources
<1>4. /\ IsFiniteSet(DOMAIN input) /\ Cardinality(DOMAIN input) \in Nat
      /\ IsFiniteSet(valid) /\ Cardinality(valid) \in Nat
      /\ DOMAIN mods' = 1 .. Cardinality(valid) /\ Len(mods') = Cardinality(valid)
  <2>1. /\ IsFiniteSet(DOMAIN input) /\ Cardinality(DOMAIN input) \in Nat
        /\ IsFiniteSet(valid) /\ Cardinality(valid) \in Nat
    BY InputsAssumption, FS_Subset, FS_CardinalityType
  <2> HIDE DEF valid
  <2>2. DOMAIN mods' = 1 .. Cardinality(valid)
    BY <1>3 DEF InPlaces
  <2>3. Len(mods') = Cardinality(valid)
    BY <1>3, <2>1 DEF InPlaces
  <2>4. QED
    BY <2>1, <2>2, <2>3
<1> HIDE DEF valid
<1>5. Sourced'
  <2>1. list \in [1 .. Cardinality(DOMAIN input) -> DOMAIN input]
        /\ \A i, j \in DOMAIN list : list[i] = list[j] => i = j
    BY <1>3 DEF Arrangements
  <2>2. list \in Seq(Present') /\ DOMAIN list = 1 .. Cardinality(DOMAIN input)
    BY <1>3, <1>4, <2>1 DEF Present
  <2>3. \A m \in Present' : \E i \in DOMAIN list : list[i] = m
    <3>1. list \in Injection(1 .. Cardinality(DOMAIN input), DOMAIN input)
      BY <2>1 DEF Injection, IsInjective
    <3>2. /\ IsFiniteSet(1 .. Cardinality(DOMAIN input))
          /\ Cardinality(1 .. Cardinality(DOMAIN input)) = Cardinality(DOMAIN input)
      BY <1>4, FS_Interval
    <3>3. list \in Surjection(1 .. Cardinality(DOMAIN input), DOMAIN input)
      BY <1>4, <3>1, <3>2, FS_Injection
    <3>4. QED
      BY <1>3, <2>1, <3>3 DEF Surjection, Present
  <2>4. QED
    BY <1>2, <1>3, <2>2, <2>3 DEF Sourced
<1>6. Ordering' /\ LinksAreOfMods'
  <2>1. phase' # "order" /\ phase' \in {"resolve", "unload"}
    BY <1>1 DEF Reject, UnloadThen
  <2>2. QED
    BY <1>2, <2>1 DEF Ordering, LinksAreOfMods, linkVars, guestVars
<1>7. CASE \A m \in DOMAIN input : input[m].valid
  <2>1. phase' = "resolve" /\ UNCHANGED <<issues, cursor, after>>
    BY <1>1, <1>7
  <2>2. LoaderTypeOK' /\ Loading'
    BY <1>2, <1>3, <1>4, <2>1 DEF LoaderInv, LoaderTypeOK, Loading, Phases, linkVars
  <2>3. valid = Present' /\ \A m \in Present' : descs'[m].valid
    BY <1>3, <1>7 DEF valid, Present
  <2>4. Judging'
    BY <1>2, <1>4, <2>1, <2>3 DEF Judging
  <2>5. QED
    BY <1>5, <1>6, <2>2, <2>4 DEF LoaderInv
<1>8. CASE ~(\A m \in DOMAIN input : input[m].valid)
  <2>1. issues' = TRUE /\ phase' = "unload" /\ after' = "idle" /\ cursor' = Len(mods')
    BY <1>1, <1>8 DEF Reject, UnloadThen
  <2>2. LoaderTypeOK' /\ Loading'
    BY <1>2, <1>3, <1>4, <2>1 DEF LoaderInv, LoaderTypeOK, Loading, Phases
  <2>3. ~Loadable'
    BY <1>3, <1>8 DEF Loadable, Present
  <2>4. Judging'
    BY <2>1, <2>3 DEF Judging
  <2>5. QED
    BY <1>5, <1>6, <2>2, <2>4 DEF LoaderInv
<1>9. QED
  BY <1>7, <1>8

LEMMA ResolveKeeps ==
  ASSUME LoaderInv, ResolveDependencies PROVE LoaderInv'
<1>1. phase = "resolve" /\ UNCHANGED <<byPath, sources, descs, mods, loaded, linkVars, guestVars>>
      /\ loaded = {} /\ exports = {} /\ patched = {} /\ hooks = {} /\ callbacks = {} /\ tracked = {}
      /\ slots = {} /\ pending = {} /\ ~started
  BY DEF ResolveDependencies, LoaderInv, Loading, LinksAreOfMods, sourceVars
<1>2. /\ Sourced' /\ LinksAreOfMods' /\ exports' = {} /\ patched' = {} /\ hooks' = {}
      /\ callbacks' = {} /\ tracked' = {} /\ slots' = {}
  BY <1>1, SameMods, SameSources DEF LoaderInv, LinksAreOfMods, linkVars, guestVars
<1>3. CASE \E m \in Present : DependencyIssue(m)
  <2>1. issues' = TRUE /\ phase' = "unload" /\ after' = "idle" /\ cursor' = Len(mods)
    BY <1>3 DEF ResolveDependencies, Reject, UnloadThen
  <2>2. LoaderTypeOK' /\ Ordering' /\ Loading'
    BY <1>1, <2>1 DEF LoaderInv, LoaderTypeOK, Ordering, Loading, Phases
  <2>3. ~Loadable'
    BY <1>1, <1>3, SameMods DEF Loadable
  <2>4. Judging'
    BY <2>1, <2>3 DEF Judging
  <2>5. QED
    BY <1>2, <2>2, <2>4 DEF LoaderInv
<1>4. CASE ~(\E m \in Present : DependencyIssue(m))
  <2>1. /\ phase' = "order" /\ order' = <<>> /\ UNCHANGED <<issues, cursor, after>>
        /\ indegree' = [m \in Present |-> Cardinality(EdgesInto(m))]
        /\ ready' = {m \in Present : EdgesInto(m) = {}}
    BY <1>4 DEF ResolveDependencies
  <2>2. LoaderTypeOK' /\ Loading'
    BY <1>1, <1>2, <2>1 DEF LoaderInv, LoaderTypeOK, Loading, Phases
  <2>3. Ordering'
    <3>1. Members(order') = {} /\ Placed(order') /\ Free({}) = ready'
      BY <2>1 DEF Members, Earlier, Placed, Free
    <3>2. \A m \in Present : indegree'[m] = Cardinality(EdgesInto(m) \ {})
      BY <2>1
    <3>3. Placed(order)' /\ ready' = Free(Members(order))'
      BY <1>1, <3>1, SameMods
    <3>4. \A m \in Present' : indegree'[m] = Cardinality(EdgesInto(m)' \ Members(order'))
      BY <1>1, <3>1, <3>2, SameMods
    <3>5. QED
      BY <3>3, <3>4 DEF Ordering
  <2>4. Judging'
    BY <1>1, <1>4, <2>1, SameMods DEF LoaderInv, Judging
  <2>5. QED
    BY <1>2, <2>2, <2>3, <2>4 DEF LoaderInv
<1>5. QED
  BY <1>3, <1>4

LEMMA PopReadyKeeps ==
  ASSUME LoaderInv, PopReady PROVE LoaderInv'
<1> DEFINE m == First(ready)
           placed == Members(order)
           longer == Append(order, m)
           dependents == {n \in Present : m \in EdgesInto(n)}
<1>1. /\ phase = "order" /\ ready # {} /\ order' = longer
      /\ indegree' = [n \in Present |-> indegree[n] - (IF n \in dependents THEN 1 ELSE 0)]
      /\ ready' = (ready \ {m}) \cup {n \in dependents : indegree'[n] = 0}
      /\ UNCHANGED <<phase, byPath, sources, descs, mods, cursor, issues, after, loaded, linkVars, guestVars>>
  BY DEF PopReady, sourceVars
<1>2. LoaderTypeOK /\ Placed(order) /\ ready = Free(placed)
      /\ \A n \in Present : indegree[n] = Cardinality(EdgesInto(n) \ placed)
  BY <1>1 DEF LoaderInv, Ordering
<1>3. m \in ready /\ m \in Present /\ m \notin placed /\ EdgesInto(m) \subseteq placed
  <2>1. ready \subseteq Present /\ Sourced
    BY <1>2 DEF Free, LoaderInv
  <2>2. m \in ready
    BY <1>1, <2>1, FirstIsIn
  <2>3. QED
    BY <1>2, <2>2 DEF Free
<1>4. Placed(longer) /\ Members(longer) = placed \cup {m}
  BY <1>2, <1>3, PlacedAppend
<1> HIDE DEF m, longer, placed
<1>5. ASSUME NEW n \in Present
      PROVE  indegree'[n] = Cardinality(EdgesInto(n) \ (placed \cup {m}))
  <2>1. IsFiniteSet(EdgesInto(n) \ placed)
    BY <1>2, DescriptorsTyped, FS_Subset DEF EdgesInto
  <2>2. EdgesInto(n) \ (placed \cup {m}) = (EdgesInto(n) \ placed) \ {m}
    OBVIOUS
  <2>3. Cardinality((EdgesInto(n) \ placed) \ {m})
          = IF m \in EdgesInto(n) THEN indegree[n] - 1 ELSE indegree[n]
    BY <1>2, <1>3, <2>1, FS_RemoveElement
  <2>4. indegree[n] \in Nat
    BY <1>2, <2>1, FS_CardinalityType
  <2>5. indegree'[n] = indegree[n] - (IF n \in dependents THEN 1 ELSE 0)
    BY <1>1
  <2>6. n \in dependents <=> m \in EdgesInto(n)
    OBVIOUS
  <2> HIDE DEF dependents
  <2>7. QED
    BY <2>2, <2>3, <2>4, <2>5, <2>6
<1>6. ready' = Free(placed \cup {m})
  <2>1. \A n \in Present : indegree'[n] = 0 <=> EdgesInto(n) \subseteq placed \cup {m}
    <3> SUFFICES ASSUME NEW n \in Present
                 PROVE  indegree'[n] = 0 <=> EdgesInto(n) \subseteq placed \cup {m}
      OBVIOUS
    <3>1. IsFiniteSet(EdgesInto(n) \ (placed \cup {m}))
      BY <1>2, DescriptorsTyped, FS_Subset DEF EdgesInto
    <3>2. indegree'[n] = 0 <=> EdgesInto(n) \ (placed \cup {m}) = {}
      BY <1>5, <3>1, FS_EmptySet
    <3>3. QED
      BY <3>2
  <2>2. \A n \in placed : EdgesInto(n) \subseteq placed
    <3>1. order \in Seq(Present)
      BY <1>2 DEF Placed
    <3>2. \A i \in 1 .. Len(order) : Earlier(order, i) \subseteq placed
      BY <3>1 DEF placed, Members, Earlier
    <3>3. placed = {order[i] : i \in 1 .. Len(order)}
      BY <3>1 DEF placed, Members, Earlier
    <3>4. QED
      BY <1>2, <3>2, <3>3, MembersOfPlaced
  <2>3. \A n \in dependents : n \notin placed \cup {m}
    BY <1>3, <2>2
  <2>4. ready' = (Free(placed) \ {m}) \cup {n \in dependents : EdgesInto(n) \subseteq placed \cup {m}}
    BY <1>1, <1>2, <2>1
  <2>5. QED
    BY <2>3, <2>4 DEF Free
<1>7. Ordering'
  <2>1. Placed(order)' /\ Members(order)' = placed \cup {m}
    BY <1>1, <1>4, SameMods DEF Members, Earlier
  <2>2. ready' = Free(Members(order))'
    BY <1>1, <1>6, <2>1, SameMods
  <2>3. \A n \in Present' : indegree'[n] = Cardinality(EdgesInto(n)' \ Members(order)')
    BY <1>1, <1>5, <2>1, SameMods
  <2>4. QED
    BY <2>1, <2>2, <2>3 DEF Ordering
<1>8. LoaderTypeOK' /\ Sourced' /\ LinksAreOfMods'
  BY <1>1, SameMods, SameSources DEF LoaderInv, LoaderTypeOK, LinksAreOfMods, linkVars, guestVars
<1>9. Loading'
  BY <1>1 DEF LoaderInv, Loading, linkVars
<1>10. Judging'
  BY <1>1, SameMods DEF LoaderInv, Judging
<1>11. QED
  BY <1>7, <1>8, <1>9, <1>10 DEF LoaderInv

LEMMA OrderDoneKeeps ==
  ASSUME LoaderInv, OrderDone PROVE LoaderInv'
<1>1. /\ phase = "order" /\ ready = {}
      /\ UNCHANGED <<byPath, sources, descs, orderVars, loaded, patched, hooks, callbacks, tracked, slots, guestVars>>
      /\ loaded = {} /\ exports = {} /\ patched = {} /\ hooks = {} /\ callbacks = {} /\ tracked = {}
      /\ slots = {} /\ pending = {} /\ ~started
      /\ ~issues /\ Len(mods) = Cardinality(Present)
      /\ LoaderTypeOK /\ Placed(order) /\ Free(Members(order)) = {}
  BY DEF OrderDone, LoaderInv, Loading, Judging, Ordering, LinksAreOfMods, sourceVars
<1>2. /\ Sourced' /\ loaded' = {} /\ patched' = {} /\ hooks' = {} /\ callbacks' = {} /\ tracked' = {}
      /\ slots' = {} /\ pending' = {} /\ ~started'
  BY <1>1, SameSources DEF LoaderInv, guestVars
<1>3. Present' = Present
  BY <1>1 DEF Present
<1>4. CASE Len(order) # Len(mods)
  <2>1. issues' = TRUE /\ phase' = "unload" /\ after' = "idle" /\ cursor' = Len(mods)
        /\ UNCHANGED <<mods, exports>>
    BY <1>4 DEF OrderDone, Reject, UnloadThen
  <2>2. LoaderTypeOK' /\ Ordering' /\ Loading'
    BY <1>1, <1>2, <2>1 DEF LoaderTypeOK, Ordering, Loading, Phases
  <2>3. Members(order) # Present /\ Members(order) \subseteq Present
    BY <1>1, <1>4, MembersOfPlaced
  <2>4. ~Acyclic
    BY <1>1, <2>3, NothingFreeIsACycle
  <2>5. ~Loadable'
    BY <1>1, <2>1, <2>4, SameMods DEF Loadable
  <2>6. Judging'
    BY <2>1, <2>5 DEF Judging
  <2>7. LinksAreOfMods'
    BY <1>1, <1>2, <2>1 DEF LinksAreOfMods
  <2>8. QED
    BY <1>2, <2>2, <2>6, <2>7 DEF LoaderInv
<1>5. CASE Len(order) = Len(mods)
  <2>1. /\ phase' = "link" /\ mods' = order /\ cursor' = 1 /\ exports' = Exporters
        /\ issues' = TableIssue /\ UNCHANGED after
    BY <1>5 DEF OrderDone
  <2>2. Members(order) = Present
    BY <1>1, <1>5, MembersOfPlaced, DescriptorsTyped, FS_Subset
  <2>3. order \in Seq(Present) /\ Len(order) \in Nat /\ DOMAIN order = 1 .. Len(order)
    BY <1>1 DEF Placed
  <2>4. LoaderTypeOK'
    BY <1>1, <2>1, <2>3 DEF LoaderTypeOK, Phases, TableIssue
  <2>5. InOrder'
    <3>1. \A n : EdgesInto(n)' = EdgesInto(n)
      BY <1>1, <1>3 DEF EdgesInto
    <3>2. \A set : Free(set)' = Free(set)
      BY <1>3, <3>1 DEF Free
    <3>3. Placed(order)'
      <4>1. order' = order
        BY <1>1 DEF orderVars
      <4>2. \A i : Earlier(order, i)' = Earlier(order, i)
        BY <4>1 DEF Earlier
      <4>3. \A S : First(S)' = First(S)
        BY <1>1 DEF First
      <4>4. QED
        BY <1>1, <1>3, <3>2, <4>1, <4>2, <4>3 DEF Placed
    <3>4. Placed(mods)' /\ Members(mods)' = Members(order)
      BY <2>1, <1>1, <3>3 DEF Placed, Members, Earlier, orderVars
    <3>5. QED
      BY <1>3, <2>2, <3>4 DEF InOrder
  <2>6. Ordering' /\ Loading'
    BY <1>1, <2>1, <2>3, <2>5 DEF Ordering, Loading
  <2>7. Judging'
    <3>1. \A m \in Present' : descs'[m].valid /\ ~DependencyIssue(m)'
      BY <1>1, <1>3 DEF LoaderInv, Judging, DependencyIssue
    <3>2. PatchersBefore(1)' = {} /\ (IssueBefore(1)' <=> TableIssue')
      BY DEF PatchersBefore, IssueBefore
    <3>3. Exporters' = Exporters /\ (TableIssue' <=> TableIssue)
      BY <1>1, <1>3 DEF Exporters, TableIssue
    <3>4. QED
      BY <1>1, <1>2, <2>1, <3>1, <3>2, <3>3 DEF Judging
  <2>8. LinksAreOfMods'
    <3>1. Members(mods)' = Present
      BY <1>3, <2>5 DEF InOrder
    <3>2. QED
      BY <1>2, <2>1, <3>1 DEF LinksAreOfMods, Exporters
  <2>9. QED
    BY <1>2, <2>4, <2>6, <2>7, <2>8 DEF LoaderInv
<1>6. QED
  BY <1>4, <1>5

LEMMA LinkKeeps ==
  ASSUME LoaderInv, Link PROVE LoaderInv'
<1> DEFINE m == mods[cursor]
           declared == descs[m].imports \cap descs[m].deps
           bound == declared \cap Present \cap exports
<1>1. /\ phase = "link" /\ cursor <= Len(mods) /\ cursor' = cursor + 1
      /\ tracked' = tracked \cup ({m} \X declared)
      /\ slots' = (slots \ ({m} \X (declared \ Present))) \cup ({m} \X bound)
      /\ patched' = IF descs[m].patch = "none" \/ PatchConflict(m) THEN patched ELSE {m}
      /\ hooks' = IF descs[m].hook THEN hooks \cup {m} ELSE hooks
      /\ callbacks' = callbacks \cup {<<p, m>> : p \in descs[m].callbacks \cap Subscribable(m)}
      /\ issues' = (issues \/ ImportIssue(m, exports) \/ PatchIssue(m) \/ HookIssue(m) \/ CallbackIssue(m))
      /\ UNCHANGED <<phase, byPath, sources, descs, mods, orderVars, after, loaded, exports, guestVars>>
  BY DEF Link, sourceVars
<1>2. /\ LoaderTypeOK /\ InOrder /\ loaded = {} /\ cursor \in 1 .. Len(mods) + 1
      /\ cursor \in Nat /\ Len(mods) \in Nat /\ cursor \in 1 .. Len(mods)
      /\ exports = Exporters
      /\ issues <=> IssueBefore(cursor)
      /\ patched = {} <=> PatchersBefore(cursor) = {}
  BY <1>1 DEF LoaderInv, LoaderTypeOK, Loading, Judging
<1>3. LoaderTypeOK' /\ Sourced'
  <2>1. issues' \in BOOLEAN
    BY <1>1, <1>2 DEF LoaderTypeOK, ImportIssue, PatchIssue, HookIssue, CallbackIssue
  <2>2. QED
    BY <1>1, <1>2, <2>1, SameSources DEF LoaderTypeOK, LoaderInv
<1>4. Ordering' /\ Loading'
  <2>1. InOrder'
    BY <1>1, <1>2, SameMods
  <2>2. QED
    BY <1>1, <1>2, <2>1 DEF Ordering, Loading
<1>5. LinksAreOfMods'
  <2>1. m \in Members(mods) /\ Members(mods)' = Members(mods)
    BY <1>1, <1>2, SameMods DEF Members, Earlier
  <2>2. \A link \in callbacks' \ callbacks : link[2] = m
    BY <1>1
  <2>3. \A slot \in tracked' \ tracked : slot[1] = m
    BY <1>1
  <2>4. patched' \subseteq patched \cup {m} /\ hooks' \subseteq hooks \cup {m}
    BY <1>1
  <2>5. slots' \subseteq slots \cup ({m} \X declared)
    BY <1>1
  <2>6. pending = {} /\ ~started /\ pending' = pending /\ started' = started
    BY <1>1 DEF LoaderInv, LinksAreOfMods, guestVars
  <2> HIDE DEF m, declared, bound
  <2>7. QED
    BY <1>1, <2>1, <2>2, <2>3, <2>4, <2>5, <2>6 DEF LoaderInv, LinksAreOfMods
<1>6. PatchersBefore(cursor + 1) = PatchersBefore(cursor)
                                     \cup (IF descs[m].patch # "none" THEN {m} ELSE {})
  <2>1. \A j : j \in 1 .. cursor + 1 - 1 <=> j \in 1 .. cursor - 1 \/ j = cursor
    BY <1>2
  <2>2. QED
    BY <2>1 DEF PatchersBefore
<1>7. IssueBefore(cursor + 1) <=> IssueBefore(cursor) \/ LinkIssue(m) \/ Unforced(cursor)
  <2>1. \A j : j \in 1 .. cursor + 1 - 1 <=> j \in 1 .. cursor - 1 \/ j = cursor
    BY <1>2
  <2>2. QED
    BY <2>1 DEF IssueBefore
<1>8. /\ Unforced(cursor) <=> PatchConflict(m)
      /\ issues' <=> issues \/ LinkIssue(m) \/ Unforced(cursor)
  BY <1>1, <1>2 DEF Unforced, PatchConflict, PatchIssue, LinkIssue
<1>9. Judging'
  <2>1. issues' <=> IssueBefore(cursor)'
    <3>1. issues' <=> IssueBefore(cursor + 1)
      BY <1>1, <1>2, <1>7, <1>8
    <3>2. QED
      BY <1>1, <3>1, SameMods
  <2>2. patched' = {} <=> PatchersBefore(cursor)' = {}
    <3>1. patched' = {} <=> PatchersBefore(cursor + 1) = {}
      <4>1. CASE descs[m].patch = "none"
        BY <1>1, <1>2, <1>6, <4>1
      <4>2. CASE PatchConflict(m)
        BY <1>1, <1>2, <1>6, <4>2 DEF PatchConflict
      <4>3. CASE descs[m].patch # "none" /\ ~PatchConflict(m)
        BY <1>1, <1>6, <4>3
      <4>4. QED
        BY <4>1, <4>2, <4>3
    <3>2. QED
      BY <1>1, <3>1, SameMods
  <2>3. \A n \in Present' : descs'[n].valid /\ ~DependencyIssue(n)'
    BY <1>1, SameMods DEF LoaderInv, Judging
  <2>4. exports' = Exporters'
    BY <1>1, <1>2, SameMods
  <2>5. QED
    BY <1>1, <2>1, <2>2, <2>3, <2>4 DEF Judging
<1>10. QED
  BY <1>3, <1>4, <1>5, <1>9 DEF LoaderInv

(* All that Loadable asks for has then been looked at.                      *)
LEMMA LoadableUnlessIssues ==
  ASSUME LoaderTypeOK, InOrder, \A m \in Present : descs[m].valid /\ ~DependencyIssue(m)
  PROVE  Loadable <=> ~IssueBefore(Len(mods) + 1)
<1>1. Acyclic
  BY OrderRefutesCycles
<1>2. Present = {mods[i] : i \in 1 .. Len(mods)}
  BY DEF InOrder, Members, Earlier, LoaderTypeOK
<1>3. Len(mods) + 1 - 1 = Len(mods)
  BY DEF LoaderTypeOK
<1>4. IssueBefore(Len(mods) + 1) <=>
        TableIssue \/ \E i \in 1 .. Len(mods) : LinkIssue(mods[i]) \/ Unforced(i)
  BY <1>3 DEF IssueBefore
<1>5. IssueBefore(Len(mods) + 1) <=>
        \/ TableIssue \/ \E m \in Present : LinkIssue(m)
        \/ \E i \in 1 .. Len(mods) : Unforced(i)
  BY <1>2, <1>4
<1>6. (TableIssue \/ \E m \in Present : LinkIssue(m)) <=>
        \E m \in Present : descs[m].invalid # {} \/ ImportIssue(m, Exporters) \/ CallbackIssue(m)
  <2>1. ASSUME NEW m \in Present
        PROVE  descs[m].invalid # {} \/ ImportIssue(m, Exporters) \/ CallbackIssue(m)
                 <=> descs[m].invalid \cap {"exports", "events"} # {} \/ LinkIssue(m)
    <3>1. descs[m].invalid \subseteq Arrays
      BY DescriptorsTyped DEF ModDescriptor
    <3>2. "dependencies" \notin descs[m].invalid
      BY DEF DependencyIssue
    <3>3. QED
      BY <3>1, <3>2 DEF Arrays, LinkIssue, ImportIssue, CallbackIssue, HookIssue
  <2>2. QED
    BY <2>1 DEF TableIssue
<1>7. QED
  BY <1>1, <1>5, <1>6 DEF Loadable, Unforced

LEMMA LinkDoneKeeps ==
  ASSUME LoaderInv, LinkDone PROVE LoaderInv'
<1>1. /\ phase = "link" /\ cursor > Len(mods)
      /\ UNCHANGED <<byPath, sources, descs, mods, orderVars, loaded, linkVars, guestVars>>
      /\ LoaderTypeOK /\ InOrder /\ loaded = {} /\ cursor \in 1 .. Len(mods) + 1
      /\ issues <=> IssueBefore(cursor)
      /\ \A m \in Present : descs[m].valid /\ ~DependencyIssue(m)
  BY DEF LinkDone, LoaderInv, Loading, Judging, sourceVars
<1>2. cursor = Len(mods) + 1 /\ Len(mods) \in Nat
  BY <1>1 DEF LoaderTypeOK
<1>3. Sourced' /\ LinksAreOfMods' /\ InOrder'
  BY <1>1, SameMods, SameSources DEF LoaderInv, LinksAreOfMods, linkVars, guestVars
<1>4. CASE issues
  <2>1. issues' = TRUE /\ phase' = "unload" /\ after' = "idle" /\ cursor' = Len(mods)
    BY <1>4 DEF LinkDone, Reject, UnloadThen
  <2>2. LoaderTypeOK' /\ Ordering' /\ Loading'
    BY <1>1, <1>2, <2>1 DEF LoaderTypeOK, Ordering, Loading, Phases
  <2>3. ~Loadable'
    BY <1>1, <1>2, <1>4, LoadableUnlessIssues, SameMods
  <2>4. Judging'
    BY <2>1, <2>3 DEF Judging
  <2>5. QED
    BY <1>3, <2>2, <2>4 DEF LoaderInv
<1>5. CASE ~issues
  <2>1. phase' = "onload" /\ cursor' = 1 /\ UNCHANGED <<issues, after>>
    BY <1>5 DEF LinkDone
  <2>2. LoaderTypeOK' /\ Ordering'
    BY <1>1, <2>1 DEF LoaderTypeOK, Ordering, Phases
  <2>3. Loading'
    <3>1. Earlier(mods, 1)' = {}
      BY DEF Earlier
    <3>2. QED
      BY <1>1, <1>2, <1>3, <2>1, <3>1 DEF Loading
  <2>4. Judging'
    <3>1. ~IssueBefore(Len(mods) + 1)'
      BY <1>1, <1>2, <1>5, SameMods
    <3>2. \A m \in Present' : descs'[m].valid /\ ~DependencyIssue(m)'
      BY <1>1, SameMods
    <3>3. QED
      BY <2>1, <3>1, <3>2 DEF Judging
  <2>5. QED
    BY <1>3, <2>2, <2>3, <2>4 DEF LoaderInv
<1>6. QED
  BY <1>4, <1>5

LEMMA OnLoadKeeps ==
  ASSUME LoaderInv, OnLoad \/ LoadReturns PROVE LoaderInv'
<1>1. /\ phase = "onload" /\ phase' \in {"onload", "idle"}
      /\ UNCHANGED <<byPath, sources, descs, mods, orderVars, issues, after, linkVars, guestVars>>
      /\ LoaderTypeOK /\ InOrder /\ loaded = Earlier(mods, cursor) /\ cursor \in 1 .. Len(mods) + 1
  BY DEF OnLoad, LoadReturns, LoaderInv, Loading, sourceVars
<1>2. Sourced' /\ LinksAreOfMods' /\ InOrder' /\ Ordering'
  BY <1>1, SameMods, SameSources DEF LoaderInv, LinksAreOfMods, linkVars, guestVars, Ordering
<1>3. CASE OnLoad
  <2>1. /\ cursor <= Len(mods) /\ cursor' = cursor + 1 /\ UNCHANGED phase
        /\ loaded' = loaded \cup {mods[cursor]}
    BY <1>3 DEF OnLoad
  <2>2. LoaderTypeOK'
    BY <1>1, <2>1 DEF LoaderTypeOK
  <2>3. loaded' = Earlier(mods', cursor') /\ cursor' \in 1 .. Len(mods') + 1
    <3>1. Len(mods) \in Nat /\ cursor \in Nat /\ cursor >= 1 /\ mods' = mods
      BY <1>1 DEF LoaderTypeOK
    <3>2. Earlier(mods, cursor + 1) = Earlier(mods, cursor) \cup {mods[cursor]}
      BY <3>1, EarlierGrows
    <3>3. cursor' \in 1 .. Len(mods') + 1
      BY <1>1, <2>1, <3>1
    <3>4. QED
      BY <1>1, <2>1, <3>1, <3>2, <3>3
  <2>4. Loading'
    BY <1>1, <1>2, <2>1, <2>3 DEF Loading
  <2>5. Judging'
    BY <1>1, <2>1, SameMods DEF LoaderInv, Judging
  <2>6. QED
    BY <1>2, <2>2, <2>4, <2>5 DEF LoaderInv
<1>4. CASE LoadReturns
  <2>1. cursor > Len(mods) /\ phase' = "idle" /\ cursor' = 0 /\ UNCHANGED loaded
    BY <1>4 DEF LoadReturns
  <2>2. LoaderTypeOK'
    BY <1>1, <2>1 DEF LoaderTypeOK, Phases
  <2>3. loaded' = Members(mods)'
    BY <1>1, <2>1 DEF Members, Earlier, LoaderTypeOK
  <2>4. Loading' /\ Judging'
    BY <1>2, <2>1, <2>3 DEF Loading, Judging
  <2>5. QED
    BY <1>2, <2>2, <2>4 DEF LoaderInv
<1>5. QED
  BY <1>3, <1>4

LEMMA LoaderStutters ==
  ASSUME LoaderInv, UNCHANGED loaderVars PROVE LoaderInv'
<1>0. UNCHANGED <<phase, byPath, sources, descs, mods, indegree, ready, order, cursor, issues, after,
                  loaded, exports, patched, hooks, callbacks, tracked, slots, pending, started>>
  BY DEF loaderVars, sourceVars, orderVars, linkVars, guestVars
<1>1. LoaderTypeOK' /\ Sourced' /\ LinksAreOfMods'
  BY <1>0, SameMods, SameSources DEF LoaderInv, LoaderTypeOK, LinksAreOfMods
<1>2. Ordering'
  <2>1. Members(order)' = Members(order)
    BY <1>0 DEF Members, Earlier
  <2>2. QED
    BY <1>0, <2>1, SameMods DEF LoaderInv, Ordering
<1>3. Loading' /\ Judging'
  BY <1>0, SameMods DEF LoaderInv, Loading, Judging
<1>4. QED
  BY <1>1, <1>2, <1>3 DEF LoaderInv

LEMMA LoaderInvariance == LoaderSpec => []LoaderInv
<1>1. LoaderInv /\ [LoaderNext]_loaderVars => LoaderInv'
  BY UnloadingKeeps, DispatchKeeps, OnUnloadKeeps, ClearKeeps, RegisterKeeps, ResolveKeeps, PopReadyKeeps,
     OrderDoneKeeps, LinkKeeps, LinkDoneKeeps, OnLoadKeeps, LoaderStutters DEF LoaderNext
<1>2. QED
  BY <1>1, LoaderStarts, PTL DEF LoaderSpec

-----------------------------------------------------------------------------
(* No mod is ever loaded without the mods it depends on: for any number of  *)
(* mods and any dependencies, on the way up and on the way down.            *)
THEOREM DependenciesStayLoaded == LoaderSpec => []DependenciesAreLoaded
<1>1. LoaderInv => DependenciesAreLoaded
  <2> SUFFICES ASSUME LoaderInv, NEW m \in loaded PROVE EdgesInto(m) \subseteq loaded
    BY DEF DependenciesAreLoaded
  <2>1. PICK n \in 1 .. Len(mods) + 1 : InOrder /\ loaded = Earlier(mods, n)
    BY DEF LoaderInv, LoaderTypeOK, Phases, Loading, Members
  <2>2. PICK i \in 1 .. n - 1 : m = mods[i]
    BY <2>1 DEF Earlier
  <2>3. i \in 1 .. Len(mods) /\ Earlier(mods, i) \subseteq Earlier(mods, n)
    BY <2>1, <2>2 DEF Earlier, LoaderInv, LoaderTypeOK
  <2>4. QED
    BY <2>1, <2>2, <2>3, MembersOfPlaced DEF InOrder
<1>2. QED
  BY <1>1, LoaderInvariance, PTL

(* After an Unload, and after every Load that is rejected, in whatever      *)
(* phase, nothing of a mod is installed, pointed at or waiting for a return;*)
(* and no Load begins with anything of the one before.                      *)
THEOREM UnloadLeavesNothing == LoaderSpec => []NothingIsLeftBehind
<1>1. LoaderInv => NothingIsLeftBehind
  <2> SUFFICES ASSUME LoaderInv, phase = "register" \/ (phase = "idle" /\ mods = <<>>)
               PROVE  loaded \cup exports \cup patched \cup hooks \cup callbacks \cup tracked
                        \cup slots \cup pending = {}
    BY DEF NothingIsLeftBehind, LoaderInv, LinksAreOfMods
  <2>1. mods = <<>>
    BY DEF LoaderInv, Loading
  <2>2. Members(mods) = {}
    BY <2>1 DEF Members, Earlier
  <2>3. loaded = {}
    BY <2>2 DEF LoaderInv, Loading
  <2>4. QED
    BY <2>2, <2>3 DEF LoaderInv, LinksAreOfMods
<1>2. QED
  BY <1>1, LoaderInvariance, PTL

(* The queue yields the mods by their dependencies and then in the order of *)
(* the sources, which for directories is that of the whole paths.           *)
THEOREM LoadOrderIsDetermined == LoaderSpec => []OrderedByDependenciesThenPath
<1>1. LoaderInv => OrderedByDependenciesThenPath
  <2> SUFFICES ASSUME LoaderInv, phase = "onload", NEW i \in 1 .. Len(mods)
               PROVE  /\ mods[i] \in Free(Earlier(mods, i))
                      /\ \A m \in Free(Earlier(mods, i)) \ {mods[i]} : ComesBefore(mods[i], m)
    BY DEF OrderedByDependenciesThenPath, Earlier, Free
  <2> DEFINE free == Free(Earlier(mods, i))
  <2>1. mods[i] \in free /\ mods[i] = First(free) /\ Sourced /\ free \subseteq Present
    BY DEF LoaderInv, Loading, InOrder, Placed, Free
  <2> HIDE DEF free
  <2>2. ASSUME NEW m \in free \ {mods[i]}
        PROVE  ComesBefore(mods[i], m)
    <3>1. Place(sources, mods[i]) < Place(sources, m)
      BY <2>1, FirstIsIn
    <3>2. CASE ~byPath
      BY <3>1, <3>2 DEF ComesBefore
    <3>3. CASE byPath
      <4>1. /\ Place(sources, mods[i]) \in 1 .. Len(sources) /\ sources[Place(sources, mods[i])] = mods[i]
            /\ Place(sources, m) \in 1 .. Len(sources) /\ sources[Place(sources, m)] = m
        BY <2>1, PlacesTell
      <4>2. \A j, k \in DOMAIN sources : j < k => PathBefore(descs[sources[j]].path, descs[sources[k]].path)
        BY <2>1, <3>3 DEF Sourced
      <4>3. DOMAIN sources = 1 .. Len(sources)
        BY <2>1 DEF Sourced
      <4>4. PathBefore(descs[mods[i]].path, descs[m].path)
        BY <3>1, <4>1, <4>2, <4>3
      <4>5. QED
        BY <3>3, <4>4 DEF ComesBefore
    <3>4. QED
      BY <3>2, <3>3
  <2>3. QED
    BY <2>1, <2>2 DEF free
<1>2. QED
  BY <1>1, LoaderInvariance, PTL

(* What Load accepts is what can be loaded: no cycle and no invalid entry   *)
(* passes, and nothing else is taken for one.                               *)
THEOREM LoadJudgesRightly == LoaderSpec => []AcceptsExactlyLoadable
<1>1. LoaderInv => AcceptsExactlyLoadable
  BY LoadableUnlessIssues DEF LoaderInv, Loading, Judging, AcceptsExactlyLoadable
<1>2. QED
  BY <1>1, LoaderInvariance, PTL

-----------------------------------------------------------------------------
(* The module and its tables.                                               *)
(* The ranges of a table that are valid follow each other.                  *)
Follow(table) ==
  /\ \A i \in DOMAIN table : table[i].start < table[i].end
  /\ \A i, j \in DOMAIN table : i < j => table[i].end <= table[j].start

LEMMA RangesTyped ==
  ASSUME NEW table \in Seq(ModernGekkoRange)
  PROVE  /\ Len(table) \in Nat /\ DOMAIN table = 1 .. Len(table)
         /\ \A i \in DOMAIN table : table[i].start \in Nat /\ table[i].end \in Nat
<1>1. Len(table) \in Nat /\ DOMAIN table = 1 .. Len(table)
  OBVIOUS
<1>2. \A i \in DOMAIN table : table[i] \in ModernGekkoRange
  OBVIOUS
<1>3. QED
  BY <1>1, <1>2 DEF ModernGekkoRange

LEMMA ValidRangesFollow ==
  ASSUME NEW table \in Seq(ModernGekkoRange)
  PROVE  RangesAreValid(table) <=> table # <<>> /\ Follow(table)
<1>1. ASSUME RangesAreValid(table)
      PROVE  Follow(table)
  <2> DEFINE astray == {j \in DOMAIN table : \E i \in DOMAIN table :
                          i < j /\ ~(table[i].end <= table[j].start)}
  <2>1. astray \subseteq Nat
    BY RangesTyped
  <2>2. CASE astray # {}
    <3>1. PICK j \in astray : \A k \in astray : j <= k
      BY <2>1, <2>2, LeastNatural
    <3>2. PICK i \in DOMAIN table : i < j /\ ~(table[i].end <= table[j].start)
      BY <3>1
    <3>3. j \in DOMAIN table /\ j > 1 /\ j - 1 \in DOMAIN table
      BY <3>1, <3>2, RangesTyped
    <3>4. /\ table[j - 1].end <= table[j].start
          /\ table[j - 1].start < table[j - 1].end
      BY <1>1, <3>3 DEF RangesAreValid
    <3>5. i < j - 1
      BY <3>2, <3>3, <3>4, RangesTyped
    <3>6. table[i].end <= table[j - 1].start
      <4>1. j \in Nat /\ j - 1 < j
        BY <3>3, RangesTyped
      <4>2. j - 1 \notin astray
        <5> HIDE DEF astray
        <5>1. QED
          BY <3>1, <4>1
      <4>3. QED
        BY <3>2, <3>3, <3>5, <4>2
    <3>7. QED
      BY <3>2, <3>3, <3>4, <3>6, RangesTyped
  <2>3. CASE astray = {}
    BY <1>1, <2>3 DEF RangesAreValid, Follow
  <2>4. QED
    BY <2>2, <2>3
<1>2. ASSUME table # <<>>, Follow(table)
      PROVE  RangesAreValid(table)
  BY <1>2, RangesTyped DEF RangesAreValid, Follow
<1>3. QED
  BY <1>1, <1>2 DEF RangesAreValid

LEMMA FollowIsOrdered ==
  ASSUME NEW table \in Seq(ModernGekkoRange)
  PROVE  Follow(table) <=> Ordered(table)
<1>1. \A i \in DOMAIN table : Addresses(table[i]) # {} <=> table[i].start < table[i].end
  BY RangesTyped DEF Addresses
<1>2. ASSUME Follow(table)
      PROVE  Ordered(table)
  BY <1>1, <1>2, RangesTyped DEF Follow, Ordered, Addresses
<1>3. ASSUME Ordered(table)
      PROVE  Follow(table)
  <2> SUFFICES ASSUME NEW i \in DOMAIN table, NEW j \in DOMAIN table, i < j
               PROVE  table[i].end <= table[j].start
    BY <1>1, <1>3 DEF Follow, Ordered
  <2>1. table[i].start < table[i].end /\ table[j].start < table[j].end
    BY <1>1, <1>3 DEF Ordered
  <2>2. table[i].end - 1 \in Addresses(table[i]) /\ table[j].start \in Addresses(table[j])
    BY <2>1, RangesTyped DEF Addresses
  <2>3. table[i].end - 1 < table[j].start
    BY <1>3, <2>2 DEF Ordered
  <2>4. QED
    BY <2>3, RangesTyped
<1>4. QED
  BY <1>2, <1>3

LEMMA CoveredIsInside ==
  ASSUME NEW table \in Seq(ModernGekkoRange), NEW a \in Nat
  PROVE  Covered(table, a) <=> a \in AddressesOf(table)
BY RangesTyped DEF Covered, AddressesOf, Addresses

-----------------------------------------------------------------------------
(* The walk over the chunks.                                                *)
(* What the walk is at a point, by what it is at the next.                  *)
Walks(w, d, c, k, here) ==
  IF c > Len(d.code) THEN k > Len(d.chunks)
  ELSE IF k <= Len(d.chunks) /\ d.chunks[k].start < d.code[c].end
  THEN /\ d.chunks[k].start = here
       /\ d.chunks[k].end <= d.code[c].end
       /\ w[<<c, k + 1, d.chunks[k].end>>]
  ELSE /\ here = d.code[c].end
       /\ w[<<c + 1, k, IF c < Len(d.code) THEN d.code[c + 1].start ELSE here>>]

Walk(w, d) ==
  w = [at \in (1 .. Len(d.code) + 1) \X (1 .. Len(d.chunks) + 1) \X Nat |->
         Walks(w, d, at[1], at[2], at[3])]

LEMMA ChunksWalk ==
  ASSUME NEW d
  PROVE  ChunksTileCode(d) <=>
           RangesAreValid(d.chunks) /\ d.hashes /\ (CHOOSE w : Walk(w, d))[<<1, 1, d.code[1].start>>]
BY DEF ChunksTileCode, Walk, Walks

(* A point leads only to later ones.                                        *)
AgreeAfter(v, w, d, c, k) ==
  \A b \in 1 .. Len(d.code) + 1, j \in 1 .. Len(d.chunks) + 1, next \in Nat :
    c + k < b + j => v[<<b, j, next>>] = w[<<b, j, next>>]

LEMMA WalksAgree ==
  ASSUME NEW d \in ModuleDescriptor, NEW v, NEW w,
         NEW c \in 1 .. Len(d.code) + 1, NEW k \in 1 .. Len(d.chunks) + 1, NEW here \in Nat,
         AgreeAfter(v, w, d, c, k)
  PROVE  Walks(v, d, c, k, here) = Walks(w, d, c, k, here)
<1>1. d.code \in Seq(ModernGekkoRange) /\ d.chunks \in Seq(ModernGekkoRange)
  BY DEF ModuleDescriptor
<1>2. Len(d.code) \in Nat /\ Len(d.chunks) \in Nat
  BY <1>1, RangesTyped
<1>3. CASE c > Len(d.code)
  BY <1>3 DEF Walks
<1>4. CASE c <= Len(d.code) /\ k <= Len(d.chunks) /\ d.chunks[k].start < d.code[c].end
  <2>1. k \in DOMAIN d.chunks
    BY <1>1, <1>2, <1>4, RangesTyped
  <2>2. d.chunks[k].end \in Nat
    BY <1>1, <2>1, RangesTyped
  <2>3. k + 1 \in 1 .. Len(d.chunks) + 1
    BY <1>2, <1>4
  <2>4. v[<<c, k + 1, d.chunks[k].end>>] = w[<<c, k + 1, d.chunks[k].end>>]
    <3>1. c + k < c + (k + 1)
      BY <1>2
    <3>2. QED
      BY <2>2, <2>3, <3>1 DEF AgreeAfter
  <2>5. ~(c > Len(d.code))
    BY <1>2, <1>4
  <2>6. QED
    BY <1>4, <2>4, <2>5 DEF Walks
<1>5. CASE c <= Len(d.code) /\ ~(k <= Len(d.chunks) /\ d.chunks[k].start < d.code[c].end)
  <2> DEFINE next == IF c < Len(d.code) THEN d.code[c + 1].start ELSE here
  <2>1. next \in Nat
    <3>1. c < Len(d.code) => c + 1 \in DOMAIN d.code
      BY <1>1, <1>2, RangesTyped
    <3>2. QED
      BY <1>1, <3>1, RangesTyped
  <2>2. c + 1 \in 1 .. Len(d.code) + 1
    BY <1>2, <1>5
  <2>3. v[<<c + 1, k, next>>] = w[<<c + 1, k, next>>]
    <3>1. c + k < (c + 1) + k
      BY <1>2
    <3>2. QED
      BY <2>1, <2>2, <3>1 DEF AgreeAfter
  <2>4. ~(c > Len(d.code))
    BY <1>2, <1>5
  <2>5. QED
    BY <1>5, <2>3, <2>4 DEF Walks
<1>6. QED
  BY <1>2, <1>3, <1>4, <1>5

LEMMA WalkExists ==
  ASSUME NEW d \in ModuleDescriptor
  PROVE  \E w : Walk(w, d)
<1> DEFINE n == Len(d.code)
           m == Len(d.chunks)
           Upto(w, N) == \A c \in 1 .. n + 1, k \in 1 .. m + 1, here \in Nat :
             n + m + 2 < c + k + N => w[<<c, k, here>>] = Walks(w, d, c, k, here)
           Onward(w) == [at \in (1 .. n + 1) \X (1 .. m + 1) \X Nat |->
                         Walks(w, d, at[1], at[2], at[3])]
           missing == {N \in Nat : ~\E w : Upto(w, N)}
<1>1. n \in Nat /\ m \in Nat
  <2>1. d.code \in Seq(ModernGekkoRange) /\ d.chunks \in Seq(ModernGekkoRange)
    BY DEF ModuleDescriptor
  <2>2. QED
    BY <2>1, RangesTyped
<1>2. ASSUME NEW v, NEW w, NEW c \in 1 .. n + 1, NEW k \in 1 .. m + 1, NEW here \in Nat,
             \A b \in 1 .. n + 1, j \in 1 .. m + 1, next \in Nat :
               c + k < b + j => v[<<b, j, next>>] = w[<<b, j, next>>]
      PROVE  Walks(v, d, c, k, here) = Walks(w, d, c, k, here)
  <2>1. AgreeAfter(v, w, d, c, k)
    BY <1>2 DEF AgreeAfter
  <2>2. QED
    BY <2>1, WalksAgree
<1>3. \A w : \A c \in 1 .. n + 1, k \in 1 .. m + 1, here \in Nat :
        Onward(w)[<<c, k, here>>] = Walks(w, d, c, k, here)
  OBVIOUS
<1>4. \A w : (\A c \in 1 .. n + 1, k \in 1 .. m + 1, here \in Nat :
                Walks(Onward(w), d, c, k, here) = Walks(w, d, c, k, here))
              => Walk(Onward(w), d)
  <2> SUFFICES ASSUME NEW w,
                      \A c \in 1 .. n + 1, k \in 1 .. m + 1, here \in Nat :
                        Walks(Onward(w), d, c, k, here) = Walks(w, d, c, k, here)
               PROVE  Walk(Onward(w), d)
    OBVIOUS
  <2> DEFINE onward == Onward(w)
             sides(u) == [at \in (1 .. n + 1) \X (1 .. m + 1) \X Nat |->
                            Walks(u, d, at[1], at[2], at[3])]
  <2>1. \A at \in (1 .. n + 1) \X (1 .. m + 1) \X Nat :
          Walks(onward, d, at[1], at[2], at[3]) = Walks(w, d, at[1], at[2], at[3])
    <3> HIDE DEF Onward, n, m
    <3>1. QED
      OBVIOUS
  <2>2. sides(onward) = sides(w)
    <3> HIDE DEF onward, n, m
    <3>1. QED
      BY <2>1
  <2>3. onward = sides(w)
    OBVIOUS
  <2>4. QED
    BY <2>2, <2>3 DEF Walk
<1> HIDE DEF n, m, Onward
<1>5. ASSUME NEW N \in Nat, NEW w, Upto(w, N)
      PROVE  Upto(Onward(w), N + 1)
  <2> SUFFICES ASSUME NEW c \in 1 .. n + 1, NEW k \in 1 .. m + 1, NEW here \in Nat,
                      n + m + 2 < c + k + (N + 1)
               PROVE  Onward(w)[<<c, k, here>>] = Walks(Onward(w), d, c, k, here)
    OBVIOUS
  <2>1. ASSUME NEW b \in 1 .. n + 1, NEW j \in 1 .. m + 1, NEW next \in Nat, c + k < b + j
        PROVE  w[<<b, j, next>>] = Onward(w)[<<b, j, next>>]
    <3>1. n + m + 2 < b + j + N
      BY <1>1, <2>1
    <3>2. w[<<b, j, next>>] = Walks(w, d, b, j, next)
      BY <1>5, <3>1
    <3>3. QED
      BY <1>3, <3>2
  <2>2. Walks(w, d, c, k, here) = Walks(Onward(w), d, c, k, here)
    BY <1>2, <2>1
  <2>3. QED
    BY <1>3, <2>2
<1>6. missing = {}
  <2> SUFFICES ASSUME missing # {} PROVE FALSE
    OBVIOUS
  <2>1. missing \subseteq Nat
    OBVIOUS
  <2>2. \A w : Upto(w, 0)
    BY <1>1
  <2>3. \A N \in Nat : N \in missing <=> ~\E w : Upto(w, N)
    OBVIOUS
  <2> HIDE DEF Upto, missing
  <2>4. PICK N \in missing : \A j \in missing : N <= j
    BY <2>1, LeastNatural
  <2>5. N # 0
    BY <2>2, <2>3, <2>4
  <2>6. N - 1 \in Nat /\ N - 1 \notin missing /\ (N - 1) + 1 = N
    BY <2>1, <2>4, <2>5
  <2>7. PICK w : Upto(w, N - 1)
    BY <2>3, <2>6
  <2>8. Upto(Onward(w), (N - 1) + 1)
    BY <1>5, <2>6, <2>7
  <2>9. QED
    BY <2>1, <2>3, <2>4, <2>6, <2>8
<1>7. PICK w : Upto(w, n + m + 1)
  <2>1. n + m + 1 \in Nat
    BY <1>1
  <2> HIDE DEF Upto
  <2>2. QED
    BY <1>6, <2>1
<1>8. \A c \in 1 .. n + 1, k \in 1 .. m + 1, here \in Nat :
        w[<<c, k, here>>] = Walks(w, d, c, k, here)
  <2>1. TAKE c \in 1 .. n + 1, k \in 1 .. m + 1, here \in Nat
  <2>2. n + m + 2 < c + k + (n + m + 1)
    BY <1>1
  <2>3. QED
    BY <1>7, <2>2
<1>9. \A c \in 1 .. n + 1, k \in 1 .. m + 1, here \in Nat :
        Onward(w)[<<c, k, here>>] = w[<<c, k, here>>]
  BY <1>3, <1>8
<1>10. \A c \in 1 .. n + 1, k \in 1 .. m + 1, here \in Nat :
         Walks(Onward(w), d, c, k, here) = Walks(w, d, c, k, here)
  BY <1>2, <1>9
<1>11. QED
  BY <1>4, <1>10

-----------------------------------------------------------------------------
(* A walk that succeeds leaves, from each of its points on, no address of   *)
(* the code without a chunk and no chunk outside a range of the code.       *)
Stepping(w, d) ==
  \A c \in 1 .. Len(d.code) + 1, k \in 1 .. Len(d.chunks) + 1, here \in Nat :
    w[<<c, k, here>>] = Walks(w, d, c, k, here)

Within(r, s) == s.start <= r.start /\ r.end <= s.end
Has(r, a) == r.start <= a /\ a < r.end
From(d, c, here, b) == IF b = c THEN here ELSE d.code[b].start

AllWithin(d, c, k) ==
  \A j \in k .. Len(d.chunks) : \E b \in c .. Len(d.code) : Within(d.chunks[j], d.code[b])
AllCovered(d, c, k, here) ==
  \A a \in Nat : \A b \in c .. Len(d.code) :
    From(d, c, here, b) <= a /\ a < d.code[b].end =>
      \E j \in k .. Len(d.chunks) : Has(d.chunks[j], a)

LEMMA TablesTyped ==
  ASSUME NEW d \in ModuleDescriptor
  PROVE  /\ Len(d.code) \in Nat /\ Len(d.chunks) \in Nat
         /\ \A c \in 1 .. Len(d.code) : d.code[c].start \in Nat /\ d.code[c].end \in Nat
         /\ \A k \in 1 .. Len(d.chunks) : d.chunks[k].start \in Nat /\ d.chunks[k].end \in Nat
<1>1. d.code \in Seq(ModernGekkoRange) /\ d.chunks \in Seq(ModernGekkoRange)
  BY DEF ModuleDescriptor
<1>2. QED
  BY <1>1, RangesTyped

LEMMA OverAChunk ==
  ASSUME NEW d \in ModuleDescriptor,
         NEW c \in 1 .. Len(d.code), NEW k \in 1 .. Len(d.chunks), NEW here \in Nat,
         d.code[c].start <= here, d.chunks[k].start = here, d.chunks[k].end <= d.code[c].end,
         AllWithin(d, c, k + 1), AllCovered(d, c, k + 1, d.chunks[k].end)
  PROVE  AllWithin(d, c, k) /\ AllCovered(d, c, k, here)
<1> DEFINE n == Len(d.code)
           m == Len(d.chunks)
<1>1. n \in Nat /\ m \in Nat /\ d.chunks[k].end \in Nat
  BY TablesTyped
<1>2. Within(d.chunks[k], d.code[c])
  BY DEF Within
<1> HIDE DEF n, m
<1>3. c \in c .. n /\ k \in k .. m
  BY <1>1 DEF n, m
<1>4. \A j \in k .. m : j = k \/ j \in k + 1 .. m
  BY <1>1 DEF m
<1>5. \A j \in k + 1 .. m : j \in k .. m
  BY <1>1 DEF m
<1>6. AllWithin(d, c, k)
  BY <1>2, <1>3, <1>4 DEF AllWithin, n, m
<1>7. ASSUME NEW a \in Nat, NEW b \in c .. n, From(d, c, here, b) <= a, a < d.code[b].end
      PROVE  \E j \in k .. m : Has(d.chunks[j], a)
  <2>1. CASE b = c /\ a < d.chunks[k].end
    <3>1. Has(d.chunks[k], a)
      BY <1>7, <2>1 DEF Has, From
    <3>2. QED
      BY <1>3, <3>1
  <2>2. CASE b # c \/ ~(a < d.chunks[k].end)
    <3>1. From(d, c, d.chunks[k].end, b) <= a
      BY <1>1, <1>7, <2>2 DEF From
    <3>2. PICK j \in k + 1 .. m : Has(d.chunks[j], a)
      BY <1>7, <3>1 DEF AllCovered, n, m
    <3>3. QED
      BY <1>5, <3>2
  <2>3. QED
    BY <2>1, <2>2
<1>8. QED
  BY <1>6, <1>7 DEF AllCovered, n, m

LEMMA OverACodeRange ==
  ASSUME NEW d \in ModuleDescriptor,
         NEW c \in 1 .. Len(d.code), NEW k \in 1 .. Len(d.chunks) + 1, NEW here \in Nat,
         NEW next \in Nat, c < Len(d.code) => next = d.code[c + 1].start,
         here = d.code[c].end, AllWithin(d, c + 1, k), AllCovered(d, c + 1, k, next)
  PROVE  AllWithin(d, c, k) /\ AllCovered(d, c, k, here)
<1> DEFINE n == Len(d.code)
<1>1. n \in Nat
  BY TablesTyped
<1> HIDE DEF n
<1>2. \A b \in c + 1 .. n : b \in c .. n
  BY <1>1 DEF n
<1>3. AllWithin(d, c, k)
  BY <1>2 DEF AllWithin, n
<1>4. ASSUME NEW a \in Nat, NEW b \in c .. n, From(d, c, here, b) <= a, a < d.code[b].end
      PROVE  \E j \in k .. Len(d.chunks) : Has(d.chunks[j], a)
  <2>1. b # c
    BY <1>4, TablesTyped DEF From
  <2>2. b \in c + 1 .. n
    BY <1>1, <2>1
  <2>3. From(d, c + 1, next, b) <= a
    BY <1>1, <1>4, <2>1, <2>2 DEF From, n
  <2>4. QED
    BY <1>4, <2>2, <2>3 DEF AllCovered, n
<1>5. QED
  BY <1>3, <1>4 DEF AllCovered, n

LEMMA WalkIsSound ==
  ASSUME NEW d \in ModuleDescriptor, NEW w, Follow(d.chunks), Stepping(w, d),
         NEW first \in 1 .. Len(d.code) + 1, NEW start \in Nat,
         first <= Len(d.code) => d.code[first].start <= start, w[<<first, 1, start>>]
  PROVE  AllWithin(d, first, 1) /\ AllCovered(d, first, 1, start)
<1> DEFINE n == Len(d.code)
           m == Len(d.chunks)
           Behind(c, here) == c <= n => d.code[c].start <= here
           Shown(c, k, here) == AllWithin(d, c, k) /\ AllCovered(d, c, k, here)
           Wrong(c, k, here) == w[<<c, k, here>>] /\ Behind(c, here) /\ ~Shown(c, k, here)
           wrong == {N \in Nat : \E c \in 1 .. n + 1, k \in 1 .. m + 1, here \in Nat :
                       c + k + N = n + m + 2 /\ Wrong(c, k, here)}
<1>1. /\ n \in Nat /\ m \in Nat
      /\ \A c \in 1 .. n : d.code[c].start \in Nat /\ d.code[c].end \in Nat
      /\ \A k \in 1 .. m : d.chunks[k].start \in Nat /\ d.chunks[k].end \in Nat
  BY TablesTyped
<1>2. ASSUME NEW c \in 1 .. n + 1, NEW k \in 1 .. m + 1, NEW here \in Nat, Wrong(c, k, here)
      PROVE  \E b \in 1 .. n + 1, j \in 1 .. m + 1, next \in Nat :
               b + j = c + k + 1 /\ Wrong(b, j, next)
  <2>1. Walks(w, d, c, k, here)
    BY <1>2 DEF Stepping
  <2>2. CASE c = n + 1
    <3>1. k > m
      BY <1>1, <2>1, <2>2 DEF Walks
    <3>2. k .. m = {} /\ c .. n = {}
      BY <1>1, <2>2, <3>1
    <3>3. Shown(c, k, here)
      BY <3>2 DEF AllWithin, AllCovered
    <3>4. QED
      BY <1>2, <3>3
  <2>3. CASE c \in 1 .. n /\ k <= m /\ d.chunks[k].start < d.code[c].end
    <3>1. k \in 1 .. m /\ ~(c > n)
      BY <1>1, <2>3
    <3>2. /\ d.chunks[k].start = here /\ d.chunks[k].end <= d.code[c].end
          /\ w[<<c, k + 1, d.chunks[k].end>>]
      BY <2>1, <2>3, <3>1 DEF Walks
    <3>3. d.chunks[k].start < d.chunks[k].end
      BY <3>1 DEF Follow, ModuleDescriptor
    <3>4. d.code[c].start <= here
      BY <1>2, <3>1
    <3>5. d.chunks[k].end \in Nat /\ d.code[c].start <= d.chunks[k].end
      <4>1. d.chunks[k].end \in Nat /\ d.code[c].start \in Nat
        BY <1>1, <2>3, <3>1
      <4>2. here < d.chunks[k].end
        BY <3>2, <3>3
      <4> DEFINE e == d.chunks[k].end
                 f == d.code[c].start
      <4>3. e \in Nat /\ f \in Nat /\ f <= here /\ here < e
        BY <3>4, <4>1, <4>2
      <4> HIDE DEF e, f
      <4>4. f <= e
        BY <4>3
      <4>5. QED
        BY <4>3, <4>4 DEF e, f
    <3>6. ~Shown(c, k + 1, d.chunks[k].end)
      BY <1>2, <2>3, <3>1, <3>2, <3>4, OverAChunk
    <3>7. k + 1 \in 1 .. m + 1 /\ c + (k + 1) = c + k + 1
      BY <1>1, <3>1
    <3>8. Wrong(c, k + 1, d.chunks[k].end)
      BY <3>2, <3>5, <3>6
    <3> HIDE DEF Wrong
    <3>9. QED
      BY <3>5, <3>7, <3>8
  <2>4. CASE c \in 1 .. n /\ ~(k <= m /\ d.chunks[k].start < d.code[c].end)
    <3> DEFINE next == IF c < n THEN d.code[c + 1].start ELSE here
    <3>1. ~(c > n) /\ c + 1 \in 1 .. n + 1 /\ (c < n => c + 1 \in 1 .. n)
          /\ (c + 1) + k = c + k + 1
      BY <1>1, <2>4
    <3>2. next \in Nat
      BY <1>1, <3>1
    <3>3. here = d.code[c].end /\ w[<<c + 1, k, next>>]
      BY <2>1, <2>4, <3>1 DEF Walks
    <3>4. Behind(c + 1, next)
      <4>1. ASSUME c + 1 <= n
            PROVE  d.code[c + 1].start <= next
        <5>1. c < n /\ d.code[c + 1].start \in Nat
          BY <1>1, <2>4, <3>1, <4>1
        <5>2. QED
          BY <5>1
      <4>2. QED
        BY <4>1
    <3>5. ~Shown(c + 1, k, next)
      <4>1. c < n => next = d.code[c + 1].start
        OBVIOUS
      <4> HIDE DEF next
      <4>2. QED
        BY <1>2, <2>4, <3>2, <3>3, <4>1, OverACodeRange
    <3>6. Wrong(c + 1, k, next)
      BY <3>3, <3>4, <3>5
    <3> HIDE DEF Wrong, next
    <3>7. QED
      BY <3>1, <3>2, <3>6
  <2>5. c = n + 1 \/ c \in 1 .. n
    <3> HIDE DEF n
    <3>1. QED
      BY <1>1
  <2>6. QED
    BY <2>2, <2>3, <2>4, <2>5
<1>3. wrong = {}
  <2> SUFFICES ASSUME wrong # {} PROVE FALSE
    OBVIOUS
  <2> HIDE DEF Wrong, n, m
  <2>0. PICK N \in wrong : \A j \in wrong : N <= j
    BY LeastNatural
  <2>1. N \in Nat /\ N \in wrong /\ \A j \in wrong : N <= j
    BY <2>0
  <2>2. PICK c \in 1 .. n + 1, k \in 1 .. m + 1, here \in Nat :
          c + k + N = n + m + 2 /\ Wrong(c, k, here)
    BY <2>1
  <2>3. PICK b \in 1 .. n + 1, j \in 1 .. m + 1, next \in Nat :
          b + j = c + k + 1 /\ Wrong(b, j, next)
    BY <1>2, <2>2
  <2>4. N # 0 /\ b + j + (N - 1) = n + m + 2
    <3> HIDE DEF wrong
    <3>1. c \in Int /\ k \in Int /\ b \in Int /\ j \in Int /\ b <= n + 1 /\ j <= m + 1
      BY <1>1
    <3>2. c + k + N = n + m + 2 /\ b + j = c + k + 1
      BY <2>2, <2>3
    <3>3. n \in Int /\ m \in Int /\ N \in Int
      BY <1>1, <2>1
    <3>4. QED
      BY ONLY <3>1, <3>2, <3>3
  <2>5. N - 1 \in Nat
    <3> HIDE DEF wrong
    <3>1. QED
      BY <2>1, <2>4
  <2>6. N - 1 \in wrong
    BY <2>3, <2>4, <2>5
  <2> HIDE DEF wrong
  <2>7. QED
    BY <2>1, <2>6
<1>4. ~Wrong(first, 1, start)
  <2> HIDE DEF Wrong
  <2> DEFINE N == n + m + 1 - first
  <2> HIDE DEF n, m
  <2>1. 1 \in 1 .. m + 1 /\ N \in Nat /\ first + 1 + N = n + m + 2
    <3>1. first \in 1 .. n + 1
      BY DEF n
    <3>2. QED
      BY <1>1, <3>1
  <2> HIDE DEF N
  <2>2. QED
    BY <1>3, <2>1 DEF n, m
<1>5. QED
  BY <1>4

-----------------------------------------------------------------------------
(* Chunks that lie in the code and cover it are walked to the end: so far   *)
(* the chunks before the cursor are behind it, the others lie ahead.        *)
Reached(d, c, k, here) ==
  /\ c <= Len(d.code) => d.code[c].start <= here /\ here <= d.code[c].end
  /\ \A j \in 1 .. k - 1 : d.chunks[j].end <= here
  /\ \A j \in k .. Len(d.chunks) : here <= d.chunks[j].start
  /\ AllWithin(d, c, k)

Tiled(d) ==
  \A a \in Nat : \A b \in 1 .. Len(d.code) :
    Has(d.code[b], a) => \E j \in 1 .. Len(d.chunks) : Has(d.chunks[j], a)

LEMMA NoMore ==
  \A x, y, z \in Nat : x <= y /\ y <= z => x <= z
OBVIOUS

LEMMA FollowTyped ==
  ASSUME NEW d \in ModuleDescriptor, Follow(d.code), Follow(d.chunks)
  PROVE  /\ \A c \in 1 .. Len(d.code) : d.code[c].start < d.code[c].end
         /\ \A k \in 1 .. Len(d.chunks) : d.chunks[k].start < d.chunks[k].end
         /\ \A b, c \in 1 .. Len(d.code) : b < c => d.code[b].end <= d.code[c].start
         /\ \A j, k \in 1 .. Len(d.chunks) : j < k =>
              d.chunks[j].end <= d.chunks[k].start /\ d.chunks[j].start <= d.chunks[k].start
<1>1. d.code \in Seq(ModernGekkoRange) /\ d.chunks \in Seq(ModernGekkoRange)
  BY DEF ModuleDescriptor
<1>2. DOMAIN d.code = 1 .. Len(d.code) /\ DOMAIN d.chunks = 1 .. Len(d.chunks)
  BY <1>1, RangesTyped
<1>3. \A j, k \in 1 .. Len(d.chunks) : j < k => d.chunks[j].end <= d.chunks[k].start
  BY <1>2 DEF Follow
<1>4. \A k \in 1 .. Len(d.chunks) : d.chunks[k].start < d.chunks[k].end
  BY <1>2 DEF Follow
<1>5. ASSUME NEW j \in 1 .. Len(d.chunks), NEW k \in 1 .. Len(d.chunks), j < k
      PROVE  d.chunks[j].start <= d.chunks[k].start
  <2>1. d.chunks[j].start < d.chunks[j].end /\ d.chunks[j].end <= d.chunks[k].start
    BY <1>3, <1>4, <1>5
  <2>2. d.chunks[j].start \in Nat /\ d.chunks[j].end \in Nat /\ d.chunks[k].start \in Nat
    BY TablesTyped
  <2>3. QED
    BY <2>1, <2>2
<1>6. QED
  BY <1>2, <1>3, <1>4, <1>5 DEF Follow

(* The first chunk that is ahead begins at the cursor, or none is left in   *)
(* this range of the code.                                                  *)
LEMMA NextChunk ==
  ASSUME NEW d \in ModuleDescriptor, Follow(d.code), Follow(d.chunks), Tiled(d),
         NEW c \in 1 .. Len(d.code), NEW k \in 1 .. Len(d.chunks) + 1, NEW here \in Nat,
         Reached(d, c, k, here), here < d.code[c].end
  PROVE  k \in 1 .. Len(d.chunks) /\ d.chunks[k].start = here
<1>1. Has(d.code[c], here)
  BY DEF Reached, Has
<1>2. PICK j \in 1 .. Len(d.chunks) : Has(d.chunks[j], here)
  BY <1>1 DEF Tiled
<1>3. d.chunks[j].start \in Nat /\ d.chunks[j].end \in Nat /\ Len(d.chunks) \in Nat
  BY TablesTyped
<1>4. ~(j \in 1 .. k - 1)
  <2>1. here < d.chunks[j].end
    BY <1>2 DEF Has
  <2>2. ~(d.chunks[j].end <= here)
    BY <1>3, <2>1
  <2>3. QED
    BY <2>2 DEF Reached
<1>5. k \in 1 .. Len(d.chunks) /\ (j = k \/ k < j)
  BY <1>3, <1>4
<1>6. /\ d.chunks[k].start \in Nat /\ d.chunks[k].start <= d.chunks[j].start
      /\ here <= d.chunks[k].start /\ d.chunks[j].start <= here
  <2>1. d.chunks[k].start \in Nat
    BY <1>5, TablesTyped
  <2>2. here <= d.chunks[k].start
    <3>1. k \in k .. Len(d.chunks)
      BY <1>3, <1>5
    <3>2. QED
      BY <3>1 DEF Reached
  <2>3. k < j => d.chunks[k].start <= d.chunks[j].start
    BY <1>5, FollowTyped
  <2>4. QED
    BY <1>2, <1>3, <1>5, <2>1, <2>2, <2>3 DEF Has
<1>7. QED
  BY <1>3, <1>5, <1>6

LEMMA ReachedOverAChunk ==
  ASSUME NEW d \in ModuleDescriptor, Follow(d.code), Follow(d.chunks), Tiled(d),
         NEW c \in 1 .. Len(d.code), NEW k \in 1 .. Len(d.chunks), NEW here \in Nat,
         Reached(d, c, k, here), d.chunks[k].start < d.code[c].end
  PROVE  /\ d.chunks[k].start = here /\ d.chunks[k].end <= d.code[c].end
         /\ Reached(d, c, k + 1, d.chunks[k].end)
<1> DEFINE n == Len(d.code)
           m == Len(d.chunks)
           start == d.chunks[k].start
           end == d.chunks[k].end
<1>1. n \in Nat /\ m \in Nat /\ start \in Nat /\ end \in Nat /\ start < end
  BY TablesTyped, FollowTyped
<1>2. d.code[c].start \in Nat /\ d.code[c].end \in Nat
  BY TablesTyped
<1>3. k \in k .. m /\ \A j \in k + 1 .. m : j \in k .. m /\ j \in 1 .. m /\ k < j
  BY <1>1
<1>4. here <= start /\ d.code[c].start <= here
  <2>1. c <= n
    OBVIOUS
  <2>2. QED
    BY <1>3, <2>1 DEF Reached
<1>5. start = here
  <2>1. here < d.code[c].end
    BY <1>1, <1>2, <1>4
  <2>2. k \in 1 .. Len(d.chunks) + 1
    BY <1>1
  <2>3. QED
    BY <2>1, <2>2, NextChunk
<1>6. PICK b \in c .. n : Within(d.chunks[k], d.code[b])
  BY <1>3 DEF Reached, AllWithin
<1>7. b = c
  <2> SUFFICES ASSUME b # c PROVE FALSE
    OBVIOUS
  <2>1. b \in 1 .. n /\ c < b
    BY <1>1
  <2>2. d.code[c].end <= d.code[b].start /\ d.code[b].start \in Nat
    BY <2>1, FollowTyped, TablesTyped
  <2>3. d.code[b].start <= start
    BY <1>6 DEF Within
  <2>4. QED
    BY <1>1, <1>2, <2>2, <2>3
<1>8. end <= d.code[c].end
  BY <1>6, <1>7 DEF Within
<1>9. d.code[c].start <= end
  BY <1>1, <1>2, <1>4
<1>10. \A j \in 1 .. (k + 1) - 1 : d.chunks[j].end <= end
  <2>1. TAKE j \in 1 .. (k + 1) - 1
  <2>2. CASE j = k
    BY <1>1, <2>2
  <2>3. CASE j # k
    <3>1. j \in 1 .. m /\ j < k
      BY <1>1, <2>3
    <3>2. d.chunks[j].end <= start /\ d.chunks[j].end \in Nat
      BY <3>1, FollowTyped, TablesTyped
    <3>3. QED
      BY <1>1, <3>2
  <2>4. QED
    BY <2>2, <2>3
<1>11. \A j \in k + 1 .. m : end <= d.chunks[j].start
  BY <1>3, FollowTyped
<1>12. AllWithin(d, c, k + 1)
  BY <1>3 DEF Reached, AllWithin
<1>13. QED
  BY <1>5, <1>8, <1>9, <1>10, <1>11, <1>12 DEF Reached

LEMMA ReachedOverACodeRange ==
  ASSUME NEW d \in ModuleDescriptor, Follow(d.code), Follow(d.chunks), Tiled(d),
         NEW c \in 1 .. Len(d.code), NEW k \in 1 .. Len(d.chunks) + 1, NEW here \in Nat,
         Reached(d, c, k, here),
         ~(k <= Len(d.chunks) /\ d.chunks[k].start < d.code[c].end),
         NEW next \in Nat,
         c < Len(d.code) => next = d.code[c + 1].start,
         c = Len(d.code) => next = here
  PROVE  here = d.code[c].end /\ Reached(d, c + 1, k, next)
<1> DEFINE n == Len(d.code)
           m == Len(d.chunks)
<1>1. n \in Nat /\ m \in Nat /\ d.code[c].start \in Nat /\ d.code[c].end \in Nat
  BY TablesTyped
<1>2. here <= d.code[c].end
  <2>1. c <= n
    OBVIOUS
  <2>2. QED
    BY <2>1 DEF Reached
<1>3. here = d.code[c].end
  <2> SUFFICES ASSUME here # d.code[c].end PROVE FALSE
    OBVIOUS
  <2>1. here < d.code[c].end
    BY <1>1, <1>2
  <2>2. k \in 1 .. m /\ d.chunks[k].start = here
    BY <2>1, NextChunk
  <2>3. k <= m
    BY <1>1, <2>2
  <2>4. QED
    BY <2>1, <2>2, <2>3
<1>4. ASSUME NEW j \in k .. m, NEW b \in c .. n, Within(d.chunks[j], d.code[b])
      PROVE  b \in c + 1 .. n
  <2>1. k \in 1 .. m /\ k <= m /\ j \in 1 .. m /\ (k = j \/ k < j)
    BY <1>1
  <2>2. /\ d.chunks[k].start \in Nat /\ d.chunks[j].start \in Nat /\ d.chunks[j].end \in Nat
        /\ d.chunks[j].start < d.chunks[j].end
        /\ k < j => d.chunks[k].start <= d.chunks[j].start
    BY <2>1, TablesTyped, FollowTyped
  <2>3. d.code[c].end <= d.chunks[k].start
    <3>1. ~(d.chunks[k].start < d.code[c].end)
      BY <2>1
    <3> DEFINE x == d.code[c].end
               y == d.chunks[k].start
    <3>2. x \in Nat /\ y \in Nat /\ ~(y < x)
      BY <1>1, <2>2, <3>1
    <3> HIDE DEF x, y
    <3>3. x <= y
      BY <3>2
    <3>4. QED
      BY <3>3 DEF x, y
  <2>4. ~(d.chunks[j].end <= d.code[c].end)
    <3>1. d.code[c].end <= d.chunks[j].start
      <4>1. CASE k = j
        BY <2>3, <4>1
      <4>2. CASE k < j
        BY <1>1, <2>2, <2>3, <4>2, NoMore
      <4>3. QED
        BY <2>1, <4>1, <4>2
    <3>2. ~(d.chunks[j].end <= d.chunks[j].start)
      BY <2>2
    <3>3. QED
      BY <1>1, <2>2, <3>1, <3>2, NoMore
  <2>5. b # c
    BY <1>4, <2>4 DEF Within
  <2>6. QED
    BY <1>1, <2>5
<1>5. AllWithin(d, c + 1, k)
  BY <1>4 DEF Reached, AllWithin
<1>6. CASE c = n
  <2>1. ~(c + 1 <= n) /\ next = here
    BY <1>1, <1>6
  <2>2. QED
    BY <1>3, <1>5, <2>1 DEF Reached
<1>7. CASE c < n
  <2>1. c + 1 \in 1 .. n /\ next = d.code[c + 1].start
    BY <1>1, <1>7
  <2>2. /\ d.code[c + 1].start \in Nat /\ d.code[c + 1].end \in Nat
        /\ d.code[c + 1].start < d.code[c + 1].end
        /\ d.code[c].end <= d.code[c + 1].start
    <3>1. c < c + 1
      BY <1>1
    <3>2. QED
      BY <2>1, <3>1, TablesTyped, FollowTyped
  <2>3. next <= d.code[c + 1].end
    BY <2>1, <2>2
  <2>4. d.code[c + 1].start <= next
    BY <2>1, <2>2
  <2>5. \A j \in 1 .. k - 1 : d.chunks[j].end <= next
    <3>1. TAKE j \in 1 .. k - 1
    <3>2. d.chunks[j].end <= here
      BY DEF Reached
    <3>3. d.chunks[j].end \in Nat
      <4>1. j \in 1 .. m
        BY <1>1
      <4>2. QED
        BY <4>1, TablesTyped
    <3>4. d.chunks[j].end <= d.code[c].end
      BY <1>3, <3>2
    <3>5. d.chunks[j].end <= d.code[c + 1].start
      BY <1>1, <2>2, <3>3, <3>4, NoMore
    <3>6. QED
      BY <2>1, <3>5
  <2>6. \A j \in k .. m : next <= d.chunks[j].start
    <3>1. TAKE j \in k .. m
    <3>2. PICK b \in c + 1 .. n : Within(d.chunks[j], d.code[b])
      BY <1>5 DEF AllWithin
    <3>3. b \in 1 .. n /\ (b = c + 1 \/ c + 1 < b)
      BY <1>1
    <3>4. d.code[b].start \in Nat /\ d.code[b].end \in Nat
      BY <3>3, TablesTyped
    <3>5. d.code[c + 1].start <= d.code[b].start
      <4>1. CASE b = c + 1
        BY <3>4, <4>1
      <4>2. CASE c + 1 < b
        <5>1. d.code[c + 1].end <= d.code[b].start
          BY <2>1, <3>3, <4>2, FollowTyped
        <5>2. QED
          <6> DEFINE x == d.code[c + 1].start
                     y == d.code[c + 1].end
                     z == d.code[b].start
          <6>1. x \in Nat /\ y \in Nat /\ z \in Nat /\ x < y /\ y <= z
            BY <2>2, <3>4, <5>1
          <6> HIDE DEF x, y, z
          <6>2. x <= z
            BY <6>1
          <6>3. QED
            BY <6>2 DEF x, y, z
      <4>3. QED
        BY <3>3, <4>1, <4>2
    <3>6. d.code[b].start <= d.chunks[j].start /\ d.chunks[j].start \in Nat
      <4>1. j \in 1 .. m
        BY <1>1
      <4>2. QED
        BY <3>2, <4>1, TablesTyped DEF Within
    <3>7. d.code[c + 1].start <= d.chunks[j].start
      BY <2>2, <3>4, <3>5, <3>6, NoMore
    <3>8. QED
      BY <2>1, <3>7
  <2>7. QED
    BY <1>3, <1>5, <2>3, <2>4, <2>5, <2>6 DEF Reached
<1>8. QED
  BY <1>1, <1>6, <1>7

LEMMA WalkIsComplete ==
  ASSUME NEW d \in ModuleDescriptor, NEW w, Stepping(w, d),
         Follow(d.code), Follow(d.chunks), Tiled(d),
         NEW first \in 1 .. Len(d.code) + 1, NEW start \in Nat, Reached(d, first, 1, start)
  PROVE  w[<<first, 1, start>>]
<1> DEFINE n == Len(d.code)
           m == Len(d.chunks)
           Wrong(c, k, here) == Reached(d, c, k, here) /\ ~w[<<c, k, here>>]
           wrong == {N \in Nat : \E c \in 1 .. n + 1, k \in 1 .. m + 1, here \in Nat :
                       c + k + N = n + m + 2 /\ Wrong(c, k, here)}
<1>1. n \in Nat /\ m \in Nat
  BY TablesTyped
<1>2. ASSUME NEW c \in 1 .. n + 1, NEW k \in 1 .. m + 1, NEW here \in Nat, Wrong(c, k, here)
      PROVE  \E b \in 1 .. n + 1, j \in 1 .. m + 1, next \in Nat :
               b + j = c + k + 1 /\ Wrong(b, j, next)
  <2>1. ~Walks(w, d, c, k, here)
    BY <1>2 DEF Stepping
  <2>2. CASE c = n + 1
    <3>1. ~(k > m)
      BY <1>1, <2>1, <2>2 DEF Walks
    <3>2. k \in k .. m /\ c .. n = {}
      BY <1>1, <2>2, <3>1
    <3>3. QED
      BY <1>2, <3>2 DEF Reached, AllWithin
  <2>3. CASE c \in 1 .. n /\ k <= m /\ d.chunks[k].start < d.code[c].end
    <3>1. k \in 1 .. m /\ ~(c > n)
      BY <1>1, <2>3
    <3>2. /\ d.chunks[k].start = here /\ d.chunks[k].end <= d.code[c].end
          /\ Reached(d, c, k + 1, d.chunks[k].end)
      BY <1>2, <2>3, <3>1, ReachedOverAChunk
    <3>3. ~w[<<c, k + 1, d.chunks[k].end>>]
      BY <2>1, <2>3, <3>1, <3>2 DEF Walks
    <3>4. d.chunks[k].end \in Nat /\ k + 1 \in 1 .. m + 1 /\ c + (k + 1) = c + k + 1
      <4>1. d.chunks[k].end \in Nat
        BY <3>1, TablesTyped
      <4>2. QED
        BY <1>1, <3>1, <4>1
    <3>5. Wrong(c, k + 1, d.chunks[k].end)
      BY <3>2, <3>3
    <3> HIDE DEF Wrong
    <3>6. QED
      BY <3>4, <3>5
  <2>4. CASE c \in 1 .. n /\ ~(k <= m /\ d.chunks[k].start < d.code[c].end)
    <3> DEFINE next == IF c < n THEN d.code[c + 1].start ELSE here
    <3>1. ~(c > n) /\ c + 1 \in 1 .. n + 1 /\ (c < n => c + 1 \in 1 .. n)
          /\ (c + 1) + k = c + k + 1 /\ (c = n => ~(c < n))
      BY <1>1, <2>4
    <3>2. next \in Nat /\ (c < n => next = d.code[c + 1].start) /\ (c = n => next = here)
      BY <3>1, TablesTyped
    <3>3. ~(here = d.code[c].end /\ w[<<c + 1, k, next>>])
      BY <2>1, <2>4, <3>1 DEF Walks
    <3> HIDE DEF next
    <3>4. here = d.code[c].end /\ Reached(d, c + 1, k, next)
      BY <1>2, <2>4, <3>2, ReachedOverACodeRange
    <3>5. Wrong(c + 1, k, next)
      BY <3>3, <3>4
    <3> HIDE DEF Wrong
    <3>6. QED
      BY <3>1, <3>2, <3>5
  <2>5. c = n + 1 \/ c \in 1 .. n
    <3> HIDE DEF n
    <3>1. QED
      BY <1>1
  <2>6. QED
    BY <2>2, <2>3, <2>4, <2>5
<1>3. wrong = {}
  <2> SUFFICES ASSUME wrong # {} PROVE FALSE
    OBVIOUS
  <2> HIDE DEF Wrong, n, m
  <2>0. PICK N \in wrong : \A j \in wrong : N <= j
    BY LeastNatural
  <2>1. N \in Nat /\ N \in wrong /\ \A j \in wrong : N <= j
    BY <2>0
  <2>2. PICK c \in 1 .. n + 1, k \in 1 .. m + 1, here \in Nat :
          c + k + N = n + m + 2 /\ Wrong(c, k, here)
    BY <2>1
  <2>3. PICK b \in 1 .. n + 1, j \in 1 .. m + 1, next \in Nat :
          b + j = c + k + 1 /\ Wrong(b, j, next)
    BY <1>2, <2>2
  <2>4. N # 0 /\ b + j + (N - 1) = n + m + 2
    <3> HIDE DEF wrong
    <3>1. c \in Int /\ k \in Int /\ b \in Int /\ j \in Int /\ b <= n + 1 /\ j <= m + 1
      BY <1>1
    <3>2. c + k + N = n + m + 2 /\ b + j = c + k + 1
      BY <2>2, <2>3
    <3>3. n \in Int /\ m \in Int /\ N \in Int
      BY <1>1, <2>1
    <3>4. QED
      BY ONLY <3>1, <3>2, <3>3
  <2>5. N - 1 \in Nat
    <3> HIDE DEF wrong
    <3>1. QED
      BY <2>1, <2>4
  <2>6. N - 1 \in wrong
    BY <2>3, <2>4, <2>5
  <2> HIDE DEF wrong
  <2>7. QED
    BY <2>1, <2>6
<1>4. ~Wrong(first, 1, start)
  <2> HIDE DEF Wrong
  <2> DEFINE N == n + m + 1 - first
  <2> HIDE DEF n, m
  <2>1. 1 \in 1 .. m + 1 /\ N \in Nat /\ first + 1 + N = n + m + 2
    <3>1. first \in 1 .. n + 1
      BY DEF n
    <3>2. QED
      BY <1>1, <3>1
  <2> HIDE DEF N
  <2>2. QED
    BY <1>3, <2>1 DEF n, m
<1>5. QED
  BY <1>4

-----------------------------------------------------------------------------
(* The loops decide just what they are for.                                 *)
LEMMA ChunksTileCodeExactly ==
  ASSUME NEW d \in ModuleDescriptor, d.code # <<>>, Follow(d.code)
  PROVE  ChunksTileCode(d) <=>
           d.chunks # <<>> /\ d.hashes /\ Follow(d.chunks) /\ AllWithin(d, 1, 1) /\ Tiled(d)
<1> DEFINE w == CHOOSE w : Walk(w, d)
           start == d.code[1].start
<1>1. Walk(w, d)
  BY WalkExists
<1> HIDE DEF w
<1>2. Stepping(w, d)
  BY <1>1 DEF Walk, Stepping
<1>3. ChunksTileCode(d) <=> RangesAreValid(d.chunks) /\ d.hashes /\ w[<<1, 1, start>>]
  BY ChunksWalk DEF w
<1>4. d.code \in Seq(ModernGekkoRange) /\ d.chunks \in Seq(ModernGekkoRange)
  BY DEF ModuleDescriptor
<1>5. RangesAreValid(d.chunks) <=> d.chunks # <<>> /\ Follow(d.chunks)
  BY <1>4, ValidRangesFollow
<1>6. Len(d.code) \in Nat /\ 1 \in 1 .. Len(d.code) /\ 1 \in 1 .. Len(d.code) + 1
      /\ start \in Nat /\ d.code[1].end \in Nat /\ start < d.code[1].end
  <2>1. Len(d.code) \in Nat /\ Len(d.code) # 0
    BY <1>4
  <2>2. 1 \in 1 .. Len(d.code) /\ 1 \in DOMAIN d.code
    BY <1>4, <2>1
  <2>3. QED
    BY <2>1, <2>2, TablesTyped DEF Follow
<1>7. ASSUME Follow(d.chunks), w[<<1, 1, start>>]
      PROVE  AllWithin(d, 1, 1) /\ Tiled(d)
  <2>1. AllWithin(d, 1, 1) /\ AllCovered(d, 1, 1, start)
    <3>1. 1 <= Len(d.code) => d.code[1].start <= start
      BY <1>6
    <3> HIDE DEF start
    <3>2. QED
      BY <1>2, <1>6, <1>7, <3>1, WalkIsSound
  <2>2. \A b \in 1 .. Len(d.code) : From(d, 1, start, b) = d.code[b].start
    BY DEF From
  <2>3. Tiled(d)
    BY <2>1, <2>2 DEF Tiled, AllCovered, Has
  <2>4. QED
    BY <2>1, <2>3
<1>8. ASSUME Follow(d.chunks), AllWithin(d, 1, 1), Tiled(d)
      PROVE  w[<<1, 1, start>>]
  <2>1. \A j \in 1 .. Len(d.chunks) : start <= d.chunks[j].start
    <3>1. TAKE j \in 1 .. Len(d.chunks)
    <3>2. PICK b \in 1 .. Len(d.code) : Within(d.chunks[j], d.code[b])
      BY <1>8 DEF AllWithin
    <3>3. d.code[b].start \in Nat /\ d.chunks[j].start \in Nat
      BY TablesTyped
    <3>4. start <= d.code[b].start
      <4>1. CASE b = 1
        BY <3>3, <4>1
      <4>2. CASE 1 < b
        <5>1. d.code[1].end <= d.code[b].start
          BY <1>6, <1>8, <4>2, FollowTyped
        <5>2. start <= d.code[1].end
          BY <1>6
        <5> HIDE DEF start
        <5>3. QED
          BY <1>6, <3>3, <5>1, <5>2, NoMore
      <4>3. QED
        BY <1>6, <4>1, <4>2
    <3>5. d.code[b].start <= d.chunks[j].start
      BY <3>2 DEF Within
    <3> HIDE DEF start
    <3>6. QED
      BY <1>6, <3>3, <3>4, <3>5, NoMore
  <2>2. 1 .. 1 - 1 = {}
    OBVIOUS
  <2>3. d.code[1].start <= start /\ start <= d.code[1].end
    BY <1>6
  <2>4. Reached(d, 1, 1, start)
    BY <1>8, <2>1, <2>2, <2>3 DEF Reached
  <2> HIDE DEF start
  <2>5. QED
    BY <1>2, <1>6, <1>8, <2>4, WalkIsComplete
<1>9. QED
  BY <1>3, <1>5, <1>7, <1>8

LEMMA WithinIsInside ==
  ASSUME NEW r \in ModernGekkoRange, NEW s \in ModernGekkoRange, r.start < r.end
  PROVE  Within(r, s) <=> Addresses(r) \subseteq Addresses(s)
<1>1. r.start \in Nat /\ r.end \in Nat /\ s.start \in Nat /\ s.end \in Nat
  BY DEF ModernGekkoRange
<1>2. r.start \in Addresses(r) /\ r.end - 1 \in Addresses(r)
  BY <1>1 DEF Addresses
<1>3. QED
  BY <1>1, <1>2 DEF Within, Addresses

LEMMA TilingIsEquality ==
  ASSUME NEW d \in ModuleDescriptor, Follow(d.chunks)
  PROVE  AllWithin(d, 1, 1) /\ Tiled(d) <=>
           /\ AddressesOf(d.chunks) = AddressesOf(d.code)
           /\ \A k \in DOMAIN d.chunks : \E c \in DOMAIN d.code :
                Addresses(d.chunks[k]) \subseteq Addresses(d.code[c])
<1>1. /\ d.code \in Seq(ModernGekkoRange) /\ d.chunks \in Seq(ModernGekkoRange)
      /\ DOMAIN d.code = 1 .. Len(d.code) /\ DOMAIN d.chunks = 1 .. Len(d.chunks)
  BY DEF ModuleDescriptor
<1>2. AllWithin(d, 1, 1) <=> \A k \in DOMAIN d.chunks : \E c \in DOMAIN d.code :
                               Addresses(d.chunks[k]) \subseteq Addresses(d.code[c])
  <2>1. \A k \in DOMAIN d.chunks : \A c \in DOMAIN d.code :
          Within(d.chunks[k], d.code[c]) <=> Addresses(d.chunks[k]) \subseteq Addresses(d.code[c])
    <3>0. TAKE k \in DOMAIN d.chunks
    <3>1. TAKE c \in DOMAIN d.code
    <3>2. d.chunks[k] \in ModernGekkoRange /\ d.code[c] \in ModernGekkoRange
      BY <1>1
    <3>3. d.chunks[k].start < d.chunks[k].end
      BY DEF Follow
    <3>4. QED
      BY <3>2, <3>3, WithinIsInside
  <2>2. QED
    BY <1>1, <2>1 DEF AllWithin
<1>3. \A k \in DOMAIN d.chunks : \A a : a \in Addresses(d.chunks[k]) <=> a \in Nat /\ Has(d.chunks[k], a)
  <2>1. TAKE k \in DOMAIN d.chunks
  <2>2. d.chunks[k].start \in Nat /\ d.chunks[k].end \in Nat
    BY <1>1, TablesTyped
  <2>3. QED
    BY <2>2 DEF Addresses, Has
<1>4. \A c \in DOMAIN d.code : \A a : a \in Addresses(d.code[c]) <=> a \in Nat /\ Has(d.code[c], a)
  <2>1. TAKE c \in DOMAIN d.code
  <2>2. d.code[c].start \in Nat /\ d.code[c].end \in Nat
    BY <1>1, TablesTyped
  <2>3. QED
    BY <2>2 DEF Addresses, Has
<1>5. \A a : a \in AddressesOf(d.code) <=> a \in Nat /\ \E c \in DOMAIN d.code : Has(d.code[c], a)
  BY <1>4 DEF AddressesOf
<1>6. \A a : a \in AddressesOf(d.chunks) <=> a \in Nat /\ \E k \in DOMAIN d.chunks : Has(d.chunks[k], a)
  BY <1>3 DEF AddressesOf
<1>7. Tiled(d) <=> AddressesOf(d.code) \subseteq AddressesOf(d.chunks)
  BY <1>1, <1>5, <1>6 DEF Tiled
<1>8. (\A k \in DOMAIN d.chunks : \E c \in DOMAIN d.code :
         Addresses(d.chunks[k]) \subseteq Addresses(d.code[c]))
      => AddressesOf(d.chunks) \subseteq AddressesOf(d.code)
  BY DEF AddressesOf
<1>9. QED
  BY <1>2, <1>7, <1>8

LEMMA SectionsAreCovered ==
  ASSUME NEW d \in ModuleDescriptor
  PROVE  /\ d.header \in {"OK", "NULL_DESCRIPTOR", "ABI_MISMATCH", "GAME_ID_MISMATCH", "MISSING_DISPATCH"}
         /\ d.rels \in {"none", "sound", "unsound"}
         /\ d.rels = "none" => DOMAIN d.sections = {}
         /\ Covered(d.code, d.entry) <=> d.entry \in AddressesOf(d.code)
         /\ \A i \in DOMAIN d.sections :
              Covered(d.code, d.sections[i]) <=> d.sections[i] \in AddressesOf(d.code)
<1>1. d.code \in Seq(ModernGekkoRange) /\ d.entry \in Nat /\ d.sections \in Seq(Nat)
  BY DEF ModuleDescriptor
<1>2. \A i \in DOMAIN d.sections : d.sections[i] \in Nat
  BY <1>1
<1>3. d.rels = "none" => d.sections = <<>>
  BY DEF ModuleDescriptor
<1>4. QED
  BY <1>1, <1>2, <1>3, CoveredIsInside DEF ModuleDescriptor

Faults == {"INVALID_CODE_RANGES", "INVALID_SMC_RANGES", "INVALID_CHUNKS",
           "INVALID_REL_MODULES", "ENTRY_POINT_UNCOVERED"}

(* A module is accepted when its tables are sound, and refused for them     *)
(* when they are not.                                                       *)
LEMMA StatusJudges ==
  ASSUME NEW d \in ModuleDescriptor
  PROVE  /\ Status(d) = "OK" => d.header = "OK" /\ TablesAreSound(d)
         /\ Status(d) \in Faults => ~TablesAreSound(d) \/ ~d.hashes \/ d.rels = "unsound"
<1> DEFINE tables == /\ d.code # <<>> /\ Follow(d.code) /\ (d.smc = <<>> \/ Follow(d.smc))
                     /\ d.chunks # <<>> /\ Follow(d.chunks) /\ AllWithin(d, 1, 1) /\ Tiled(d)
           covered == /\ d.entry \in AddressesOf(d.code)
                      /\ \A i \in DOMAIN d.sections : d.sections[i] \in AddressesOf(d.code)
<1>1. /\ d.code \in Seq(ModernGekkoRange) /\ d.chunks \in Seq(ModernGekkoRange)
      /\ d.smc \in Seq(ModernGekkoRange)
  BY DEF ModuleDescriptor
<1>2. TablesAreSound(d) <=> tables /\ covered
  <2>1. d.smc = <<>> => Follow(d.smc)
    BY DEF Follow
  <2>2. /\ Follow(d.code) <=> Ordered(d.code)
        /\ Follow(d.chunks) <=> Ordered(d.chunks)
        /\ Follow(d.smc) <=> Ordered(d.smc)
    BY <1>1, FollowIsOrdered
  <2>3. ASSUME d.code # <<>>, Follow(d.code), AddressesOf(d.chunks) = AddressesOf(d.code)
        PROVE  d.chunks # <<>>
    <3>1. 1 \in DOMAIN d.code
      BY <1>1, <2>3
    <3>2. d.code[1].start \in Nat /\ d.code[1].end \in Nat /\ d.code[1].start < d.code[1].end
      BY <1>1, <2>3, <3>1, RangesTyped DEF Follow
    <3>3. d.code[1].start \in AddressesOf(d.code)
      BY <3>1, <3>2 DEF AddressesOf, Addresses
    <3>4. d.chunks = <<>> => AddressesOf(d.chunks) = {}
      BY DEF AddressesOf
    <3>5. QED
      BY <2>3, <3>3, <3>4
  <2>4. covered <=> {d.entry} \cup {d.sections[i] : i \in DOMAIN d.sections} \subseteq AddressesOf(d.code)
    OBVIOUS
  <2> HIDE DEF covered
  <2>5. Follow(d.chunks) =>
          (AllWithin(d, 1, 1) /\ Tiled(d) <=>
             /\ AddressesOf(d.chunks) = AddressesOf(d.code)
             /\ \A k \in DOMAIN d.chunks : \E c \in DOMAIN d.code :
                  Addresses(d.chunks[k]) \subseteq Addresses(d.code[c]))
    BY TilingIsEquality
  <2>6. QED
    BY <2>1, <2>2, <2>3, <2>4, <2>5 DEF TablesAreSound
<1>3. /\ RangesAreValid(d.code) <=> d.code # <<>> /\ Follow(d.code)
      /\ RangesAreValid(d.smc) <=> d.smc # <<>> /\ Follow(d.smc)
  BY <1>1, ValidRangesFollow
<1>4. d.code # <<>> /\ Follow(d.code) =>
        (ChunksTileCode(d) <=>
           d.chunks # <<>> /\ d.hashes /\ Follow(d.chunks) /\ AllWithin(d, 1, 1) /\ Tiled(d))
  BY ChunksTileCodeExactly
<1>5. RelModulesAreValid(d) <=>
        d.rels # "unsound" /\ \A i \in DOMAIN d.sections : d.sections[i] \in AddressesOf(d.code)
  BY SectionsAreCovered DEF RelModulesAreValid
<1>6. Covered(d.code, d.entry) <=> d.entry \in AddressesOf(d.code)
  BY SectionsAreCovered
<1>7. Status(d) = "OK" => d.header = "OK" /\ tables /\ covered
  <2> SUFFICES ASSUME Status(d) = "OK" PROVE d.header = "OK" /\ tables /\ covered
    OBVIOUS
  <2>1. /\ d.header = "OK" /\ RangesAreValid(d.code) /\ (d.smc = <<>> \/ RangesAreValid(d.smc))
        /\ ChunksTileCode(d) /\ RelModulesAreValid(d) /\ Covered(d.code, d.entry)
    BY SectionsAreCovered DEF Status
  <2>2. QED
    BY <1>3, <1>4, <1>5, <1>6, <2>1
<1>8. tables /\ covered /\ d.hashes /\ d.rels # "unsound" => Status(d) \notin Faults
  <2> SUFFICES ASSUME tables, covered, d.hashes, d.rels # "unsound"
               PROVE  Status(d) \notin Faults
    OBVIOUS
  <2>1. /\ RangesAreValid(d.code) /\ (d.smc = <<>> \/ RangesAreValid(d.smc))
        /\ ChunksTileCode(d) /\ RelModulesAreValid(d) /\ Covered(d.code, d.entry)
    BY <1>3, <1>4, <1>5, <1>6
  <2>2. Status(d) = IF d.header # "OK" THEN d.header ELSE "OK"
    BY <2>1 DEF Status
  <2>3. QED
    BY <2>2, SectionsAreCovered DEF Faults
<1>9. QED
  BY <1>2, <1>7, <1>8

-----------------------------------------------------------------------------
(* The module that is loaded was accepted, its library is open if it came   *)
(* from one, and a refusal speaks of what was offered.                      *)
TablesInv ==
  /\ offered \in Offers
  /\ descriptor # NoDescriptor =>
       descriptor \in ModuleDescriptor /\ Status(descriptor) = "OK"
  /\ library # "closed" => descriptor = DescriptorOf(library)
  /\ answer \in Faults => Status(offered) = answer

LEMMA DescriptorsAreTyped ==
  ASSUME offered \in Offers, NEW file
  PROVE  DescriptorOf(file) \in ModuleDescriptor /\ DescriptorOf(file) # NoDescriptor
BY DescriptorAssumption, OffersAssumption DEF DescriptorOf

LEMMA TablesStart == TablesInit => TablesInv
BY DEF TablesInit, TablesInv, Faults

LEMMA TablesKeep ==
  ASSUME TablesInv, [TablesNext]_tableVars
  PROVE  TablesInv'
<1>1. CASE UNCHANGED tableVars
  BY <1>1 DEF tableVars, TablesInv, DescriptorOf
<1>2. ASSUME NEW file \in {"offered", "familiar", "LibraryOpenFailed", "EntryPointMissing"},
             LoadModule(file)
      PROVE  TablesInv'
  <2>1. offered' = offered /\ offered \in Offers
    BY <1>2 DEF LoadModule, TablesInv
  <2>2. answer' \in Faults => Status(offered) = answer'
    <3>1. CASE file = "offered"
      BY <1>2, <3>1 DEF LoadModule, DescriptorOf
    <3>2. CASE file = "familiar"
      BY <1>2, <3>2, FamiliarAssumption DEF LoadModule, DescriptorOf, Faults
    <3>3. CASE file \notin {"offered", "familiar"}
      BY <1>2, <3>3 DEF LoadModule, Faults
    <3>4. QED
      BY <3>1, <3>2, <3>3
  <2>3. CASE answer' = "OK"
    <3>1. file \in {"offered", "familiar"}
      BY <1>2, <2>3 DEF LoadModule
    <3>2. /\ Status(DescriptorOf(file)) = "OK" /\ library' = file
          /\ descriptor' = DescriptorOf(file)
      BY <1>2, <2>3, <3>1 DEF LoadModule
    <3>3. DescriptorOf(file)' = DescriptorOf(file)
      BY <2>1 DEF DescriptorOf
    <3>4. DescriptorOf(file) \in ModuleDescriptor
      BY <2>1, DescriptorsAreTyped
    <3>5. QED
      BY <2>1, <2>2, <3>2, <3>3, <3>4 DEF TablesInv, DescriptorOf
  <2>4. CASE answer' # "OK"
    BY <1>2, <2>1, <2>2, <2>4 DEF LoadModule, TablesInv
  <2>5. QED
    BY <2>3, <2>4
<1>3. ASSUME AttachModule
      PROVE  TablesInv'
  <2>1. offered' = offered /\ offered \in Offers /\ offered \in ModuleDescriptor
    BY <1>3, DescriptorAssumption DEF AttachModule, TablesInv
  <2>2. library' = "closed" /\ answer' = Status(offered)
    BY <1>3 DEF AttachModule
  <2>3. descriptor' = NoDescriptor \/ (descriptor' = offered /\ Status(offered) = "OK")
    BY <1>3 DEF AttachModule
  <2>4. QED
    BY <2>1, <2>2, <2>3 DEF TablesInv
<1>4. ASSUME UnloadModule
      PROVE  TablesInv'
  BY <1>4 DEF UnloadModule, TablesInv
<1>5. QED
  BY <1>1, <1>2, <1>3, <1>4 DEF TablesNext

(* What the loops of module.cpp accept is what the tables are for, for      *)
(* tables of any size: the module the runtime dispatches into has chunks    *)
(* that partition its code, it lies in the library that is open, and no     *)
(* sound one is refused.                                                    *)
THEOREM ModulesAreSound == TablesSpec => []TheModuleIsSound
<1>1. ASSUME TablesInv
      PROVE  TheModuleIsSound
  <2>1. descriptor # NoDescriptor => descriptor.header = "OK" /\ TablesAreSound(descriptor)
    BY <1>1, StatusJudges DEF TablesInv
  <2>2. offered \in ModuleDescriptor
    BY <1>1, DescriptorAssumption DEF TablesInv
  <2>3. answer \in Faults => ~TablesAreSound(offered) \/ ~offered.hashes \/ offered.rels = "unsound"
    BY <1>1, <2>2, StatusJudges DEF TablesInv
  <2>4. QED
    BY <1>1, <2>1, <2>3 DEF TheModuleIsSound, TablesInv, Faults
<1>2. QED
  BY <1>1, TablesStart, TablesKeep, PTL DEF TablesSpec

-----------------------------------------------------------------------------
(* The bus: away from the last byte of the address space, where its ends    *)
(* wrap around, ranges do not overlap and accesses reach the device they    *)
(* belong to.                                                               *)
MappedRange == {r \in [base : Address, size : Address] : r.size # 0 /\ r.base + r.size <= Modulus}
Accesses == [address : Address, size : {0, 1, 2, 3, 4, 8}, range : Nat]

BusTypeOK == ranges \in Seq(MappedRange) /\ access \in Accesses

Below(r) == r.base + r.size < Modulus

(* Of two ranges below the last byte, one ends where the other begins or    *)
(* before.                                                                  *)
Apart(r, s) == r.base + r.size <= s.base \/ s.base + s.size <= r.base
RangesAreApart ==
  \A i, j \in DOMAIN ranges :
    i # j /\ Below(ranges[i]) /\ Below(ranges[j]) => Apart(ranges[i], ranges[j])

Inside(r, address, size) == r.base <= address /\ address + size <= r.base + r.size
AccessIsServed ==
  access # NoAccess /\ IsValidWidth(access.size) /\ access.address + access.size < Modulus =>
    /\ access.range # 0 =>
         access.range \in DOMAIN ranges
         /\ Inside(ranges[access.range], access.address, access.size)
    /\ access.range = 0 =>
         \A i \in DOMAIN ranges :
           Below(ranges[i]) => ~Inside(ranges[i], access.address, access.size)

BusInv == BusTypeOK /\ RangesAreApart /\ AccessIsServed

-----------------------------------------------------------------------------
(* An end is the sum, or 0 when that is one past the last address.          *)
LEMMA Ends ==
  ASSUME NEW base \in Nat, NEW size \in Nat, base + size <= Modulus
  PROVE  /\ base + size < Modulus => End(base, size) = base + size
         /\ base + size = Modulus => End(base, size) = 0
BY ModulusAssumption DEF End

LEMMA EndsOfRanges ==
  ASSUME NEW r \in MappedRange
  PROVE  /\ r.base \in Nat /\ r.size \in Nat \ {0}
         /\ Below(r) => EndOf(r) = r.base + r.size
         /\ ~Below(r) => EndOf(r) = 0
BY Ends, ModulusAssumption DEF MappedRange, Address, EndOf, Below

(* What the code compares is containment, for an access below the last byte.*)
LEMMA ContainsIsInside ==
  ASSUME NEW r \in MappedRange, NEW address \in Address, NEW size \in Nat \ {0},
         address + size < Modulus
  PROVE  /\ Contains(r, address, size) => Inside(r, address, size)
         /\ Below(r) /\ Inside(r, address, size) => Contains(r, address, size)
<1>1. End(address, size) = address + size
  BY Ends, ModulusAssumption DEF Address
<1>2. QED
  BY <1>1, EndsOfRanges, ModulusAssumption DEF Contains, Inside, Address, Below

LEMMA FindFinds ==
  ASSUME BusTypeOK, NEW address \in Address, NEW size \in Nat, IsValidWidth(size),
         address + size < Modulus
  PROVE  /\ Find(address, size) \in Nat
         /\ Find(address, size) # 0 =>
              /\ Find(address, size) \in DOMAIN ranges
              /\ Inside(ranges[Find(address, size)], address, size)
         /\ Find(address, size) = 0 =>
              \A i \in DOMAIN ranges : Below(ranges[i]) => ~Inside(ranges[i], address, size)
<1> DEFINE found == {i \in DOMAIN ranges : Contains(ranges[i], address, size)}
<1>1. DOMAIN ranges = 1 .. Len(ranges) /\ Len(ranges) \in Nat /\ \A i \in DOMAIN ranges : ranges[i] \in MappedRange
  BY DEF BusTypeOK
<1>2. \A i \in DOMAIN ranges :
        /\ Contains(ranges[i], address, size) => Inside(ranges[i], address, size)
        /\ Below(ranges[i]) /\ Inside(ranges[i], address, size) =>
             Contains(ranges[i], address, size)
  BY <1>1, ContainsIsInside DEF IsValidWidth
<1>3. ~(size - 1 > Modulus - 1 - address)
  BY ModulusAssumption DEF Address
<1>4. CASE found = {}
  <2>1. Find(address, size) = 0
    BY <1>3, <1>4 DEF Find
  <2>2. QED
    BY <1>2, <1>4, <2>1
<1>5. CASE found # {}
  <2>1. Find(address, size) = CHOOSE i \in found : \A j \in found : i <= j
    BY <1>3, <1>5 DEF Find
  <2>2. found \subseteq Nat /\ 0 \notin found
    BY <1>1
  <2>3. \E i \in found : \A j \in found : i <= j
    BY <1>5, <2>2, LeastNatural
  <2>4. Find(address, size) \in found
    BY <2>1, <2>3
  <2>5. QED
    BY <1>2, <2>2, <2>4
<1>6. QED
  BY <1>4, <1>5

-----------------------------------------------------------------------------
LEMMA NoAccessTyped == NoAccess \in Accesses
BY ModulusAssumption DEF NoAccess, Accesses, Address

LEMMA BusStarts == BusInit => BusInv
BY NoAccessTyped DEF BusInit, BusInv, BusTypeOK, RangesAreApart, AccessIsServed

LEMMA RegisterRangeKeeps ==
  ASSUME BusInv, NEW base \in Address, NEW size \in Address, Register(base, size)
  PROVE  BusInv'
<1> DEFINE new == [base |-> base, size |-> size]
<1> USE DEF BusInv
<1>1. new \in MappedRange
  BY ModulusAssumption DEF Register, MappedRange, Address
<1>2. ranges' = Append(ranges, new) /\ access' = NoAccess
  BY DEF Register
<1>3. BusTypeOK'
  BY <1>1, <1>2, NoAccessTyped, AppendProperties DEF BusTypeOK
<1>4. \A i \in DOMAIN ranges : Below(ranges[i]) /\ Below(new) => Apart(ranges[i], new)
  <2> SUFFICES ASSUME NEW i \in DOMAIN ranges, Below(ranges[i]), Below(new)
               PROVE  Apart(ranges[i], new)
    OBVIOUS
  <2>1. ranges[i] \in MappedRange
    BY DEF BusTypeOK
  <2>2. EndOf(ranges[i]) = ranges[i].base + ranges[i].size
    BY <2>1, EndsOfRanges
  <2>3. End(base, size) = base + size
    BY Ends, ModulusAssumption DEF Below, Address
  <2>4. ~(base < EndOf(ranges[i]) /\ ranges[i].base < End(base, size))
    BY DEF Register, Conflicts
  <2>5. QED
    BY <2>1, <2>2, <2>3, <2>4 DEF Apart, MappedRange, Address
<1>5. RangesAreApart'
  <2> SUFFICES ASSUME NEW i \in DOMAIN ranges', NEW j \in DOMAIN ranges', i # j,
                      Below(ranges'[i]), Below(ranges'[j])
               PROVE  Apart(ranges'[i], ranges'[j])
    BY DEF RangesAreApart
  <2> HIDE DEF new
  <2>1. /\ DOMAIN ranges = 1 .. Len(ranges) /\ Len(ranges) \in Nat
        /\ DOMAIN ranges' = 1 .. (Len(ranges) + 1)
        /\ ranges'[Len(ranges) + 1] = new
        /\ \A k \in DOMAIN ranges : ranges'[k] = ranges[k]
    BY <1>1, <1>2 DEF BusTypeOK
  <2>2. \A k \in DOMAIN ranges' : k \in DOMAIN ranges \/ (ranges'[k] = new /\ k = Len(ranges) + 1)
    BY <2>1
  <2>3. \A r, s \in MappedRange : Apart(r, s) => Apart(s, r)
    BY DEF Apart
  <2>4. CASE i \in DOMAIN ranges /\ j \in DOMAIN ranges
    BY <2>1, <2>4 DEF RangesAreApart
  <2>5. CASE i \notin DOMAIN ranges \/ j \notin DOMAIN ranges
    BY <1>1, <1>4, <2>1, <2>2, <2>3, <2>5 DEF BusTypeOK
  <2>6. QED
    BY <2>4, <2>5
<1>6. QED
  BY <1>2, <1>3, <1>5 DEF AccessIsServed

LEMMA AccessKeeps ==
  ASSUME BusInv, NEW address \in Address, NEW size \in {1, 2, 3, 4, 8}, Access(address, size)
  PROVE  BusInv'
<1> USE DEF BusInv
<1>1. ranges' = ranges /\ access' = [address |-> address, size |-> size, range |-> Find(address, size)]
  BY DEF Access
<1>2. Find(address, size) \in Nat
  <2> DEFINE found == {i \in DOMAIN ranges : Contains(ranges[i], address, size)}
  <2>1. found \subseteq Nat
    BY DEF BusTypeOK
  <2>2. found # {} => \E i \in found : \A j \in found : i <= j
    BY <2>1, LeastNatural
  <2>3. found # {} => (CHOOSE i \in found : \A j \in found : i <= j) \in found
    BY <2>2
  <2>4. QED
    BY <2>1, <2>3 DEF Find
<1>3. BusTypeOK'
  BY <1>1, <1>2 DEF BusTypeOK, Accesses
<1>4. RangesAreApart'
  BY <1>1 DEF RangesAreApart
<1>5. AccessIsServed'
  BY <1>1, FindFinds DEF AccessIsServed
<1>6. QED
  BY <1>3, <1>4, <1>5

LEMMA ClearBusKeeps == ASSUME BusInv, Clear PROVE BusInv'
BY NoAccessTyped DEF BusInv, Clear, BusTypeOK, RangesAreApart, AccessIsServed

LEMMA BusInvariance == BusSpec => []BusInv
<1>1. BusInv /\ UNCHANGED busVars => BusInv'
  BY DEF BusInv, busVars, BusTypeOK, RangesAreApart, AccessIsServed
<1>2. BusInv /\ [BusNext]_busVars => BusInv'
  BY <1>1, RegisterRangeKeeps, AccessKeeps, ClearBusKeeps DEF BusNext
<1>3. QED
  BY <1>2, BusStarts, PTL DEF BusSpec

-----------------------------------------------------------------------------
(* Below the last byte of the address space no byte belongs to two devices, *)
(* and an access reaches a device just when all its bytes are that device's,*)
(* for every width of an address and every sequence of calls.               *)
THEOREM DevicesAreReached == BusSpec => []AccessesReachTheirDevice
<1>1. BusInv => AccessesReachTheirDevice
  <2> SUFFICES ASSUME BusInv PROVE AccessesReachTheirDevice
    OBVIOUS
  <2> USE DEF BusInv
  <2> DEFINE below == {i \in DOMAIN ranges : BelowTheTop(BytesOf(ranges[i]))}
             bytes == Bytes(access.address, access.size)
  <2>1. \A i \in DOMAIN ranges : ranges[i] \in MappedRange
    BY DEF BusTypeOK
  <2>2. \A r \in MappedRange : BelowTheTop(BytesOf(r)) => Below(r)
    BY ModulusAssumption DEF BelowTheTop, BytesOf, Bytes, TopByte, Below, MappedRange, Address
  <2>3. \A i, j \in below : i # j => BytesOf(ranges[i]) \cap BytesOf(ranges[j]) = {}
    BY <2>1, <2>2 DEF RangesAreApart, Apart, BytesOf, Bytes, MappedRange, Address
  <2>4. ASSUME access # NoAccess, BelowTheTop(bytes), IsValidWidth(access.size)
        PROVE  /\ access.range # 0 => bytes \subseteq BytesOf(ranges[access.range])
               /\ access.range = 0 => \A i \in below : ~(bytes \subseteq BytesOf(ranges[i]))
    <3>1. access.address \in Nat /\ access.address < Modulus /\ access.size \in Nat \ {0}
      <4>1. access.address \in Address
        BY DEF BusTypeOK, Accesses
      <4>2. access.size \in {1, 2, 4, 8}
        BY <2>4 DEF IsValidWidth
      <4>3. QED
        BY <4>1, <4>2, ModulusAssumption DEF Address
    <3>2. access.address + access.size < Modulus
      BY <2>4, <3>1, ModulusAssumption DEF BelowTheTop, Bytes, TopByte
    <3>3. \A r \in MappedRange : bytes \subseteq BytesOf(r) <=> Inside(r, access.address, access.size)
      <4> SUFFICES ASSUME NEW r \in MappedRange
                   PROVE  bytes \subseteq BytesOf(r) <=> Inside(r, access.address, access.size)
        OBVIOUS
      <4>1. r.base \in Nat /\ r.size \in Nat
        BY DEF MappedRange, Address
      <4>2. access.address \in bytes /\ access.address + access.size - 1 \in bytes
        BY <3>1 DEF Bytes
      <4>3. QED
        BY <3>1, <4>1, <4>2 DEF BytesOf, Bytes, Inside
    <3>4. QED
      BY <2>1, <2>2, <2>4, <3>2, <3>3 DEF AccessIsServed
  <2>5. QED
    BY <2>3, <2>4 DEF AccessesReachTheirDevice
<1>2. QED
  BY <1>1, BusInvariance, PTL

-----------------------------------------------------------------------------
(* What is set up is one of the three, and the others rest.                 *)
THEOREM SetupImplementsItsParts == Spec => LoaderSpec /\ TablesSpec /\ BusSpec
<1>1. Init => LoaderInit /\ TablesInit /\ BusInit
  BY DEF Init
<1>2. ASSUME [Next]_setupVars
      PROVE  [LoaderNext]_loaderVars /\ [TablesNext]_tableVars /\ [BusNext]_busVars
  <2>1. CASE UNCHANGED setupVars
    BY <2>1 DEF setupVars
  <2>2. CASE Next
    BY <2>2 DEF Next
  <2>3. QED
    BY <1>2, <2>1, <2>2
<1>3. QED
  BY <1>1, <1>2, PTL DEF Spec, LoaderSpec, TablesSpec, BusSpec

(* What the run of the setup checks, for any mods with any dependencies,    *)
(* any module and any device ranges: mods are loaded after what they depend *)
(* on and in one order, what cannot be loaded is refused and nothing of it  *)
(* stays; a module that is accepted is sound; an access reaches its device. *)
THEOREM SetupIsSound ==
  Spec => [](/\ DependenciesAreLoaded /\ NothingIsLeftBehind
             /\ OrderedByDependenciesThenPath /\ AcceptsExactlyLoadable
             /\ TheModuleIsSound /\ AccessesReachTheirDevice)
BY SetupImplementsItsParts, DependenciesStayLoaded, UnloadLeavesNothing, LoadOrderIsDetermined,
   LoadJudgesRightly, ModulesAreSound, DevicesAreReached, PTL
=============================================================================
