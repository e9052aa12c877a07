----------------------------- MODULE MCGameSetup ----------------------------
(* Small instances of GameSetup: every pair of mods with all that can be   *)
(* wrong with them, every dependency graph on three mods; every pair of    *)
(* code ranges with every three chunks, on a few addresses.                *)
EXTENDS GameSetup, TLC

CONSTANT Absent  \* a mod no source provides

Plain == [path |-> <<1, 1>>, valid |-> TRUE, invalid |-> {}, deps |-> {}, optional |-> {}, old |-> {},
          export |-> TRUE, imports |-> {}, event |-> TRUE, callbacks |-> {}, hook |-> FALSE,
          patch |-> "none"]

Depends(deps) == [Plain EXCEPT !.deps = deps]

(* All that can be wrong between two mods, and in a table of one of them.  *)
PairDescriptors ==
  {[Plain EXCEPT !.deps = deps, !.optional = optional, !.old = old,
                 !.export = export, !.imports = imports, !.event = export,
                 !.callbacks = subscriptions, !.patch = patch] :
     deps \in {{}, {1}, {1, Absent}}, optional \in {{}, {1, 2, Absent}}, old \in {{}, {2}},
     export \in BOOLEAN, imports \in {{}, {1}, {Absent}},
     subscriptions \in {{Host}, {1}, {Absent}}, patch \in {"none", "normal", "force"}}
  \cup {[Plain EXCEPT !.deps = {1}, !.imports = {1}, !.callbacks = {Host, 1}, !.hook = TRUE, !.invalid = invalid] :
          invalid \in {{}} \cup {{array} : array \in Arrays}}

SimpleDescriptors ==
  {[Plain EXCEPT !.valid = valid, !.deps = deps, !.export = export, !.event = export,
                 !.imports = deps, !.hook = export, !.patch = patch] :
     valid \in BOOLEAN, deps \in {{}, {2}}, export \in BOOLEAN, patch \in {"none", "normal"}}

(* Where the files are: in the order of the identifiers and against it, in *)
(* one directory and in two.                                               *)
At(input, paths) == [m \in DOMAIN input |-> [input[m] EXCEPT !.path = paths[m]]]

Pairs == {At([m \in {1, 2} |-> Plain], paths) : paths \in {<< <<1, 1>>, <<1, 2>> >>, << <<2, 1>>, <<1, 2>> >>}} \cup
         {At((1 :> d) @@ (2 :> e), << <<1, 1>>, <<1, 2>> >>) : d \in SimpleDescriptors, e \in PairDescriptors}

Triples == {At(input, << <<2, 1>>, <<1, 3>>, <<1, 2>> >>) :
              input \in [{1, 2, 3} -> {Depends(deps) : deps \in SUBSET {1, 2, 3}}]}

MCInputs == Pairs \cup Triples \cup {<<>>}

-----------------------------------------------------------------------------
(* Half-open ranges over 0 .. 4, one of them empty and one reversed.       *)
R(start, end) == [start |-> start, end |-> end]
CodeRanges == {R(0, 2), R(0, 3), R(1, 3), R(2, 3), R(2, 4), R(3, 4), R(1, 1), R(3, 2)}
ChunkRanges == CodeRanges \cup {R(0, 1), R(1, 2)}
UpTo(n, S) == UNION {[1 .. i -> S] : i \in 0 .. n}

Module == [header |-> "OK", code |-> <<R(0, 2), R(2, 4)>>, smc |-> <<>>,
           chunks |-> <<R(0, 1), R(1, 2), R(2, 4)>>, hashes |-> TRUE,
           rels |-> "none", sections |-> <<>>, entry |-> 1]

Tilings ==
  {[Module EXCEPT !.code = code, !.chunks = chunks, !.entry = IF code = <<>> THEN 0 ELSE code[1].start] :
     code \in UpTo(2, CodeRanges), chunks \in UpTo(3, ChunkRanges)}

OneFault ==
  {[Module EXCEPT !.header = h] :
     h \in {"NULL_DESCRIPTOR", "ABI_MISMATCH", "GAME_ID_MISMATCH", "MISSING_DISPATCH"}}
  \cup {[Module EXCEPT !.smc = smc] : smc \in UpTo(2, CodeRanges)}
  \cup {[Module EXCEPT !.hashes = FALSE]}
  \cup {[Module EXCEPT !.code = <<R(1, 3)>>, !.chunks = <<R(1, 3)>>, !.entry = entry] : entry \in 0 .. 4}
  \cup {[Module EXCEPT !.rels = rels, !.code = <<R(1, 3)>>, !.chunks = <<R(1, 3)>>, !.sections = sections] :
          rels \in {"sound", "unsound"}, sections \in UpTo(2, 0 .. 3)}

MCOffers == Tilings \cup OneFault
=============================================================================
