---------------------------- MODULE ModuleTables ----------------------------
(***************************************************************************)
(* The recompiled module of LegacyRuntime: the tables of its descriptor    *)
(* and their validation (src/runtime/module.cpp), and the library that     *)
(* keeps the accepted descriptor (src/runtime/module_loader.cpp), as the   *)
(* runtime opens, attaches and closes it.                                  *)
(*                                                                         *)
(* Of a descriptor, the fields that are compared one by one with what is   *)
(* expected are one field here, `header`: the status of the first check    *)
(* that fails, or "OK".  So is the shape of its relocatable modules, of    *)
(* which only the start addresses of the sections are kept.                *)
(***************************************************************************)
EXTENDS Integers, Sequences

CONSTANTS
  Offers,       \* the descriptors a file or a caller may offer
  Familiar,     \* one that is accepted, which another file offers
  NoDescriptor

ASSUME OffersAssumption == NoDescriptor \notin Offers \cup {Familiar}

ModernGekkoRange == [start : Nat, end : Nat]
\* A descriptor that has no relocatable module has no section of one.
ModuleDescriptor == {d \in [
  header : {"OK", "NULL_DESCRIPTOR", "ABI_MISMATCH", "GAME_ID_MISMATCH", "MISSING_DISPATCH"},
  code   : Seq(ModernGekkoRange),
  smc    : Seq(ModernGekkoRange),
  chunks : Seq(ModernGekkoRange),
  hashes : BOOLEAN,      \* chunk_hashes is not null
  rels   : {"none", "sound", "unsound"},
  sections : Seq(Nat),   \* the linked_start of each section
  entry  : Nat] : d.rels = "none" => d.sections = <<>>}

ASSUME DescriptorAssumption == Offers \cup {Familiar} \subseteq ModuleDescriptor

-----------------------------------------------------------------------------
(* The validation, as the loops of the code compute it.                    *)

RangesAreValid(ranges) ==
  /\ ranges # <<>>
  /\ \A i \in DOMAIN ranges : ranges[i].start < ranges[i].end
  /\ \A i \in DOMAIN ranges : i > 1 => ranges[i - 1].end <= ranges[i].start

Covered(ranges, address) ==
  \E i \in DOMAIN ranges : ranges[i].start <= address /\ address < ranges[i].end

(* A plausible bug: the end of a code range is not compared with the       *)
(* cursor, so its last chunk may be missing.                               *)
ChunksTileCodeLoosely(d) ==
  LET walk[at \in (1 .. Len(d.code) + 1) \X (1 .. Len(d.chunks) + 1) \X Nat] ==
        LET c == at[1]
            k == at[2]
            cursor == at[3]
        IN
        IF c > Len(d.code) THEN k > Len(d.chunks)
        ELSE IF k <= Len(d.chunks) /\ d.chunks[k].start < d.code[c].end
        THEN /\ d.chunks[k].start = cursor
             /\ d.chunks[k].end <= d.code[c].end
             /\ walk[<<c, k + 1, d.chunks[k].end>>]
        ELSE walk[<<c + 1, k, IF c < Len(d.code) THEN d.code[c + 1].start ELSE cursor>>]
  IN RangesAreValid(d.chunks) /\ d.hashes /\ walk[<<1, 1, d.code[1].start>>]

(* Code range after code range, a cursor moves over the chunks that begin  *)
(* in it.                                                                  *)
ChunksTileCode(d) ==
  LET walk[at \in (1 .. Len(d.code) + 1) \X (1 .. Len(d.chunks) + 1) \X Nat] ==
        LET c == at[1]
            k == at[2]
            cursor == at[3]
        IN
        IF c > Len(d.code) THEN k > Len(d.chunks)
        ELSE IF k <= Len(d.chunks) /\ d.chunks[k].start < d.code[c].end
        THEN /\ d.chunks[k].start = cursor
             /\ d.chunks[k].end <= d.code[c].end
             /\ walk[<<c, k + 1, d.chunks[k].end>>]
        ELSE /\ cursor = d.code[c].end
             /\ walk[<<c + 1, k, IF c < Len(d.code) THEN d.code[c + 1].start ELSE cursor>>]
  IN RangesAreValid(d.chunks) /\ d.hashes /\ walk[<<1, 1, d.code[1].start>>]

RelModulesAreValid(d) ==
  \/ d.rels = "none"
  \/ d.rels = "sound" /\ \A i \in DOMAIN d.sections : Covered(d.code, d.sections[i])

(* moderngekko_validate_module: the first check that fails names the error.*)
Status(d) ==
  IF d.header # "OK"                             THEN d.header
  ELSE IF ~RangesAreValid(d.code)                THEN "INVALID_CODE_RANGES"
  ELSE IF d.smc # <<>> /\ ~RangesAreValid(d.smc) THEN "INVALID_SMC_RANGES"
  ELSE IF ~ChunksTileCode(d)                     THEN "INVALID_CHUNKS"
  ELSE IF ~RelModulesAreValid(d)                 THEN "INVALID_REL_MODULES"
  ELSE IF ~Covered(d.code, d.entry)              THEN "ENTRY_POINT_UNCOVERED"
  ELSE "OK"

ASSUME FamiliarAssumption == Status(Familiar) = "OK"

-----------------------------------------------------------------------------
VARIABLES
  offered,     \* the descriptor of the one file, and of the caller; it never changes
  library,     \* the file that is loaded into the process: "closed", "offered", "familiar", ...
  descriptor,  \* m_impl->descriptor
  pc,          \* the guest's program counter, 0 when it has none
  answer       \* the status of the last LoadModule or AttachModule

tableVars == <<offered, library, descriptor, pc, answer>>

TablesInit ==
  /\ offered \in Offers
  /\ library = "closed" /\ descriptor = NoDescriptor /\ pc = 0 /\ answer = "none"

DescriptorOf(file) == IF file = "offered" THEN offered ELSE Familiar

(* Open: whatever was loaded is closed first, and closed again by a file   *)
(* that has no entry point or is rejected.                                 *)
LoadModule(file) ==
  /\ IF file \in {"offered", "familiar"}
       THEN answer' = Status(DescriptorOf(file))
       ELSE answer' = file
  /\ IF answer' = "OK"
       THEN /\ library' = file /\ descriptor' = DescriptorOf(file)
            /\ pc' = DescriptorOf(file).entry
       ELSE library' = "closed" /\ descriptor' = NoDescriptor /\ pc' = pc
  /\ UNCHANGED offered

(* A plausible bug: Attach forgets the descriptor but not the library.     *)
AttachModuleOverLibrary ==
  /\ answer' = Status(offered)
  /\ IF answer' = "OK"
       THEN descriptor' = offered /\ pc' = offered.entry
       ELSE descriptor' = NoDescriptor /\ pc' = pc
  /\ UNCHANGED <<offered, library>>

(* Attach: the descriptor is the caller's, and no library is open.         *)
AttachModule ==
  /\ library' = "closed"
  /\ answer' = Status(offered)
  /\ IF answer' = "OK"
       THEN descriptor' = offered /\ pc' = offered.entry
       ELSE descriptor' = NoDescriptor /\ pc' = pc
  /\ UNCHANGED offered

UnloadModule ==
  /\ library' = "closed" /\ descriptor' = NoDescriptor
  /\ UNCHANGED <<offered, pc, answer>>

TablesNext ==
  \/ \E file \in {"offered", "familiar", "LibraryOpenFailed", "EntryPointMissing"} :
       LoadModule(file)
  \/ AttachModule
  \/ UnloadModule

TablesSpec == TablesInit /\ [][TablesNext]_tableVars

-----------------------------------------------------------------------------
(* What the tables are for, without the loops: every instruction address   *)
(* lies in exactly one chunk, every chunk in one code range.               *)
Addresses(range) == range.start .. range.end - 1
AddressesOf(ranges) == UNION {Addresses(ranges[i]) : i \in DOMAIN ranges}
Ordered(ranges) ==
  /\ \A i \in DOMAIN ranges : Addresses(ranges[i]) # {}
  /\ \A i, j \in DOMAIN ranges : i < j =>
       \A a \in Addresses(ranges[i]), b \in Addresses(ranges[j]) : a < b

TablesAreSound(d) ==
  /\ d.code # <<>> /\ Ordered(d.code) /\ Ordered(d.chunks) /\ Ordered(d.smc)
  /\ AddressesOf(d.chunks) = AddressesOf(d.code)
  /\ \A k \in DOMAIN d.chunks : \E c \in DOMAIN d.code :
       Addresses(d.chunks[k]) \subseteq Addresses(d.code[c])
  /\ {d.entry} \cup {d.sections[i] : i \in DOMAIN d.sections} \subseteq AddressesOf(d.code)

(* The module the runtime dispatches into is one whose chunks partition    *)
(* its code, its memory is that of the library that is open, and nothing   *)
(* that would be sound is refused (module.cpp, module_loader.cpp).         *)
TheModuleIsSound ==
  /\ descriptor # NoDescriptor => descriptor.header = "OK" /\ TablesAreSound(descriptor)
  /\ library # "closed" => descriptor = DescriptorOf(library)
  /\ answer \in {"INVALID_CODE_RANGES", "INVALID_SMC_RANGES", "INVALID_CHUNKS",
                 "INVALID_REL_MODULES", "ENTRY_POINT_UNCOVERED"} =>
       ~TablesAreSound(offered) \/ ~offered.hashes \/ offered.rels = "unsound"
=============================================================================
