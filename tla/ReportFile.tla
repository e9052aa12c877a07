----------------------------- MODULE ReportFile -----------------------------
(***************************************************************************)
(* A diagnostics report on its way through a file: WriteReport with        *)
(* WriteArchive, which writes over what is there and may be cut short by a *)
(* crash or a full disc, and ReadReport with ReadArchive, which refuses    *)
(* what it cannot trust.                                                   *)
(*                                                                         *)
(* Three of the entries stand for all: report.json, of which the schema    *)
(* version is kept, threads.csv with the name of its one thread, and       *)
(* runtime.log.  An archive is a sequence of cells, a header or the data   *)
(* of an entry each; a checksum is the data it was taken of.  A text is a  *)
(* sequence of characters, as far as the formats tell them apart.          *)
(***************************************************************************)
EXTENDS Integers, Sequences, SequencesExt

CONSTANTS
  Reports,        \* the reports there are to write
  SchemaVersion,  \* kSchemaVersion of the reader
  MaxWritings     \* bound: reports written to the file

Comma == ","
Quote == "q"
NewLine == "n"
CarriageReturn == "r"
Letter == "a"
Text == Seq({Comma, Quote, NewLine, CarriageReturn, Letter})
Report == [schema : Int, name : Text, log : Seq(Text)]
NoReport == [schema |-> 0, name |-> <<>>, log |-> <<>>]

ASSUME ReportsAssumption == Reports \subseteq Report
ASSUME SchemaAssumption == SchemaVersion \in Nat

VARIABLES
  file,      \* the file: the cells that reached it
  pending,   \* the cells WriteArchive has yet to write
  report,    \* the report the file was last opened for
  writings,  \* how often a report was written
  read       \* what ReadReport last returned of this file

fileVars == <<file, pending, report, writings, read>>
NothingRead == [status |-> "none"]
Refused == [status |-> "refused"]

FileInit == file = <<>> /\ pending = <<>> /\ report = NoReport /\ writings = 0 /\ read = NothingRead

-----------------------------------------------------------------------------
(* A plausible bug: a quote inside a field is not doubled.                 *)
CsvFieldPlain(text) ==
  IF \E i \in DOMAIN text : text[i] \in {Comma, Quote, NewLine, CarriageReturn}
  THEN <<Quote>> \o text \o <<Quote>>
  ELSE text

(* A field is quoted when it must be, and a quote in it doubled.           *)
Doubled(field, c) == field \o (IF c = Quote THEN <<Quote, Quote>> ELSE <<c>>)
CsvField(text) ==
  IF \E i \in DOMAIN text : text[i] \in {Comma, Quote, NewLine, CarriageReturn}
  THEN FoldLeft(Doubled, <<Quote>>, text) \o <<Quote>>
  ELSE text

EndsInReturn(line) == line # <<>> /\ Last(line) = CarriageReturn

(* getline: what comes after the last newline is a line if there is any; a *)
(* carriage return at the end of a line goes with its newline.             *)
WithoutReturn(line) == IF EndsInReturn(line) THEN Front(line) ELSE line
ReadOn(state, c) ==
  IF c = NewLine
  THEN [lines |-> Append(state.lines, WithoutReturn(state.line)), line |-> <<>>]
  ELSE [state EXCEPT !.line = Append(@, c)]
SplitLines(text) ==
  LET done == FoldLeft(ReadOn, [lines |-> <<>>, line |-> <<>>], text)
  IN IF done.line = <<>> THEN done.lines ELSE Append(done.lines, WithoutReturn(done.line))

(* A field ends at a comma that is not quoted; two quotes inside quotes    *)
(* are one, so a quote after one that closed a field opens it again.       *)
TakeApart(state, c) ==
  CASE state.at = "quoted" /\ c = Quote -> [state EXCEPT !.at = "closed"]
    [] state.at = "closed" /\ c = Quote -> [state EXCEPT !.at = "quoted", !.field = Append(@, Quote)]
    [] state.at = "plain" /\ c = Quote -> [state EXCEPT !.at = "quoted"]
    [] state.at # "quoted" /\ c = Comma ->
         [at |-> "plain", field |-> <<>>, fields |-> Append(state.fields, state.field)]
    [] OTHER -> [state EXCEPT !.at = IF @ = "closed" THEN "plain" ELSE @, !.field = Append(@, c)]
SplitCsvLine(line) ==
  LET done == FoldLeft(TakeApart, [at |-> "plain", field |-> <<>>, fields |-> <<>>], line)
  IN Append(done.fields, done.field)

-----------------------------------------------------------------------------
(* WriteReport: the entries, in the order they are archived.  The row of a *)
(* thread is its name and a number, and a line of the log ends in a newline.*)
AddLine(text, line) == text \o Append(line, NewLine)
Entries(r) == <<
  [name |-> "report.json", data |-> [schema |-> r.schema, text |-> <<>>]],
  [name |-> "threads.csv", data |-> [schema |-> 0, text |-> CsvField(r.name) \o <<Comma, Letter, NewLine>>]],
  [name |-> "runtime.log", data |-> [schema |-> 0,
     text |-> FoldLeft(AddLine, <<>>, r.log)]]>>

(* WriteArchive: header and data of each entry, then the directory and the *)
(* record that ends it and says where it begins.                           *)
Archive(r) ==
  LET entries == Entries(r)
      local == FlattenSeq([i \in DOMAIN entries |->
                 <<[kind |-> "local"], [kind |-> "data", data |-> entries[i].data]>>])
      directory == [i \in DOMAIN entries |->
                 [kind |-> "central", name |-> entries[i].name, crc |-> entries[i].data,
                  offset |-> 2 * i - 1]]
  IN local \o directory
     \o <<[kind |-> "end", count |-> Len(entries), offset |-> Len(local) + 1]>>

StartWriting(r) ==
  /\ pending = <<>> /\ writings < MaxWritings
  /\ file' = <<>> /\ pending' = Archive(r)
  /\ report' = r /\ writings' = writings + 1
  /\ read' = NothingRead

WriteCell ==
  /\ pending # <<>>
  /\ file' = Append(file, Head(pending)) /\ pending' = Tail(pending)
  /\ UNCHANGED <<report, writings, read>>

(* The disc is full or the program dies: the file stays as far as it came. *)
Interrupt ==
  /\ pending # <<>>
  /\ pending' = <<>>
  /\ UNCHANGED <<file, report, writings, read>>

-----------------------------------------------------------------------------
(* ReadArchive: from the last record that ends a directory to the entries, *)
(* each with its header, all of its data and its checksum.                 *)
EndRecords == {i \in DOMAIN file : file[i].kind = "end"}

ArchiveIsSound ==
  /\ EndRecords # {}
  /\ LET end == file[Max(EndRecords)]
     IN \A i \in 0 .. end.count - 1 :
          /\ end.offset + i \in DOMAIN file /\ file[end.offset + i].kind = "central"
          /\ LET entry == file[end.offset + i]
             IN /\ entry.offset \in DOMAIN file /\ file[entry.offset].kind = "local"
                /\ entry.offset + 1 \in DOMAIN file /\ file[entry.offset + 1].kind = "data"
                /\ file[entry.offset + 1].data = entry.crc

DataOf(name) ==
  LET directory == {i \in DOMAIN file : file[i].kind = "central" /\ file[i].name = name}
  IN file[file[CHOOSE i \in directory : TRUE].offset + 1].data

(* A row with too few fields is skipped.                                   *)
AddThread(names, line) ==
  LET fields == SplitCsvLine(line)
  IN IF Len(fields) >= 2 THEN Append(names, fields[1]) ELSE names
ThreadNames(text) == FoldLeft(AddThread, <<>>, SplitLines(text))

ReadReport ==
  /\ pending = <<>> /\ writings > 0
  /\ read' =
       IF ~ArchiveIsSound \/ DataOf("report.json").schema <= 0
          \/ DataOf("report.json").schema > SchemaVersion
       THEN Refused
       ELSE [status |-> "ok",
             report |-> [schema |-> DataOf("report.json").schema,
                         names |-> ThreadNames(DataOf("threads.csv").text),
                         log |-> SplitLines(DataOf("runtime.log").text)]]
  /\ UNCHANGED <<file, pending, report, writings>>

FileNext == (\E r \in Reports : StartWriting(r)) \/ WriteCell \/ Interrupt \/ ReadReport

FileSpec == FileInit /\ [][FileNext]_fileVars

-----------------------------------------------------------------------------
HasNewLine(text) == \E i \in DOMAIN text : text[i] = NewLine
TextsAreLines(r) ==
  /\ ~HasNewLine(r.name)
  /\ \A i \in DOMAIN r.log : ~HasNewLine(r.log[i]) /\ ~EndsInReturn(r.log[i])

Known == file = Archive(report) /\ report.schema \in 1 .. SchemaVersion

(* What was cut short anywhere, or has a schema the reader does not know,  *)
(* is refused, and everything else is read.                                *)
RefusedUnlessWhole == (read.status = "ok" => Known) /\ (read.status = "refused" => ~Known)

TextsComeBack ==
  read.status = "ok" /\ TextsAreLines(report) =>
    read.report = [schema |-> report.schema, names |-> <<report.name>>, log |-> report.log]

(* A report is read back as it was written or not at all: a file that was  *)
(* cut short anywhere, or has a schema the reader does not know, is        *)
(* refused, and every other one is read.  A name or a line that contains a *)
(* newline, or a line that ends in a carriage return, is the exception,    *)
(* for the reader cuts a file into lines before it looks at quotes.        *)
ReadBackWholeOrRefused == RefusedUnlessWhole /\ TextsComeBack
=============================================================================
