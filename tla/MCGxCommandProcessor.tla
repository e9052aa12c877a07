------------------------ MODULE MCGxCommandProcessor ------------------------
(* Guest programs for GxCommandProcessor: every vertex layout of a table   *)
(* with every attribute format of another, every primitive with every      *)
(* number of vertices up to seven, some skipped or out of memory, and all  *)
(* pairs of the other commands, and any of them between two display lists. *)
EXTENDS GxMeaning, TLC

Plain == [matrices |-> {}, position |-> 0, normal |-> 0, color |-> <<0, 0>>,
          texture |-> [t \in 0..7 |-> 0],
          positionElements |-> 2, positionFormat |-> 0, ntb |-> FALSE, index3 |-> FALSE,
          normalFormat |-> 0, colorFormat |-> <<0, 0>>,
          textureFormat |-> [t \in 0..7 |-> 0], textureElements |-> [t \in 0..7 |-> 0]]

\* Value n of a register is entry n + 1, one past the end is Plain. Each is read as a layout and as formats.
FieldTable == <<
  Plain,
  [Plain EXCEPT !.position = 1, !.positionElements = 3, !.positionFormat = 4],
  [Plain EXCEPT !.position = 2, !.matrices = {0, 3}, !.normalFormat = 1, !.ntb = TRUE],
  [Plain EXCEPT !.position = 3, !.color = <<1, 2>>, !.colorFormat = <<5, 3>>],
  [Plain EXCEPT !.position = 1, !.normal = 1, !.ntb = TRUE, !.index3 = TRUE, !.colorFormat = <<6, 1>>],
  [Plain EXCEPT !.normal = 2, !.color = <<3, 1>>, !.index3 = TRUE, !.positionFormat = 2],
  [Plain EXCEPT !.position = 2, !.normal = 3, !.texture = (0 :> 1 @@ 1 :> 2 @@ 5 :> 1 @@ @),
                !.textureFormat = (0 :> 2 @@ 5 :> 4 @@ @), !.textureElements = (0 :> 1 @@ 5 :> 1 @@ @)],
  [Plain EXCEPT !.position = 2]>>

MCFields == [v \in 0..MaxUnit |-> IF v < Len(FieldTable) THEN FieldTable[v + 1] ELSE Plain]

Layouts == 1..7
Formats == 0..6
Vat == 1

MCCpRegisters == {VcdLow, VcdHigh, 81, 172, 188} \cup {VatRegister(g, v) : g \in 0..2, v \in 0..7}
MCBpRegisters == {66, EfbSource, EfbControl, BpMask}
MCBits == {0, 1}
MCBitsOf(v) == {b \in MCBits : (v \div 2^b) % 2 = 1}
MCXfMemory == <<7, 5, 3>>

Cp(register, value) == [op |-> "cp", register |-> register, value |-> value]
Bp(register, value) == [op |-> "bp", register |-> register, value |-> value]
Call(address, size) == [op |-> "call", address |-> address, size |-> size]
Op(op) == [op |-> op]
Unknown == [op |-> "unknown", opcode |-> 255]

Setup(layout, format) ==
  <<Cp(VcdLow, layout), Cp(VcdHigh, layout)>> \o [g \in 1..3 |-> Cp(VatRegister(g - 1, Vat), format)]

SizeOf(layout, format) ==
  GetVertexSize([low |-> layout, high |-> layout, vat |-> [v \in {Vat} |-> [g \in 0..2 |-> format]]], Vat)

\* Bytes of vertices: all indices in memory, some skipped, or one past the end.
Patterns == {[i \in 0..2 |-> 0], [i \in 0..2 |-> 255], [i \in 0..2 |-> IF i = 1 THEN 255 ELSE 1],
             [i \in 0..2 |-> IF i = 2 THEN 9 ELSE 0]}

DrawOf(primitive, count, layout, format, pattern) ==
  [op |-> "draw", primitive |-> primitive, vat |-> Vat, count |-> count,
   data |-> [i \in 1..(count * SizeOf(layout, format)) |-> pattern[i % 3]]]

LayoutPrograms ==
  {Setup(l, f) \o <<DrawOf(3, n, l, f, p), Bp(66, 1)>> : l \in Layouts, f \in Formats, n \in 1..2, p \in Patterns}

PrimitivePrograms ==
  {Setup(7, 0) \o <<DrawOf(q, n, 7, 0, p)>> : q \in 1..8, n \in 0..7, p \in Patterns}

Calls == {Call(2, 6), Call(5, 10), Call(6, 6), Call(6, 8), Call(8, 2)}

Commands ==
  {Op("nop"), Op("metrics"), Op("invalidate"), Unknown, Cp(81, 1), Cp(172, 1), Cp(188, 1),
   [op |-> "xf", address |-> 1, values |-> <<2, 3, 1>>],
   [op |-> "indexed", array |-> 12, index |-> 1, address |-> 0, size |-> 2],
   Bp(BpMask, 1), Bp(66, 3), Bp(EfbControl, 2), Bp(EfbSource, 1),
   Bp(BpMask, 2)} \cup Calls

SequencePrograms ==
  [1..2 -> Commands] \cup {<<first, c, last>> : first \in Calls, c \in Commands, last \in Calls}

\* A list that ends in a call of itself, one that calls it and another, one to be cut in a command.
MCDisplayLists ==
  2 :> <<Bp(66, 2), Call(2, 6)>> @@
  4 :> <<Call(2, 6), Cp(188, 2), Call(6, 8), Op("nop")>> @@
  6 :> <<Op("nop"), Bp(66, 1), Bp(66, 2), Op("invalidate")>>

MCPrograms == LayoutPrograms \cup PrimitivePrograms \cup SequencePrograms
=============================================================================
