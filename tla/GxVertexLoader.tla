--------------------------- MODULE GxVertexLoader ---------------------------
(* src/gpu/gx_vertex_loader.cpp: how the vertices of a draw are read from  *)
(* the command stream and cut into primitives. What a vertex is made of is *)
(* read from the CP registers as the state backend keeps them; the command *)
(* processor works the same out of registers of its own.                   *)
(*                                                                         *)
(* The value of a register is a number, and Fields says what its bits stand *)
(* for in each of the registers it can be loaded into.                     *)
(* Coordinates and colours are not modelled: a vertex is counted, not      *)
(* looked at. An element of an array is in memory when its index is less   *)
(* than ArrayLength.                                                       *)
EXTENDS Integers, Sequences, FiniteSets, FiniteSetsExt, SequencesExt

CONSTANTS
  MaxUnit,      \* the largest unit of the stream: 2^32 - 1 in the code
  Fields,       \* the fields of every value a CP register can have
  ArrayLength   \* elements of a vertex array that are in memory

Units == 0..MaxUnit

\* The fields of VCD_LO, of VCD_HI and of the three VAT registers of a format. Descriptors
\* have two bits and formats three; elements are counted as the code uses them.
FieldRecord ==
  [matrices : SUBSET (0..8), position : 0..3, normal : 0..3, color : [1..2 -> 0..3],
   texture : [0..7 -> 0..3],
   positionElements : 2..3, positionFormat : 0..7, ntb : BOOLEAN, index3 : BOOLEAN,
   normalFormat : 0..7, colorFormat : [1..2 -> 0..7],
   textureFormat : [0..7 -> 0..7], textureElements : [0..7 -> 0..1]]

ASSUME UnitsAssumption == MaxUnit \in Nat /\ MaxUnit >= 65535
ASSUME FieldsAssumption == Fields \in [Units -> FieldRecord]
ASSUME ArrayAssumption == ArrayLength \in Nat

VcdLow == 80    \* 0x50
VcdHigh == 96   \* 0x60

\* The VAT register of a group, of a vertex format: 0x70, 0x80, 0x90.
VatRegister(group, vat) == 112 + 16 * group + vat

\* Which of the three VAT registers describes a texture coordinate.
TextureGroup(t) == IF t = 0 THEN 0 ELSE IF t <= 4 THEN 1 ELSE 2

FormatSize(format) == IF format < 2 THEN 1 ELSE IF format < 4 THEN 2 ELSE 4

ColorSize(format) == <<2, 3, 4, 2, 3, 4, 0, 0>>[format + 1]

-----------------------------------------------------------------------------
(* Reading a vertex. A read takes so many bytes, and an index among them   *)
(* names an element of an array. An all-ones index of a position skips the *)
(* vertex.                                                                 *)

Direct(n) == <<[kind |-> "direct", bytes |-> n]>>

\* AttributeData: descriptor 0 is absent, 1 direct, 2 and 3 an index of one or two bytes.
AttributeReads(kind, descriptor, size) ==
  CASE descriptor = 0 -> <<>>
    [] descriptor = 1 -> Direct(size)
    [] OTHER -> <<[kind |-> kind, bytes |-> descriptor - 1]>>

MatrixReads(low) == [i \in 1..Cardinality(low.matrices) |-> Direct(1)[1]]

PositionReads(low, g0) ==
  AttributeReads("position", low.position, FormatSize(g0.positionFormat) * g0.positionElements)

NormalReads(low, g0) ==
  IF low.normal \in {2, 3} /\ g0.ntb /\ g0.index3
  THEN FlattenSeq([i \in 1..3 |-> AttributeReads("index", low.normal, 0)])
  ELSE AttributeReads("index", low.normal, FormatSize(g0.normalFormat) * (IF g0.ntb THEN 9 ELSE 3))

ColorReads(low, g0) ==
  FlattenSeq([c \in 1..2 |-> AttributeReads("index", low.color[c], ColorSize(g0.colorFormat[c]))])

TextureReads(high, vat) ==
  LET Read(t) == AttributeReads("index", high.texture[t],
                   FormatSize(vat[TextureGroup(t)].textureFormat[t])
                     * (vat[TextureGroup(t)].textureElements[t] + 1))
  IN FlattenSeq([i \in 1..8 |-> Read(i - 1)])

VertexReads(cp, vat) ==
  LET groups == [g \in 0..2 |-> Fields[cp[VatRegister(g, vat)]]]
      low == Fields[cp[VcdLow]]
      high == Fields[cp[VcdHigh]]
  IN MatrixReads(low) \o PositionReads(low, groups[0]) \o NormalReads(low, groups[0])
       \o ColorReads(low, groups[0]) \o TextureReads(high, groups)

IndexAt(data, offset, bytes) ==
  IF bytes = 1 THEN data[offset + 1] ELSE data[offset + 1] * 256 + data[offset + 2]

SkipIndex(bytes) == IF bytes = 1 THEN 255 ELSE 65535

Skips(read, index) == read.kind = "position" /\ index = SkipIndex(read.bytes)

-----------------------------------------------------------------------------
(* The index buffer, as the sequence of its primitives.                    *)

Triangle(i, j, k) == <<i, j, k>>

\* A quad is two triangles.
QuadCorners(i) == <<Triangle(i, i + 1, i + 2), Triangle(i, i + 2, i + 3)>>

(* A plausible bug: the vertices left over make a quad of their own.       *)
QuadsRoundedUp(n) == FlattenSeq([q \in 1..((n + 3) \div 4) |-> QuadCorners(4 * (q - 1))])

\* Three vertices left over are a triangle, fewer are dropped.
Quads(n) ==
  FlattenSeq([q \in 1..(n \div 4) |-> QuadCorners(4 * (q - 1))])
    \o (IF n % 4 = 3 THEN <<Triangle(n - 3, n - 2, n - 1)>> ELSE <<>>)

AddIndices(primitive, n) ==
  CASE primitive = "Points" -> [k \in 1..n |-> <<k - 1>>]
    [] primitive = "Lines" -> [k \in 1..(n \div 2) |-> <<2 * k - 2, 2 * k - 1>>]
    [] primitive = "LineStrip" -> [k \in 1..(n - 1) |-> <<k - 1, k>>]
    [] primitive = "Triangles" -> [k \in 1..(n \div 3) |-> Triangle(3 * k - 3, 3 * k - 2, 3 * k - 1)]
    [] primitive \in {"Quads", "Quads2"} -> Quads(n)
    [] primitive = "TriangleFan" -> [k \in 1..(n - 2) |-> Triangle(0, k, k + 1)]
    [] primitive = "TriangleStrip" ->
         [k \in 1..(n - 2) |-> IF k % 2 = 1 THEN Triangle(k - 1, k, k + 1) ELSE Triangle(k, k - 1, k + 1)]

\* The reader after one more read: the first that finds too few bytes, or an element that
\* is not in memory, is the last.
Read(data, reader, read) ==
  LET offset == reader.offset + read.bytes
      short == offset > Len(data)
      index == IndexAt(data, reader.offset, read.bytes)
      skipped == read.kind # "direct" /\ Skips(read, index)
      unresolved == read.kind # "direct" /\ ~skipped /\ index >= ArrayLength
  IN IF reader.result # "decoded" THEN reader
     ELSE IF short THEN [reader EXCEPT !.result = "short"]
     ELSE IF unresolved THEN [reader EXCEPT !.result = "unresolved"]
     ELSE [reader EXCEPT !.offset = offset, !.skipped = IF skipped THEN @ + 1 ELSE @]

ReadAll(data, reads) ==
  FoldLeft(LAMBDA reader, read : Read(data, reader, read),
           [offset |-> 0, skipped |-> 0, result |-> "decoded"], reads)

\* GxVertexLoader::Decode: the vertices kept and their primitives, or why there are none.
Decode(packet, cp) ==
  LET reader == ReadAll(packet.data, FlattenSeq([v \in 1..packet.count |-> VertexReads(cp, packet.vat)]))
      kept == packet.count - reader.skipped
  IN CASE reader.result # "decoded" -> [result |-> reader.result, vertices |-> 0, primitives |-> <<>>]
       [] reader.result = "decoded" /\ reader.offset # Len(packet.data) ->
            [result |-> "left over", vertices |-> 0, primitives |-> <<>>]
       [] OTHER -> [result |-> "decoded", vertices |-> kept,
                    primitives |-> AddIndices(packet.primitive, kept)]
=============================================================================
