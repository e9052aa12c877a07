------------------------- MODULE GxCommandProcessor -------------------------
(* src/gpu/gx_command_processor.cpp: the guest's command stream arrives in *)
(* pieces that know nothing of its commands. WriteBytes appends a piece to *)
(* the buffer and decodes from its start until a command is incomplete; a  *)
(* display list is decoded in the middle of that, by the same decoder, and *)
(* may call others, itself among them.                                     *)
(*                                                                         *)
(* A unit of the stream is an opcode, a register number, a half of a       *)
(* header, a register value or a byte of a vertex: the decoder waits for   *)
(* all of a command, so where in a value a piece is cut makes no           *)
(* difference. The stream the guest sends is the encoding of a sequence of *)
(* commands, which the properties compare the decoder with.                *)
(*                                                                         *)
(* Left out: the array registers of the processor, which nothing reads,    *)
(* and the counters, whose value depends on where runs of NOPs are cut,    *)
(* except m_unknown_opcode_count.                                          *)
EXTENDS GxStateBackend

CONSTANTS
  Programs,             \* the sequences of commands the guest may send
  DisplayLists,         \* the display lists in memory: address to commands
  Alignment,            \* of their addresses and sizes: 32 bytes in the code
  MaxDisplayListDepth,  \* 16 in the code
  ChunkSizes            \* how many units a write may have

ASSUME DepthAssumption == MaxDisplayListDepth \in Nat
ASSUME AlignmentAssumption == Alignment \in Nat \ {0}
ASSUME ChunkAssumption == ChunkSizes \subseteq Nat

VARIABLES
  program,               \* the guest's commands
  sent,                  \* how many units of them have been written
  m_buffer,              \* units not yet decoded
  consumed,              \* those of m_buffer the loop of WriteBytes has decoded
  writing,               \* WriteBytes is running
  lists,                 \* the display lists being decoded, innermost last
  m_display_list_depth,
  regs,                  \* m_vcd_low, m_vcd_high and m_vat
  m_unknown_opcode_count,
  backend

vars == <<program, sent, m_buffer, consumed, writing, lists, m_display_list_depth, regs,
          m_unknown_opcode_count, backend>>

-----------------------------------------------------------------------------
(* The commands the guest means, and their units.                          *)

Primitives == <<"Quads", "Quads2", "Triangles", "TriangleStrip",
                "TriangleFan", "Lines", "LineStrip", "Points">>

Nop == 0
LoadCpOp == 8
LoadXfOp == 16
IndexedOps == {32, 40, 48, 56}
CallOp == 64
MetricsOp == 68
InvalidateOp == 72
LoadBpOp == 97
DrawOps == 128..191
KnownOps == {Nop, LoadCpOp, LoadXfOp, CallOp, MetricsOp, InvalidateOp, LoadBpOp}
              \cup IndexedOps \cup DrawOps

Byte == {v \in Nat : v < 256}
Half == {v \in Nat : v < 65536}
XfAddress == {v \in Nat : v < 4096}

\* The arrays that can be indexed, as many words as a header can ask for, and any opcode
\* that is no command.
Command ==
       [op : {"nop", "metrics", "invalidate"}]
  \cup [op : {"cp", "bp"}, register : Byte, value : Units]
  \cup [op : {"xf"}, address : Half, values : {v \in Seq(Units) : Len(v) \in 1..16}]
  \cup [op : {"indexed"}, array : 12..15, index : Half, address : XfAddress, size : 1..16]
  \cup [op : {"call"}, address : Units, size : Units]
  \cup [op : {"draw"}, primitive : 1..8, vat : 0..7, count : Half, data : Seq(Byte)]
  \cup [op : {"unknown"}, opcode : Byte \ KnownOps]

ASSUME CommandsAssumption ==
  /\ Programs \subseteq Seq(Command)
  /\ Range(DisplayLists) \subseteq Seq(Command)

Encode(c) ==
  CASE c.op = "nop" -> <<Nop>>
    [] c.op = "cp" -> <<LoadCpOp, c.register, c.value>>
    [] c.op = "xf" -> <<LoadXfOp, Len(c.values) - 1, c.address>> \o c.values
    [] c.op = "indexed" -> <<(c.array - 8) * 8, c.index, (c.size - 1) * 4096 + c.address>>
    [] c.op = "call" -> <<CallOp, c.address, c.size>>
    [] c.op = "metrics" -> <<MetricsOp>>
    [] c.op = "invalidate" -> <<InvalidateOp>>
    [] c.op = "bp" -> <<LoadBpOp, c.register, c.value>>
    [] c.op = "draw" -> <<128 + 8 * (c.primitive - 1) + c.vat, c.count>> \o c.data
    [] c.op = "unknown" -> <<c.opcode>>

EncodeAll(commands) == FlattenSeq([i \in DOMAIN commands |-> Encode(commands[i])])

-----------------------------------------------------------------------------
(* The registers of the processor.                                         *)

InitRegs == [low |-> 0, high |-> 0, vat |-> [v \in 0..7 |-> [g \in 0..2 |-> 0]]]

\* LoadCp: the low half of the register number is not looked at for 0x50 and
\* 0x60, and its top bit not for the VAT. The backend keeps the whole number.
LoadCp(r, register, value) ==
  LET row == register \div 16
  IN CASE row = 5 -> [r EXCEPT !.low = value]
       [] row = 6 -> [r EXCEPT !.high = value]
       [] row \in 7..9 -> [r EXCEPT !.vat[register % 8][row - 7] = value]
       [] OTHER -> r

AttributeSize(descriptor, direct) ==
  CASE descriptor = 0 -> 0 [] descriptor = 1 -> direct [] OTHER -> descriptor - 1

(* A plausible bug: the indices of normal, tangent and binormal counted as *)
(* one.                                                                    *)
NormalSizeOfOneIndex(low, g0) ==
  AttributeSize(low.normal, FormatSize(g0.normalFormat) * (IF g0.ntb THEN 9 ELSE 3))

NormalSize(low, g0) ==
  IF low.normal <= 1
  THEN AttributeSize(low.normal, FormatSize(g0.normalFormat) * (IF g0.ntb THEN 9 ELSE 3))
  ELSE (low.normal - 1) * (IF g0.ntb /\ g0.index3 THEN 3 ELSE 1)

GetVertexSize(r, vat) ==
  LET Group(g) == Fields[r.vat[vat][g]]
      low == Fields[r.low]
      high == Fields[r.high]
      TextureSize(t) ==
        AttributeSize(high.texture[t], FormatSize(Group(TextureGroup(t)).textureFormat[t])
                                         * (Group(TextureGroup(t)).textureElements[t] + 1))
  IN Cardinality(low.matrices)
       + AttributeSize(low.position, FormatSize(Group(0).positionFormat) * Group(0).positionElements)
       + NormalSize(low, Group(0))
       + AttributeSize(low.color[1], ColorSize(Group(0).colorFormat[1]))
       + AttributeSize(low.color[2], ColorSize(Group(0).colorFormat[2]))
       + FoldLeft(+, 0, [i \in 1..8 |-> TextureSize(i - 1)])

-----------------------------------------------------------------------------
(* Decoding. Data is what the innermost decoder has before it.             *)

Data == IF lists = <<>> THEN SubSeq(m_buffer, consumed + 1, Len(m_buffer)) ELSE Last(lists)

\* A run of NOPs is one command.
NopRun(data) == Max({n \in 1..Len(data) : \A i \in 1..n : data[i] = Nop})

\* What DecodeOne consumes of data that is not empty: 0 when the command is incomplete.
CommandSize(data) ==
  LET opcode == data[1]
      Whole(n) == IF Len(data) >= n THEN n ELSE 0
  IN CASE opcode = Nop -> NopRun(data)
       [] opcode \in {LoadCpOp, CallOp, LoadBpOp} \cup IndexedOps -> Whole(3)
       [] opcode = LoadXfOp -> IF Len(data) < 3 THEN 0 ELSE Whole(data[2] + 4)
       [] opcode \in DrawOps ->
            IF Len(data) < 2 THEN 0 ELSE Whole(2 + data[2] * GetVertexSize(regs, opcode % 8))
       [] OTHER -> 1

Decodable == Data # <<>> /\ CommandSize(Data) > 0

\* A command with one of these opcodes is next, and whole.
AtCommand(opcodes) == writing /\ Decodable /\ Head(Data) \in opcodes

Rest == SubSeq(Data, CommandSize(Data) + 1, Len(Data))

\* The lists once the command is consumed from the innermost of them, if any.
ListsAfter == IF lists = <<>> THEN lists ELSE Append(Front(lists), Rest)

Consume ==
  /\ consumed' = IF lists = <<>> THEN consumed + CommandSize(Data) ELSE consumed
  /\ UNCHANGED <<program, sent, m_buffer, writing>>

StayInList == lists' = ListsAfter /\ UNCHANGED m_display_list_depth

DecodeNop ==
  /\ AtCommand({Nop, MetricsOp})
  /\ Consume /\ StayInList
  /\ UNCHANGED <<regs, m_unknown_opcode_count, backend>>

DecodeInvalidate ==
  /\ AtCommand({InvalidateOp})
  /\ Consume /\ StayInList
  /\ backend' = InvalidateVertexCache(backend)
  /\ UNCHANGED <<regs, m_unknown_opcode_count>>

DecodeLoadCp ==
  /\ AtCommand({LoadCpOp})
  /\ Consume /\ StayInList
  /\ regs' = LoadCp(regs, Data[2], Data[3])
  /\ backend' = LoadCpRegister(backend, Data[2], Data[3])
  /\ UNCHANGED m_unknown_opcode_count

DecodeLoadXf ==
  /\ AtCommand({LoadXfOp})
  /\ Consume /\ StayInList
  /\ backend' = LoadXfRegisters(backend, Data[3], SubSeq(Data, 4, Data[2] + 4))
  /\ UNCHANGED <<regs, m_unknown_opcode_count>>

DecodeIndexedXf ==
  /\ AtCommand(IndexedOps)
  /\ Consume /\ StayInList
  /\ backend' = LoadIndexedXf(backend, Data[1] \div 8 + 8, Data[2],
                              Data[3] % 4096, Data[3] \div 4096 + 1)
  /\ UNCHANGED <<regs, m_unknown_opcode_count>>

DecodeLoadBp ==
  /\ AtCommand({LoadBpOp})
  /\ Consume /\ StayInList
  /\ backend' = LoadBpRegister(backend, Data[2], Data[3])
  /\ UNCHANGED <<regs, m_unknown_opcode_count>>

DecodeDraw ==
  /\ AtCommand(DrawOps)
  /\ Consume /\ StayInList
  /\ backend' = Draw(backend, [primitive |-> Primitives[(Data[1] % 128) \div 8 + 1],
                               vat |-> Data[1] % 8, count |-> Data[2],
                               data |-> SubSeq(Data, 3, CommandSize(Data))])
  /\ UNCHANGED <<regs, m_unknown_opcode_count>>

DecodeUnknown ==
  /\ writing /\ Decodable
  /\ Head(Data) \notin KnownOps
  /\ Consume /\ StayInList
  /\ m_unknown_opcode_count' = m_unknown_opcode_count + 1
  /\ UNCHANGED <<regs, backend>>

-----------------------------------------------------------------------------
(* Display lists.                                                          *)

Aligned(n) == n - (n % Alignment)

\* Resolve: the units of the list at address, or none when it is not in memory.
Resolved(address, size) ==
  IF address \notin DOMAIN DisplayLists THEN <<>>
  ELSE LET units == EncodeAll(DisplayLists[address])
       IN IF size > Len(units) THEN <<>> ELSE SubSeq(units, 1, size)

Enterable(address, size) ==
  /\ Resolved(address, size) # <<>>
  /\ m_display_list_depth < MaxDisplayListDepth

(* A plausible bug: a call that ends a list takes its place, uncounted.    *)
EnterInPlace(units) ==
  IF lists # <<>> /\ Rest = <<>>
  THEN lists' = Append(Front(lists), units) /\ UNCHANGED m_display_list_depth
  ELSE /\ lists' = Append(ListsAfter, units)
       /\ m_display_list_depth' = m_display_list_depth + 1

Enter(units) ==
  /\ lists' = Append(ListsAfter, units)
  /\ m_display_list_depth' = m_display_list_depth + 1

\* A list that is empty, nested too deep or not in memory is passed over.
DecodeCall ==
  /\ AtCommand({CallOp})
  /\ Consume
  /\ LET address == Aligned(Data[2])
         size == Aligned(Data[3])
     IN IF Enterable(address, size)
        THEN Enter(Resolved(address, size))
        ELSE StayInList
  /\ UNCHANGED <<regs, m_unknown_opcode_count, backend>>

(* A plausible bug: the depth is not taken back.                           *)
ListEndsDeep ==
  /\ writing /\ lists # <<>> /\ ~Decodable
  /\ lists' = Front(lists)
  /\ UNCHANGED <<program, sent, m_buffer, consumed, writing, m_display_list_depth, regs,
                 m_unknown_opcode_count, backend>>

\* The end of a list, or a last command it does not hold all of.
ListEnds ==
  /\ writing /\ lists # <<>> /\ ~Decodable
  /\ lists' = Front(lists)
  /\ m_display_list_depth' = m_display_list_depth - 1
  /\ UNCHANGED <<program, sent, m_buffer, consumed, writing, regs, m_unknown_opcode_count, backend>>

-----------------------------------------------------------------------------

WriteBytes(n) ==
  /\ ~writing
  /\ sent + n <= Len(EncodeAll(program))
  /\ m_buffer' = m_buffer \o SubSeq(EncodeAll(program), sent + 1, sent + n)
  /\ sent' = sent + n
  /\ writing' = TRUE
  /\ UNCHANGED <<program, consumed, lists, m_display_list_depth, regs, m_unknown_opcode_count, backend>>

\* An incomplete command stays in the buffer for the next write.
WriteReturns ==
  /\ writing /\ lists = <<>> /\ ~Decodable
  /\ m_buffer' = Data
  /\ consumed' = 0
  /\ writing' = FALSE
  /\ UNCHANGED <<program, sent, lists, m_display_list_depth, regs, m_unknown_opcode_count, backend>>

\* LegacyRuntime::Reset resets the processor and the backend; the guest starts over.
Reset ==
  /\ ~writing
  /\ sent' = 0 /\ m_buffer' = <<>> /\ consumed' = 0
  /\ lists' = <<>> /\ m_display_list_depth' = 0
  /\ regs' = InitRegs /\ m_unknown_opcode_count' = 0
  /\ backend' = InitBackend
  /\ UNCHANGED <<program, writing>>

Init ==
  /\ program \in Programs
  /\ sent = 0 /\ m_buffer = <<>> /\ consumed = 0 /\ writing = FALSE
  /\ lists = <<>> /\ m_display_list_depth = 0
  /\ regs = InitRegs /\ m_unknown_opcode_count = 0
  /\ backend = InitBackend

DecodeStep ==
  \/ DecodeNop \/ DecodeInvalidate \/ DecodeLoadCp \/ DecodeLoadXf \/ DecodeIndexedXf
  \/ DecodeLoadBp \/ DecodeDraw \/ DecodeUnknown \/ DecodeCall
  \/ ListEnds \/ WriteReturns

Next ==
  \/ DecodeStep
  \/ \E n \in ChunkSizes : WriteBytes(n)
  \/ Reset

Spec == Init /\ [][Next]_vars
-----------------------------------------------------------------------------
(* Properties.                                                             *)

\* Some command names a CP register by a number the processor takes for another.
Aliases(commands) ==
  \E c \in Range(commands) :
    c.op = "cp" /\ \/ c.register \div 16 \in {5, 6} /\ c.register % 16 # 0
                   \/ c.register \div 16 \in 7..9 /\ c.register % 16 >= 8

Draws == {call \in Range(backend.device) : call.call = "Draw"}

(* The processor works the size of a vertex out of its own registers and   *)
(* the loader reads the vertices by the backend's: as long as the guest    *)
(* names the registers by their usual numbers they agree about every draw, *)
(* so that one that is submitted raw is one whose arrays are not in memory.*)
DrawsDecode ==
  ~(Aliases(program) \/ \E a \in DOMAIN DisplayLists : Aliases(DisplayLists[a]))
    => \A d \in Draws : d.decoded.result \in {"decoded", "unresolved"}

\* The vertices that make up whole primitives.
InWholePrimitives(primitive, n) ==
  CASE primitive = "Points" -> n
    [] primitive = "Lines" -> n - (n % 2)
    [] primitive = "LineStrip" -> IF n >= 2 THEN n ELSE 0
    [] primitive = "Triangles" -> n - (n % 3)
    [] primitive \in {"Quads", "Quads2"} -> IF n % 4 = 3 THEN n ELSE n - (n % 4)
    [] OTHER -> IF n >= 3 THEN n ELSE 0

(* The primitives of a decoded draw are made of the vertices that were     *)
(* kept, whatever vertices among them were skipped, and leave out only     *)
(* those too few for one more primitive.                                   *)
IndicesNameKeptVertices ==
  \A d \in Draws :
    UNION {Range(d.decoded.primitives[i]) : i \in DOMAIN d.decoded.primitives}
      = 0..(InWholePrimitives(d.packet.primitive, d.decoded.vertices) - 1)

(* The two together: a draw is decoded with the sizes it was cut out with, *)
(* and its indices stay inside what was decoded.                           *)
DrawsAreSound == DrawsDecode /\ IndicesNameKeptVertices

\* What each decoder has before it, the outermost first.
Remaining == <<Len(m_buffer) - consumed>> \o [i \in DOMAIN lists |-> Len(lists[i])]

\* The first difference is one where s has less, or is at an end.
Below(s, t) ==
  \E i \in DOMAIN t : /\ \A j \in 1..(i - 1) : j \in DOMAIN s /\ s[j] = t[j]
                      /\ i \in DOMAIN s => s[i] < t[i]

(* Why every write returns, with display lists that call themselves or end *)
(* in the middle of a command: each step leaves the outermost decoder it   *)
(* changes with less before it, and there are only so many of them.        *)
DecodingProgresses ==
  [][writing /\ writing' => Below(Remaining', Remaining) /\ Len(lists') <= MaxDisplayListDepth]_vars
=============================================================================
