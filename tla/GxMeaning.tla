----------------------------- MODULE GxMeaning ------------------------------
(* What a sequence of commands does, with no stream, no buffer and no      *)
(* decoder: the display lists it calls are written out in their place, and *)
(* one command is done after the other. GxCommandProcessor is compared     *)
(* with it.                                                                *)
EXTENDS GxCommandProcessor

\* The longest part of commands that fits into so many units.
WholeCommands(commands, units) ==
  SubSeq(commands, 1, Max({n \in 0..Len(commands) : Len(EncodeAll(SubSeq(commands, 1, n))) <= units}))

Called == {c \in UNION {Range(commands) : commands \in Programs \cup Range(DisplayLists)} : c.op = "call"}

\* The commands with every call replaced by what inlined says it stands for.
Inline(commands, inlined) ==
  FlattenSeq([i \in DOMAIN commands |->
    IF commands[i].op = "call" THEN inlined[commands[i]] ELSE <<commands[i]>>])

\* What a call stands for with so many levels left: the whole commands of its display list.
Inlined[left \in 0..MaxDisplayListDepth] ==
  [c \in Called |->
    IF left = 0 \/ Resolved(Aligned(c.address), Aligned(c.size)) = <<>> THEN <<>>
    ELSE Inline(WholeCommands(DisplayLists[Aligned(c.address)], Aligned(c.size)), Inlined[left - 1])]

Apply(s, c) ==
  CASE c.op \in {"nop", "metrics"} -> s
    [] c.op = "cp" -> [s EXCEPT !.regs = LoadCp(@, c.register, c.value),
                                !.backend = LoadCpRegister(@, c.register, c.value)]
    [] c.op = "xf" -> [s EXCEPT !.backend = LoadXfRegisters(@, c.address, c.values)]
    [] c.op = "indexed" -> [s EXCEPT !.backend = LoadIndexedXf(@, c.array, c.index, c.address, c.size)]
    [] c.op = "bp" -> [s EXCEPT !.backend = LoadBpRegister(@, c.register, c.value)]
    [] c.op = "invalidate" -> [s EXCEPT !.backend = InvalidateVertexCache(@)]
    [] c.op = "draw" -> [s EXCEPT !.backend = Draw(@, [primitive |-> Primitives[c.primitive],
                                                       vat |-> c.vat, count |-> c.count, data |-> c.data])]
    [] c.op = "unknown" -> [s EXCEPT !.unknown = @ + 1]

\* The registers, the render device and the count after these commands, which call nothing.
Effect(commands) == FoldLeft(Apply, [regs |-> InitRegs, backend |-> InitBackend, unknown |-> 0], commands)

Meaning(commands) == Effect(Inline(commands, Inlined[MaxDisplayListDepth]))

\* Every draw comes with as many vertices as it announces, of the size the registers give.
Sized(commands) ==
  \A i \in DOMAIN commands : commands[i].op = "draw" =>
    Len(commands[i].data) = commands[i].count
                              * GetVertexSize(Effect(SubSeq(commands, 1, i - 1)).regs, commands[i].vat)

\* What the stream does not say itself is where a draw ends: that is for the guest to keep.
ASSUME DrawsAssumption ==
  /\ \A p \in Programs : Sized(Inline(p, Inlined[MaxDisplayListDepth]))
  /\ \A c \in Called :
       LET list == DisplayLists[Aligned(c.address)]
           whole == WholeCommands(list, Aligned(c.size))
       IN /\ Resolved(Aligned(c.address), Aligned(c.size)) # <<>>
          /\ Len(EncodeAll(whole)) < Aligned(c.size)
          => list[Len(whole) + 1].op # "draw"

(* However the guest's stream is cut into writes, between two of them the  *)
(* registers, the render device and the count of unknown opcodes are those *)
(* of the commands written in full, display lists run in their place, and  *)
(* the buffer holds the beginning of the next command and nothing else.    *)
AsIfWrittenAtOnce ==
  ~writing =>
    LET whole == WholeCommands(program, sent)
        s == Meaning(whole)
    IN /\ regs = s.regs
       /\ backend = s.backend
       /\ m_unknown_opcode_count = s.unknown
       /\ m_buffer = SubSeq(EncodeAll(program), Len(EncodeAll(whole)) + 1, sent)
=============================================================================
