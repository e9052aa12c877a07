--------------------------- MODULE GxStateBackend ---------------------------
(* src/gpu/gx_state_backend.cpp: the registers of the graphics chip as the *)
(* renderer sees them, and what the render device is told. A backend is a  *)
(* record, and each operation gives the backend after it:                  *)
(*   cp, xf, bp  the registers; a bp register is the set of its one bits   *)
(*   mask        m_bp_mask, the bits the next bp write may change          *)
(*   device      the calls made to the GxRenderDevice, oldest first        *)
(* An EFB copy is reduced to the registers 0x49 and 0x52 among the twelve  *)
(* it is described by.                                                     *)
EXTENDS GxVertexLoader

CONSTANTS
  CpRegisters, BpRegisters,  \* the registers modelled, of 256 each
  XfSize,                    \* entries of m_xf
  Bits,                      \* the bits of a bp register
  BitsOf(_),                 \* the bits of a value
  XfMemory,                  \* the words an indexed load can read, from address 0 on
  MaxAddress                 \* the last address there is

ASSUME RegisterAssumption ==
  /\ {VcdLow, VcdHigh} \cup {VatRegister(g, v) : g \in 0..2, v \in 0..7} \subseteq CpRegisters
  /\ {73, 82, 254} \subseteq BpRegisters
  /\ XfSize \in Nat \ {0}

BpMask == 254     \* 0xFE
EfbSource == 73   \* 0x49
EfbControl == 82  \* 0x52

InitBackend == [cp |-> [r \in CpRegisters |-> 0], xf |-> [a \in 0..(XfSize - 1) |-> 0],
                bp |-> [r \in BpRegisters |-> {}], mask |-> Bits, device |-> <<>>]

Tell(b, call) == [b EXCEPT !.device = Append(@, call)]

LoadCpRegister(b, register, value) == [b EXCEPT !.cp[register] = value]

\* Values beyond the last entry are dropped.
LoadXfRegisters(b, address, values) ==
  [b EXCEPT !.xf = [a \in DOMAIN @ |->
     IF a \in address..(address + Len(values) - 1) THEN values[a - address + 1] ELSE @[a]]]

\* A write of 0x52 copies the frame buffer with the registers as they are then.
LoadBpRegister(b, register, value) ==
  LET written == [b EXCEPT !.bp[register] = (@ \ b.mask) \cup (BitsOf(value) \cap b.mask),
                           !.mask = Bits]
  IN CASE register = BpMask -> [b EXCEPT !.mask = BitsOf(value), !.bp[register] = BitsOf(value)]
       [] register = EfbControl -> Tell(written, [call |-> "CopyEfb", source |-> written.bp[EfbSource],
                                                  control |-> written.bp[EfbControl]])
       [] OTHER -> written

\* The words one after the other up to the first that is not in memory.
LoadIndexedXf(b, array, index, address, size) ==
  LET source == b.cp[160 + array] + (b.cp[176 + array] % 256) * index
      WordAddress(i) == (source + i) % (MaxAddress + 1)
      readable == {n \in 0..size : \A i \in 0..(n - 1) : WordAddress(i) < Len(XfMemory)}
      words == [i \in 1..Max(readable) |-> XfMemory[WordAddress(i - 1) + 1]]
  IN IF source > MaxAddress THEN b ELSE LoadXfRegisters(b, address, words)

\* A draw that cannot be decoded is submitted raw.
Draw(b, packet) ==
  LET decoded == Decode(packet, b.cp)
  IN Tell(b, [call |-> "Draw", packet |-> packet, decoded |-> decoded, xf |-> b.xf, bp |-> b.bp])

InvalidateVertexCache(b) == Tell(b, [call |-> "InvalidateVertexCache"])
=============================================================================
