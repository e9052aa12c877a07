--------------------------- MODULE DiscInterface ----------------------------
(***************************************************************************)
(* DiscInterface (src/hardware/disc_interface.cpp): the guest writes a     *)
(* command and a DMA range, sets the start bit, and a scheduled callback   *)
(* finishes the transfer one cycle later with whatever the registers then  *)
(* hold.  Addresses, lengths and offsets count blocks.                     *)
(***************************************************************************)
EXTENDS EventQueue

CONSTANTS
  DiscSize,   \* DiscSource::GetSize()
  MemorySize  \* the guest memory AddressSpace::Resolve accepts

VARIABLES
  events, ticks, nextId,      \* the event scheduler
  cause, mask, exception,     \* the processor interface
  disc,      \* m_source # nullptr; m_cover is its negation
  status,    \* m_status: the bits the code tests or sets
  command,   \* the opcode in m_command[0]: the DMA read 0xA8, or another one
  offset,    \* m_command[1]
  address,   \* m_dma_address
  length,    \* m_dma_length
  busy       \* bit 0 of m_dma_control

PI == INSTANCE ProcessorInterface

piVars == <<cause, mask, exception>>

(* TransferCompleteMask, TransferComplete, and the device error bit 0x4.   *)
StatusBits == {"TCINTMASK", "TCINT", "DEINT"}

TypeOK ==
  /\ disc \in BOOLEAN
  /\ status \subseteq StatusBits
  /\ command \in {"read", "other"}
  /\ offset \in Nat /\ address \in Nat /\ length \in Nat
  /\ busy \in BOOLEAN

ResetRegisters ==
  /\ status' = {}
  /\ command' = "other"
  /\ offset' = 0 /\ address' = 0 /\ length' = 0
  /\ busy' = FALSE
  /\ UNCHANGED disc

InterruptCondition == {"TCINTMASK", "TCINT"} \subseteq status
UpdateInterrupt == PI!SetInterrupt("DI", InterruptCondition')

-----------------------------------------------------------------------------
(* The host inserts or removes the disc.                                   *)
SetSource(present) ==
  /\ disc' = present
  /\ UNCHANGED <<status, command, offset, address, length, busy>>
  /\ UNCHANGED <<events, ticks, nextId>>
  /\ UNCHANGED piVars

StatusAfterWrite(value) ==
  (status \ (value \cap {"TCINT", "DEINT"})) \cup (value \cap {"TCINTMASK"})

(* What a bug would leave out: the line is not re-evaluated.               *)
WriteStatusOnly(value) ==
  /\ status' = StatusAfterWrite(value)
  /\ UNCHANGED <<disc, command, offset, address, length, busy>>
  /\ UNCHANGED <<events, ticks, nextId>>
  /\ UNCHANGED piVars

(* Interrupt bits are written one to clear; mask bits can be set only.     *)
WriteStatus(value) ==
  /\ status' = StatusAfterWrite(value)
  /\ UNCHANGED <<disc, command, offset, address, length, busy>>
  /\ UNCHANGED <<events, ticks, nextId>>
  /\ UpdateInterrupt

WriteCommand(opcode, disc_offset) ==
  /\ command' = opcode
  /\ offset' = disc_offset
  /\ UNCHANGED <<disc, status, address, length, busy>>
  /\ UNCHANGED <<events, ticks, nextId>>
  /\ UNCHANGED piVars

WriteDmaRange(dma_address, dma_length) ==
  /\ address' = dma_address
  /\ length' = dma_length
  /\ UNCHANGED <<disc, status, command, offset, busy>>
  /\ UNCHANGED <<events, ticks, nextId>>
  /\ UNCHANGED piVars

(* A plausible shortcut: nothing to transfer, so nothing is scheduled.     *)
WriteDmaControlSkipEmpty(start) ==
  /\ busy' = start
  /\ IF start /\ length > 0
       THEN /\ events' = events \cup {NewEvent(ticks, nextId, 1, "DI")}
            /\ nextId' = nextId + 1
       ELSE UNCHANGED <<events, nextId>>
  /\ UNCHANGED <<disc, status, command, offset, address, length, ticks>>
  /\ UNCHANGED piVars

(* The start bit schedules a completion, also while one is in flight; a    *)
(* write without it clears the bit and cancels nothing.                    *)
WriteDmaControl(start) ==
  /\ busy' = start
  /\ IF start
       THEN /\ events' = events \cup {NewEvent(ticks, nextId, 1, "DI")}
            /\ nextId' = nextId + 1
       ELSE UNCHANGED <<events, nextId>>
  /\ UNCHANGED <<disc, status, command, offset, address, length, ticks>>
  /\ UNCHANGED piVars

(* The checks FinishTransfer makes before DiscSource::Read.                *)
InBounds ==
  /\ address < MemorySize /\ address + length <= MemorySize
  /\ offset <= DiscSize
  /\ length <= DiscSize - offset

(* A plausible bug: the error path returns before the start bit is cleared.*)
FinishTransferErrorReturns(e) ==
  /\ events' = events \ {e}
  /\ \E read_ok \in BOOLEAN :
       IF command = "read" /\ disc /\ InBounds /\ read_ok
         THEN status' = status \cup {"TCINT"} /\ busy' = FALSE /\ length' = 0
         ELSE status' = status \cup {"DEINT"} /\ UNCHANGED <<busy, length>>
  /\ UNCHANGED <<disc, command, offset, address, ticks, nextId>>
  /\ UpdateInterrupt

FinishTransfer(e) ==
  /\ events' = events \ {e}
  /\ \E read_ok \in BOOLEAN :
       status' = status \cup
         (IF command = "read" /\ disc /\ InBounds /\ read_ok THEN {"TCINT"} ELSE {"DEINT"})
  /\ busy' = FALSE
  /\ length' = 0
  /\ UNCHANGED <<disc, command, offset, address, ticks, nextId>>
  /\ UpdateInterrupt

-----------------------------------------------------------------------------
(* No spurious interrupt: the controller shows the disc's bit only while   *)
(* the disc has a completion that the guest unmasked and has not cleared.  *)
NoSpuriousDiscInterrupt == "DI" \in cause => InterruptCondition

(* A guest that polls the start bit does not hang: while it is set, a      *)
(* completion that will clear it is queued.                                *)
BusyHasCompletion == busy => \E e \in events : e.callback = "DI"
=============================================================================
