--------------------------- MODULE LegacyRuntime ----------------------------
(***************************************************************************)
(* The hardware side of LegacyRuntime (src/runtime/legacy_runtime.cpp): a  *)
(* recompiled block of the guest runs and touches device registers, then   *)
(* Run charges its cycles to the event scheduler, whose Advance hands each *)
(* due event to its device; the host may reset the machine or change the   *)
(* disc between two calls of Run.                                          *)
(*                                                                         *)
(* Everything runs on one thread, so a device handler and a callback are   *)
(* atomic; the order in which a block's register writes, the passing of    *)
(* time and the events fall is the guest's choice.                         *)
(***************************************************************************)
EXTENDS EventQueue

CONSTANTS
  DiscSize, MemorySize,
  CyclesPerSample, SampleModulus, StartDelay, DmaPeriod, HighUnit,
  Charges,         \* the cycles a block may charge
  Guests           \* the values each guest writes to the registers it uses

ASSUME ChargesAssumption == Charges \subseteq Tick \ {0}
ASSUME BoundsAssumption == \A g \in Guests : g.tickBound \in Tick /\ g.maxId \in Nat
ASSUME BuffersAssumption == \A g \in Guests : g.blocks \subseteq Nat /\ g.sources \subseteq Nat

(* A sample register holds a sample, and no guest runs so long that a whole *)
(* turn of the counter would end where time saturates, in 2^64 ticks.       *)
ASSUME SamplesAssumption ==
  \A g \in Guests :
    /\ g.counters \subseteq 0 .. SampleModulus - 1
    /\ g.timings \subseteq 0 .. SampleModulus - 1
    /\ g.tickBound + SampleModulus * CyclesPerSample <= TickMax

ASSUME DiscAssumption == DiscSize \in Nat /\ MemorySize \in Nat
ASSUME AudioAssumption ==
  /\ CyclesPerSample \in Nat \ {0}
  /\ SampleModulus \in Nat \ {0}
  /\ StartDelay \in Nat /\ DmaPeriod \in Nat
  /\ HighUnit \in Nat \ {0}

VARIABLES
  guest,  \* the program that runs, and the host's part in it; it never changes
  events, ticks, nextId, advancing,
  cause, mask, exception,
  disc, status, command, offset, address, length, busy,
  aiEvent, aiControl, sampleCounter, timing, lastAiTick,
  dmaEvent, dspControl, dmaSource, currentSource, dmaControl, remaining, latched

PI    == INSTANCE ProcessorInterface
DI    == INSTANCE DiscInterface
Audio == INSTANCE AudioSystem

queueVars == <<events, ticks, nextId>>
piVars    == <<cause, mask, exception>>
discVars  == <<disc, status, command, offset, address, length, busy>>
aiVars    == <<aiEvent, aiControl, sampleCounter, timing, lastAiTick>>
dmaVars   == <<dmaEvent, dspControl, dmaSource, currentSource, dmaControl, remaining, latched>>
audioVars == <<aiVars, dmaVars>>
vars == <<guest, queueVars, advancing, piVars, discVars, audioVars>>

TypeOK ==
  /\ guest \in Guests
  /\ events \subseteq Event
  /\ ticks \in Tick
  /\ nextId \in Nat \ {0}
  /\ advancing \in BOOLEAN
  /\ PI!TypeOK /\ DI!TypeOK /\ Audio!TypeOK

Init ==
  /\ guest \in Guests
  /\ events = {} /\ ticks = 0 /\ nextId = 1 /\ advancing = FALSE
  /\ cause = PI!ResetCause /\ mask = {} /\ exception = FALSE
  /\ disc = FALSE /\ status = {} /\ command = "other"
  /\ offset = 0 /\ address = 0 /\ length = 0 /\ busy = FALSE
  /\ aiEvent = 0 /\ aiControl = {} /\ sampleCounter = 0 /\ timing = 0 /\ lastAiTick = 0
  /\ dmaEvent = 0 /\ dspControl = {} /\ dmaSource = 0 /\ currentSource = 0
  /\ dmaControl = [enable |-> FALSE, blocks |-> 0] /\ remaining = 0
  /\ latched = [source |-> 0, blocks |-> 0]

-----------------------------------------------------------------------------
(* A block of the guest runs between two calls of Advance and writes one   *)
(* register after another.                                                 *)
GuestRuns == ~advancing /\ nextId <= guest.maxId /\ ticks < guest.tickBound  \* bounds

GuestWritesPi ==
  /\ GuestRuns
  /\ \E value \in guest.pi : PI!WriteCause(value) \/ PI!WriteMask(value)
  /\ UNCHANGED <<guest, queueVars, advancing, discVars, audioVars>>

GuestWritesDisc ==
  /\ GuestRuns
  /\ \/ \E value \in guest.status : DI!WriteStatus(value)
     \/ \E opcode \in guest.opcodes, o \in guest.offsets : DI!WriteCommand(opcode, o)
     \/ \E a \in guest.addresses, l \in guest.lengths : DI!WriteDmaRange(a, l)
     \/ \E start \in guest.starts : DI!WriteDmaControl(start)
  /\ UNCHANGED <<guest, advancing, audioVars>>

GuestWritesAi ==
  /\ GuestRuns
  /\ \/ Audio!TouchAi
     \/ \E value \in guest.aiControls : Audio!WriteAiControl(value)
     \/ \E value \in guest.counters : Audio!WriteSampleCounter(value)
     \/ \E value \in guest.timings : Audio!WriteInterruptTiming(value)
  /\ UNCHANGED <<guest, advancing, discVars>>

GuestWritesDsp ==
  /\ GuestRuns
  /\ \/ \E value \in guest.dspControls : Audio!WriteDspControl(value)
     \/ \E value \in guest.sources : Audio!WriteDmaSourceHigh(value)
     \/ \E value \in guest.sources : Audio!WriteDmaSourceLow(value)
     \/ \E enable \in guest.enables, blocks \in guest.blocks : Audio!WriteDmaControl(enable, blocks)
  /\ UNCHANGED <<guest, advancing, discVars>>

HostChangesDisc ==
  /\ ~advancing
  /\ \E present \in guest.discs : DI!SetSource(present)
  /\ UNCHANGED <<guest, advancing, audioVars>>

(* The charge at the end of a block: Run calls Advance.                    *)
Advance(cycles) ==
  /\ ~advancing
  /\ ticks + cycles <= guest.tickBound
  /\ ticks' = SaturatingAdd(ticks, cycles)
  /\ advancing' = TRUE
  /\ UNCHANGED <<guest, events, nextId, piVars, discVars, audioVars>>

FireDisc(e) ==
  /\ e.callback = "DI"
  /\ DI!FinishTransfer(e)
  /\ UNCHANGED audioVars

FireAi(e) ==
  /\ e.callback = "AI"
  /\ Audio!AiInterrupt(e)
  /\ UNCHANGED discVars

FireDma(e) ==
  /\ e.callback = "DMA"
  /\ Audio!DmaBlock(e)
  /\ UNCHANGED discVars

Fire ==
  /\ advancing
  /\ \E e \in events : /\ IsReady(events, ticks, e)
                       /\ FireDisc(e) \/ FireAi(e) \/ FireDma(e)
  /\ UNCHANGED <<guest, advancing>>

AdvanceReturn ==
  /\ advancing
  /\ NothingReady(events, ticks)
  /\ advancing' = FALSE
  /\ UNCHANGED <<guest, queueVars, piVars, discVars, audioVars>>

(* LegacyRuntime::Reset.  The scheduler is reset first, so the cancels in  *)
(* AudioSystem::Reset find nothing; no device asserts its interrupt then.  *)
Reset ==
  /\ ~advancing
  /\ events' = Audio!QueueAfterReset({})
  /\ ticks' = 0 /\ nextId' = 1
  /\ PI!Reset
  /\ DI!ResetRegisters
  /\ Audio!ResetRegisters(0)
  /\ UNCHANGED <<guest, advancing>>

Next ==
  \/ GuestWritesPi \/ GuestWritesDisc \/ GuestWritesAi \/ GuestWritesDsp
  \/ HostChangesDisc
  \/ \E cycles \in Charges : Advance(cycles)
  \/ Fire
  \/ AdvanceReturn
  \/ Reset

Spec == Init /\ [][Next]_vars

(* Advance's loop runs to its end, and a running guest charges cycles.     *)
Fairness ==
  /\ WF_vars(Fire)
  /\ WF_vars(AdvanceReturn)
  /\ SF_vars(\E cycles \in Charges : Advance(cycles))

FairSpec == Spec /\ Fairness

-----------------------------------------------------------------------------
(* No device raises an interrupt whose condition does not hold.            *)
NoSpuriousInterrupt == DI!NoSpuriousDiscInterrupt /\ Audio!NoSpuriousAudioInterrupt

(* What the devices remember of the queue is what is in it: each handle    *)
(* names its device's one event, and a busy disc has a completion queued.  *)
HandlesMatchQueue == Audio!HandlesMatchQueue /\ DI!BusyHasCompletion

(* The sample interrupt is due when the lazily updated counter will match. *)
SampleInterruptOnTime == Audio!SampleInterruptOnTime

(* An enabled stream has its next block scheduled, and never plays outside *)
(* the buffer it latched.                                                  *)
DmaStreamIsSound == Audio!EnabledDmaIsScheduled /\ Audio!DmaInsideBuffer

(* One device never takes another's event, neither from a register write   *)
(* nor from a callback inside Advance: a disc completion leaves the queue  *)
(* only by its own delivery, when it is the event Advance has come to and  *)
(* the transfer then shows its outcome, or by a reset of the machine.      *)
Delivered(e) ==
  /\ advancing /\ IsReady(events, ticks, e)
  /\ ~busy' /\ status' \cap {"TCINT", "DEINT"} # {}
MachineReset == events' = {} /\ nextId' = 1
DiscEventsSurvive ==
  [][ \A e \in events : e.callback = "DI" /\ e \notin events' => Delivered(e) \/ MachineReset ]_vars

(* AID means the whole buffer went out: it is raised only by the delivery  *)
(* of a block, and the next buffer starts full from the source register.   *)
AidEndsBuffer ==
  [][ "aid" \notin dspControl /\ "aid" \in dspControl'
        => /\ advancing
           /\ currentSource + 1 >= latched.source + latched.blocks
           /\ currentSource' = dmaSource ]_vars

(* A guest polling the start bit sees it clear.                            *)
TransferEnds == busy ~> ~busy
=============================================================================
