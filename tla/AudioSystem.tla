---------------------------- MODULE AudioSystem -----------------------------
(***************************************************************************)
(* AudioSystem (src/audio/audio_system.cpp).  Two devices share a file:    *)
(*   - the audio interface counts samples while it plays and interrupts    *)
(*     when the count reaches a programmed one.  The count is a cache: it  *)
(*     is brought up to date from the scheduler's time when a register is  *)
(*     touched, and the interrupt is an event scheduled for the time the   *)
(*     count will be right;                                                *)
(*   - the DSP's audio DMA streams a buffer of blocks to the sink, one per *)
(*     event, and interrupts when the last block went out.                 *)
(* Each keeps the id of its pending event in a member variable.            *)
(***************************************************************************)
EXTENDS EventQueue

CONSTANTS
  CyclesPerSample,  \* AiCyclesPerSample
  SampleModulus,    \* 2^32: the sample counter and the timing register wrap
  StartDelay,       \* the 200 cycles from enabling the DMA to its first block
  DmaPeriod,        \* AudioDmaPeriod
  HighUnit          \* 2^16 / 32: the weight of the source's upper half register

VARIABLES
  events, ticks, nextId,      \* the event scheduler
  cause, mask, exception,     \* the processor interface
  aiEvent,        \* m_ai_event, 0 for none
  aiControl,      \* m_ai_control: its play, mask and interrupt bits
  sampleCounter,  \* m_sample_counter
  timing,         \* m_interrupt_timing
  lastAiTick,     \* m_last_ai_tick
  dmaEvent,       \* m_dma_event, 0 for none
  dspControl,     \* m_dsp_control: the AID interrupt and its mask
  dmaSource,      \* m_dma_source, in blocks
  currentSource,  \* m_current_source, in blocks
  dmaControl,     \* m_dma_control: the enable bit and the block count
  remaining,      \* m_remaining_blocks
  latched         \* history: the buffer the DMA took up last

PI == INSTANCE ProcessorInterface

piVars  == <<cause, mask, exception>>
aiVars  == <<aiEvent, aiControl, sampleCounter, timing, lastAiTick>>
dmaVars == <<dmaEvent, dspControl, dmaSource, currentSource, dmaControl, remaining, latched>>

AiBits  == {"play", "mask", "int"}
DspBits == {"aid", "aidmask"}
Samples == 0 .. SampleModulus - 1

TypeOK ==
  /\ aiEvent \in Nat /\ dmaEvent \in Nat
  /\ aiControl \subseteq AiBits
  /\ sampleCounter \in Samples /\ timing \in Samples
  /\ lastAiTick \in Tick
  /\ dspControl \subseteq DspBits
  /\ dmaSource \in Nat /\ currentSource \in Nat
  /\ dmaControl \in [enable : BOOLEAN, blocks : Nat]
  /\ remaining \in Nat
  /\ latched \in [source : Nat, blocks : Nat]

(* What a bug would leave out: the handles outlive the scheduler's reset.  *)
ResetRegistersKeepingHandles(now) ==
  /\ aiControl' = {} /\ sampleCounter' = 0 /\ timing' = 0 /\ lastAiTick' = now
  /\ dspControl' = {} /\ dmaSource' = 0 /\ currentSource' = 0
  /\ dmaControl' = [enable |-> FALSE, blocks |-> 0]
  /\ remaining' = 0
  /\ latched' = [source |-> 0, blocks |-> 0]
  /\ UNCHANGED <<aiEvent, dmaEvent>>

(* AudioSystem::Reset: the registers, and the queue without the events the *)
(* two handles name.                                                       *)
ResetRegisters(now) ==
  /\ aiEvent' = 0 /\ aiControl' = {}
  /\ sampleCounter' = 0 /\ timing' = 0 /\ lastAiTick' = now
  /\ dmaEvent' = 0 /\ dspControl' = {}
  /\ dmaSource' = 0 /\ currentSource' = 0
  /\ dmaControl' = [enable |-> FALSE, blocks |-> 0]
  /\ remaining' = 0
  /\ latched' = [source |-> 0, blocks |-> 0]

QueueAfterReset(queue) == Without(Without(queue, aiEvent), dmaEvent)

AiCondition  == {"mask", "int"} \subseteq aiControl
DspCondition == DspBits \subseteq dspControl
UpdateAiInterrupt  == PI!SetInterrupt("AI", AiCondition')
UpdateDspInterrupt == PI!SetInterrupt("DSP", DspCondition')

-----------------------------------------------------------------------------
(* UpdateAiCounter: whole samples since the last update; the fraction of a *)
(* sample stays in lastAiTick.                                             *)
Elapsed == IF "play" \in aiControl THEN (ticks - lastAiTick) \div CyclesPerSample ELSE 0
CounterNow == (sampleCounter + Elapsed) % SampleModulus
LastTickNow == lastAiTick + Elapsed * CyclesPerSample
UpdateAiCounter == sampleCounter' = CounterNow /\ lastAiTick' = LastTickNow

(* ScheduleAiInterrupt: the old event is cancelled; playing, a new one is  *)
(* due when the counter will have reached the timing register, or after    *)
(* one sample when it already has.                                         *)
SamplesUntil(target, counter) == (target + SampleModulus - counter) % SampleModulus
AiDelay(samples) == IF samples = 0 THEN CyclesPerSample ELSE samples * CyclesPerSample

ScheduleAiInterrupt ==
  IF "play" \in aiControl'
    THEN /\ events' = Without(events, aiEvent) \cup
              {NewEvent(ticks, nextId, AiDelay(SamplesUntil(timing', sampleCounter')), "AI")}
         /\ aiEvent' = nextId
         /\ nextId' = nextId + 1
    ELSE /\ events' = Without(events, aiEvent)
         /\ aiEvent' = 0
         /\ UNCHANGED nextId

(* A read of any register, or a write of the volume.                       *)
TouchAi ==
  /\ UpdateAiCounter
  /\ UNCHANGED <<aiEvent, aiControl, timing, events, ticks, nextId>>
  /\ UNCHANGED dmaVars /\ UNCHANGED piVars

AiControlAfter(value) == (value \cap {"play", "mask"}) \cup ((aiControl \ value) \cap {"int"})

(* The interrupt bit is written one to clear, the reset bit zeroes the     *)
(* counter, and the fraction of a sample is dropped.                       *)
WriteAiControl(value) ==
  /\ aiControl' = AiControlAfter(value)
  /\ sampleCounter' = IF "reset" \in value THEN 0 ELSE CounterNow
  /\ lastAiTick' = ticks
  /\ timing' = timing
  /\ IF "play" \in aiControl \cup value
       THEN ScheduleAiInterrupt
       ELSE UNCHANGED <<events, nextId, aiEvent>>
  /\ UNCHANGED ticks /\ UNCHANGED dmaVars
  /\ UpdateAiInterrupt

WriteSampleCounter(value) ==
  /\ sampleCounter' = value
  /\ lastAiTick' = ticks
  /\ UNCHANGED <<aiControl, timing>>
  /\ ScheduleAiInterrupt
  /\ UNCHANGED ticks /\ UNCHANGED dmaVars /\ UNCHANGED piVars

(* What a bug would leave out: the pending interrupt is not moved.         *)
WriteInterruptTimingOnly(value) ==
  /\ UpdateAiCounter
  /\ timing' = value
  /\ UNCHANGED <<aiControl, aiEvent, events, ticks, nextId>>
  /\ UNCHANGED dmaVars /\ UNCHANGED piVars

WriteInterruptTiming(value) ==
  /\ UpdateAiCounter
  /\ timing' = value
  /\ UNCHANGED aiControl
  /\ ScheduleAiInterrupt
  /\ UNCHANGED ticks /\ UNCHANGED dmaVars /\ UNCHANGED piVars

(* The scheduled callback: it fires once and leaves no event behind.       *)
AiInterrupt(e) ==
  /\ events' = events \ {e}
  /\ UpdateAiCounter
  /\ aiControl' = aiControl \cup {"int"}
  /\ aiEvent' = 0
  /\ UNCHANGED <<timing, ticks, nextId>> /\ UNCHANGED dmaVars
  /\ UpdateAiInterrupt

-----------------------------------------------------------------------------
(* ScheduleDmaBlock, on the queue the handler has left.                    *)
ScheduleDmaBlock(queue, handle, delay) ==
  /\ events' = Without(queue, handle) \cup {NewEvent(ticks, nextId, delay, "DMA")}
  /\ dmaEvent' = nextId
  /\ nextId' = nextId + 1

(* The AID bit is written one to clear, every other bit is assigned.       *)
WriteDspControl(value) ==
  /\ dspControl' = ((dspControl \ value) \cap {"aid"}) \cup (value \ {"aid"})
  /\ UNCHANGED <<dmaEvent, dmaSource, currentSource, dmaControl, remaining, latched>>
  /\ UNCHANGED <<events, ticks, nextId>> /\ UNCHANGED aiVars
  /\ UpdateDspInterrupt

(* The source is two registers; its halves change one at a time.           *)
WriteDmaSource(block) ==
  /\ dmaSource' = block
  /\ UNCHANGED <<dmaEvent, dspControl, currentSource, dmaControl, remaining, latched>>
  /\ UNCHANGED <<events, ticks, nextId>> /\ UNCHANGED aiVars /\ UNCHANGED piVars

WriteDmaSourceHigh(value) == WriteDmaSource((dmaSource % HighUnit) + value * HighUnit)
WriteDmaSourceLow(value)  == WriteDmaSource((dmaSource - (dmaSource % HighUnit)) + value)

(* A plausible shortcut: an event still pending will pick the stream up.   *)
WriteDmaControlReusingEvent(enable, blocks) ==
  /\ dmaControl' = [enable |-> enable, blocks |-> blocks]
  /\ IF enable /\ ~dmaControl.enable
       THEN /\ currentSource' = dmaSource
            /\ remaining' = blocks
            /\ latched' = [source |-> dmaSource, blocks |-> blocks]
            /\ IF remaining = 0 THEN ScheduleDmaBlock(events, dmaEvent, StartDelay)
                                ELSE UNCHANGED <<events, dmaEvent, nextId>>
       ELSE UNCHANGED <<currentSource, remaining, latched, events, dmaEvent, nextId>>
  /\ UNCHANGED <<dspControl, dmaSource, ticks>> /\ UNCHANGED aiVars /\ UNCHANGED piVars

(* Only a rising enable bit latches the buffer; disabling leaves the       *)
(* pending event to find the DMA off.                                      *)
WriteDmaControl(enable, blocks) ==
  /\ dmaControl' = [enable |-> enable, blocks |-> blocks]
  /\ IF enable /\ ~dmaControl.enable
       THEN /\ currentSource' = dmaSource
            /\ remaining' = blocks
            /\ latched' = [source |-> dmaSource, blocks |-> blocks]
            /\ ScheduleDmaBlock(events, dmaEvent, StartDelay)
       ELSE UNCHANGED <<currentSource, remaining, latched, events, dmaEvent, nextId>>
  /\ UNCHANGED <<dspControl, dmaSource, ticks>> /\ UNCHANGED aiVars /\ UNCHANGED piVars

(* Off-by-one: the buffer is reloaded a block early.                       *)
LastBlockEarly == remaining <= 2

(* The block that empties the buffer, or any block of an empty one.        *)
LastBlock == remaining <= 1

(* TransferDmaBlock with the DMA enabled: one block to the sink; after the *)
(* last one the registers are latched again and AID is raised.             *)
TransferDmaBlock(e) ==
  /\ IF LastBlock
       THEN /\ currentSource' = dmaSource
            /\ remaining' = dmaControl.blocks
            /\ latched' = [source |-> dmaSource, blocks |-> dmaControl.blocks]
            /\ dspControl' = dspControl \cup {"aid"}
            /\ UpdateDspInterrupt
       ELSE /\ currentSource' = currentSource + 1
            /\ remaining' = remaining - 1
            /\ UNCHANGED <<latched, dspControl>> /\ UNCHANGED piVars
  /\ ScheduleDmaBlock(events \ {e}, 0, DmaPeriod)

(* The scheduled callback; a disabled DMA ends its stream here.            *)
DmaBlock(e) ==
  /\ IF dmaControl.enable
       THEN TransferDmaBlock(e)
       ELSE /\ events' = events \ {e}
            /\ dmaEvent' = 0
            /\ UNCHANGED <<currentSource, remaining, latched, dspControl, nextId>>
            /\ UNCHANGED piVars
  /\ UNCHANGED <<dmaSource, dmaControl, ticks>> /\ UNCHANGED aiVars

-----------------------------------------------------------------------------
NoSpuriousAudioInterrupt ==
  /\ "AI" \in cause => AiCondition
  /\ "DSP" \in cause => DspCondition

(* A handle names the one event of its device in the queue; a device with  *)
(* no handle has no event.  A stale handle would cancel a stranger's event.*)
HandlesMatchQueue ==
  /\ \A e \in events : e.callback = "AI" <=> e.id = aiEvent
  /\ \A e \in events : e.callback = "DMA" <=> e.id = dmaEvent
  /\ aiEvent # 0 => \E e \in events : e.id = aiEvent
  /\ dmaEvent # 0 => \E e \in events : e.id = dmaEvent

(* The sample interrupt is not lost: a playing interface has it pending or *)
(* has it scheduled, for the very time at which the counter will read the  *)
(* timing register (or one sample more, if it reads it now).               *)
CounterAt(time) == (sampleCounter + (time - lastAiTick) \div CyclesPerSample) % SampleModulus
SampleInterruptOnTime ==
  "play" \in aiControl =>
    \/ aiEvent = 0 /\ "int" \in aiControl
    \/ \E e \in events : /\ e.id = aiEvent
                         /\ CounterAt(e.due) \in {timing, (timing + 1) % SampleModulus}

(* The stream does not stall: while the DMA is enabled its next block is   *)
(* scheduled, however it was switched off and on.                          *)
EnabledDmaIsScheduled == dmaControl.enable => dmaEvent # 0

(* The stream stays inside the buffer it latched and passes over it block  *)
(* by block, whatever the guest writes to the registers meanwhile.         *)
DmaInsideBuffer ==
  /\ remaining <= latched.blocks
  /\ currentSource = latched.source + (latched.blocks - remaining)
  /\ latched.blocks > 0 => remaining > 0
=============================================================================
