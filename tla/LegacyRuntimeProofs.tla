------------------------ MODULE LegacyRuntimeProofs -------------------------
(* The devices on their shared queue, for every width and every guest: no   *)
(* device takes another's event, none is forgotten, and no interrupt is     *)
(* raised that its device does not have.                                    *)
EXTENDS LegacyRuntime, Integers, TLAPS

(* Identifiers are given out once, and a handle is 0 or was given out.      *)
IdentifiersAreOnce ==
  /\ nextId \in Nat \ {0}
  /\ \A e \in events : e.id \in Nat \ {0} /\ e.id < nextId
  /\ \A e, f \in events : e.id = f.id => e = f
  /\ aiEvent \in Nat /\ aiEvent < nextId
  /\ dmaEvent \in Nat /\ dmaEvent < nextId

QueueInv == IdentifiersAreOnce /\ HandlesMatchQueue

-----------------------------------------------------------------------------
(* What is queued and what is taken away, whatever the registers are.       *)
LEMMA NewEventIs ==
  ASSUME NEW now, NEW id, NEW cycles, NEW callback
  PROVE  /\ NewEvent(now, id, cycles, callback).id = id
         /\ NewEvent(now, id, cycles, callback).callback = callback
BY DEF NewEvent

LEMMA InitQueue == Init => QueueInv
BY DEF Init, QueueInv, IdentifiersAreOnce, HandlesMatchQueue, Audio!HandlesMatchQueue,
       DI!BusyHasCompletion

LEMMA DiscStarts ==
  ASSUME QueueInv, NEW start, DI!WriteDmaControl(start), UNCHANGED audioVars
  PROVE  QueueInv'
<1> USE DEF QueueInv, IdentifiersAreOnce, HandlesMatchQueue, Audio!HandlesMatchQueue,
            DI!BusyHasCompletion, audioVars, aiVars, dmaVars
<1> DEFINE new == NewEvent(ticks, nextId, 1, "DI")
<1>1. new.id = nextId /\ new.callback = "DI"
  BY NewEventIs
<1>2. CASE start
  <2>1. events' = events \cup {new} /\ nextId' = nextId + 1 /\ busy'
    BY <1>2 DEF DI!WriteDmaControl, DI!NewEvent, new, NewEvent, DI!SaturatingAdd, SaturatingAdd
  <2>2. UNCHANGED <<aiEvent, dmaEvent>>
    OBVIOUS
  <2> HIDE DEF new
  <2>3. QED
    BY <1>1, <2>1, <2>2
<1>3. CASE ~start
  BY <1>3 DEF DI!WriteDmaControl
<1>4. QED
  BY <1>2, <1>3

LEMMA DiscFinishes ==
  ASSUME QueueInv, NEW e \in events, FireDisc(e)
  PROVE  QueueInv'
<1>1. events' = events \ {e} /\ e.callback = "DI" /\ ~busy' /\ UNCHANGED <<nextId, aiEvent, dmaEvent>>
  BY DEF FireDisc, DI!FinishTransfer, audioVars, aiVars, dmaVars
<1>2. QED
  BY <1>1 DEF QueueInv, IdentifiersAreOnce, HandlesMatchQueue, Audio!HandlesMatchQueue,
              DI!BusyHasCompletion

(* A device cancels its own event and schedules the next, or leaves none.   *)
LEMMA SampleReschedules ==
  ASSUME QueueInv, Audio!ScheduleAiInterrupt, UNCHANGED <<busy, dmaEvent>>
  PROVE  QueueInv'
<1> USE DEF QueueInv, IdentifiersAreOnce, HandlesMatchQueue, Audio!HandlesMatchQueue,
            DI!BusyHasCompletion, Audio!Without
<1>1. CASE "play" \in aiControl'
  <2> DEFINE new == Audio!NewEvent(ticks, nextId,
                      Audio!AiDelay(Audio!SamplesUntil(timing', sampleCounter')), "AI")
  <2>1. new.id = nextId /\ new.callback = "AI"
    BY DEF Audio!NewEvent
  <2>2. /\ events' = Audio!Without(events, aiEvent) \cup {new}
        /\ aiEvent' = nextId /\ nextId' = nextId + 1
    BY <1>1 DEF Audio!ScheduleAiInterrupt
  <2> HIDE DEF new
  <2>3. QED
    BY <2>1, <2>2
<1>2. CASE "play" \notin aiControl'
  BY <1>2 DEF Audio!ScheduleAiInterrupt
<1>3. QED
  BY <1>1, <1>2

LEMMA SampleInterrupts ==
  ASSUME QueueInv, NEW e \in events, FireAi(e)
  PROVE  QueueInv'
<1>1. /\ events' = events \ {e} /\ e.callback = "AI" /\ aiEvent' = 0
      /\ UNCHANGED <<nextId, busy, dmaEvent>>
  BY DEF FireAi, Audio!AiInterrupt, discVars, Audio!dmaVars
<1>2. QED
  BY <1>1 DEF QueueInv, IdentifiersAreOnce, HandlesMatchQueue, Audio!HandlesMatchQueue,
              DI!BusyHasCompletion

LEMMA StreamReschedules ==
  ASSUME QueueInv, NEW queue \in SUBSET events, NEW handle, NEW delay,
         Audio!ScheduleDmaBlock(queue, handle, delay),
         Audio!Without(queue, handle) = Audio!Without(events, dmaEvent),
         UNCHANGED <<busy, aiEvent>>
  PROVE  QueueInv'
<1> DEFINE new == Audio!NewEvent(ticks, nextId, delay, "DMA")
<1>1. new.id = nextId /\ new.callback = "DMA"
  BY DEF Audio!NewEvent
<1>2. /\ events' = Audio!Without(events, dmaEvent) \cup {new}
      /\ dmaEvent' = nextId /\ nextId' = nextId + 1
  BY DEF Audio!ScheduleDmaBlock
<1> HIDE DEF new
<1>3. QED
  BY <1>1, <1>2 DEF QueueInv, IdentifiersAreOnce, HandlesMatchQueue, Audio!HandlesMatchQueue,
              DI!BusyHasCompletion, Audio!Without

LEMMA StreamFires ==
  ASSUME QueueInv, NEW e \in events, FireDma(e)
  PROVE  QueueInv'
<1> USE DEF QueueInv, IdentifiersAreOnce, HandlesMatchQueue, Audio!HandlesMatchQueue
<1>1. e.callback = "DMA" /\ e.id = dmaEvent /\ UNCHANGED <<busy, aiEvent>>
  BY DEF FireDma, Audio!DmaBlock, discVars, Audio!aiVars
<1>2. CASE dmaControl.enable
  <2>1. Audio!ScheduleDmaBlock(events \ {e}, 0, DmaPeriod)
    BY <1>2 DEF FireDma, Audio!DmaBlock, Audio!TransferDmaBlock
  <2>2. Audio!Without(events \ {e}, 0) = Audio!Without(events, dmaEvent)
    BY <1>1 DEF Audio!Without
  <2>3. QED
    BY <1>1, <2>1, <2>2, StreamReschedules
<1>3. CASE ~dmaControl.enable
  <2>1. events' = events \ {e} /\ dmaEvent' = 0 /\ UNCHANGED nextId
    BY <1>3 DEF FireDma, Audio!DmaBlock
  <2>2. QED
    BY <1>1, <2>1 DEF DI!BusyHasCompletion
<1>4. QED
  BY <1>2, <1>3

LEMMA QueueKept ==
  ASSUME QueueInv, UNCHANGED <<events, nextId, aiEvent, dmaEvent, busy>>
  PROVE  QueueInv'
BY DEF QueueInv, IdentifiersAreOnce, HandlesMatchQueue, Audio!HandlesMatchQueue,
       DI!BusyHasCompletion

LEMMA QueueKeeps ==
  ASSUME QueueInv, [Next]_vars
  PROVE  QueueInv'
<1> USE DEF queueVars, piVars, discVars, audioVars, aiVars, dmaVars
<1>1. CASE GuestWritesDisc
  BY <1>1, DiscStarts, QueueKept
     DEF GuestWritesDisc, DI!WriteStatus, DI!WriteCommand, DI!WriteDmaRange
<1>2. CASE GuestWritesAi
  <2>1. CASE Audio!TouchAi
    BY <1>2, <2>1, QueueKept DEF GuestWritesAi, Audio!TouchAi, Audio!dmaVars
  <2>2. CASE \E value \in guest.aiControls : Audio!WriteAiControl(value)
    BY <1>2, <2>2, QueueKept, SampleReschedules
       DEF GuestWritesAi, Audio!WriteAiControl, Audio!dmaVars
  <2>3. CASE \E value \in guest.counters : Audio!WriteSampleCounter(value)
    BY <1>2, <2>3, SampleReschedules DEF GuestWritesAi, Audio!WriteSampleCounter, Audio!dmaVars
  <2>4. CASE \E value \in guest.timings : Audio!WriteInterruptTiming(value)
    BY <1>2, <2>4, SampleReschedules
       DEF GuestWritesAi, Audio!WriteInterruptTiming, Audio!dmaVars
  <2>5. QED
    BY <1>2, <2>1, <2>2, <2>3, <2>4 DEF GuestWritesAi
<1>3. CASE GuestWritesDsp
  <2>1. CASE \E enable \in guest.enables, blocks \in guest.blocks :
               Audio!WriteDmaControl(enable, blocks)
    BY <1>3, <2>1, QueueKept, StreamReschedules
       DEF GuestWritesDsp, Audio!WriteDmaControl, Audio!aiVars
  <2>2. CASE \/ \E value \in guest.dspControls : Audio!WriteDspControl(value)
             \/ \E value \in guest.sources : Audio!WriteDmaSourceHigh(value)
             \/ \E value \in guest.sources : Audio!WriteDmaSourceLow(value)
    BY <1>3, <2>2, QueueKept
       DEF GuestWritesDsp, Audio!WriteDspControl, Audio!WriteDmaSourceHigh,
           Audio!WriteDmaSourceLow, Audio!WriteDmaSource, Audio!aiVars
  <2>3. QED
    BY <1>3, <2>1, <2>2 DEF GuestWritesDsp
<1>4. CASE Fire
  BY <1>4, DiscFinishes, SampleInterrupts, StreamFires DEF Fire
<1>5. CASE Reset
  <2>1. /\ events' = {} /\ nextId' = 1
        /\ aiEvent' = 0 /\ dmaEvent' = 0 /\ ~busy'
    BY <1>5 DEF Reset, Audio!QueueAfterReset, Audio!Without, DI!ResetRegisters,
                Audio!ResetRegisters
  <2>2. QED
    BY <2>1 DEF QueueInv, IdentifiersAreOnce, HandlesMatchQueue, Audio!HandlesMatchQueue,
                DI!BusyHasCompletion
<1>6. CASE \/ GuestWritesPi \/ HostChangesDisc \/ AdvanceReturn
           \/ (\E cycles \in Charges : Advance(cycles)) \/ UNCHANGED vars
  BY <1>6, QueueKept DEF GuestWritesPi, HostChangesDisc, DI!SetSource, AdvanceReturn, Advance,
                         vars
<1>7. QED
  BY <1>1, <1>2, <1>3, <1>4, <1>5, <1>6 DEF Next

(* What the devices remember of the shared queue is what is in it: a device *)
(* never cancels another's event and loses none of its own.                 *)
THEOREM HandlesAreTheirOwn == Spec => []HandlesMatchQueue
<1>1. QueueInv => HandlesMatchQueue
  BY DEF QueueInv
<1>2. QED
  BY <1>1, InitQueue, QueueKeeps, PTL DEF Spec

(* A completion of the disc leaves the queue only by its own delivery or by *)
(* a reset of the machine, whatever the audio system cancels, in a register *)
(* write or in a callback of its own.                                       *)
THEOREM DiscEventsAreDelivered == Spec => DiscEventsSurvive
<1>1. QueueInv /\ [Next]_vars =>
        [\A e \in events : e.callback = "DI" /\ e \notin events' => Delivered(e) \/ MachineReset]_vars
  <2> SUFFICES ASSUME QueueInv, [Next]_vars, ~MachineReset,
                      NEW e \in events, e.callback = "DI", e \notin events'
               PROVE  Delivered(e)
    OBVIOUS
  <2>1. e.id # aiEvent /\ e.id # dmaEvent /\ e.id # 0
    BY DEF QueueInv, IdentifiersAreOnce, HandlesMatchQueue, Audio!HandlesMatchQueue
  <2>2. ~Reset
    BY DEF Reset, MachineReset, Audio!QueueAfterReset, Audio!Without
  <2>3. ~GuestWritesDisc
    BY DEF GuestWritesDisc, DI!WriteStatus, DI!WriteCommand, DI!WriteDmaRange,
           DI!WriteDmaControl
  <2>4. ~GuestWritesAi
    BY <2>1 DEF GuestWritesAi, Audio!TouchAi, Audio!WriteAiControl,
                Audio!WriteSampleCounter, Audio!WriteInterruptTiming,
                Audio!ScheduleAiInterrupt, Audio!Without
  <2>5. ~GuestWritesDsp
    BY <2>1 DEF GuestWritesDsp, Audio!WriteDspControl, Audio!WriteDmaSourceHigh,
                Audio!WriteDmaSourceLow, Audio!WriteDmaSource, Audio!WriteDmaControl,
                Audio!ScheduleDmaBlock, Audio!Without
  <2>6. /\ ~GuestWritesPi /\ ~HostChangesDisc /\ ~AdvanceReturn
        /\ ~(\E cycles \in Charges : Advance(cycles)) /\ ~UNCHANGED vars
    BY DEF GuestWritesPi, HostChangesDisc, DI!SetSource, AdvanceReturn, Advance, vars, queueVars
  <2>7. CASE Fire
    <3>1. PICK f \in events : /\ IsReady(events, ticks, f)
                              /\ FireDisc(f) \/ FireAi(f) \/ FireDma(f)
      BY <2>7 DEF Fire
    <3>2. CASE FireDisc(f)
      <4>1. e = f
        BY <3>2 DEF FireDisc, DI!FinishTransfer
      <4>2. ~busy' /\ status' \cap {"TCINT", "DEINT"} # {}
        BY <3>2 DEF FireDisc, DI!FinishTransfer
      <4>3. QED
        BY <2>7, <3>1, <4>1, <4>2 DEF Fire, Delivered
    <3>3. CASE FireAi(f)
      BY <3>3 DEF FireAi, Audio!AiInterrupt
    <3>4. CASE FireDma(f)
      BY <2>1, <3>4 DEF FireDma, Audio!DmaBlock, Audio!TransferDmaBlock,
                        Audio!ScheduleDmaBlock, Audio!Without
    <3>5. QED
      BY <3>1, <3>2, <3>3, <3>4
  <2>8. QED
    BY <2>2, <2>3, <2>4, <2>5, <2>6, <2>7 DEF Next
<1>2. QED
  BY <1>1, InitQueue, QueueKeeps, PTL DEF Spec, DiscEventsSurvive

-----------------------------------------------------------------------------
(* The interrupt lines *)

LEMMA LinesKeep ==
  ASSUME NoSpuriousInterrupt, [Next]_vars
  PROVE  NoSpuriousInterrupt'
<1> USE DEF NoSpuriousInterrupt, DI!NoSpuriousDiscInterrupt, Audio!NoSpuriousAudioInterrupt,
            DI!InterruptCondition, Audio!AiCondition, Audio!DspCondition, Audio!DspBits,
            piVars, discVars, audioVars, aiVars, dmaVars
<1>1. CASE GuestWritesDisc
  BY <1>1 DEF GuestWritesDisc, DI!WriteStatus, DI!WriteCommand, DI!WriteDmaRange,
              DI!WriteDmaControl, DI!UpdateInterrupt, DI!PI!SetInterrupt, DI!piVars
<1>2. CASE GuestWritesAi
  BY <1>2 DEF GuestWritesAi, Audio!TouchAi, Audio!WriteAiControl, Audio!WriteSampleCounter,
              Audio!WriteInterruptTiming, Audio!UpdateAiInterrupt, Audio!PI!SetInterrupt,
              Audio!piVars, Audio!dmaVars
<1>3. CASE GuestWritesDsp
  BY <1>3 DEF GuestWritesDsp, Audio!WriteDspControl, Audio!WriteDmaSourceHigh,
              Audio!WriteDmaSourceLow, Audio!WriteDmaSource, Audio!WriteDmaControl,
              Audio!UpdateDspInterrupt, Audio!PI!SetInterrupt, Audio!piVars, Audio!aiVars
<1>4. CASE Fire
  <2>1. ASSUME NEW e, FireDisc(e) PROVE NoSpuriousInterrupt'
    BY <2>1 DEF FireDisc, DI!FinishTransfer, DI!UpdateInterrupt, DI!PI!SetInterrupt
  <2>2. ASSUME NEW e, FireAi(e) PROVE NoSpuriousInterrupt'
    BY <2>2 DEF FireAi, Audio!AiInterrupt, Audio!UpdateAiInterrupt, Audio!PI!SetInterrupt,
                Audio!dmaVars
  <2>3. ASSUME NEW e, FireDma(e) PROVE NoSpuriousInterrupt'
    BY <2>3 DEF FireDma, Audio!DmaBlock, Audio!TransferDmaBlock, Audio!UpdateDspInterrupt,
                Audio!PI!SetInterrupt, Audio!piVars, Audio!aiVars
  <2>4. QED
    BY <1>4, <2>1, <2>2, <2>3 DEF Fire
<1>5. CASE Reset
  BY <1>5 DEF Reset, PI!Reset, PI!ResetCause
<1>6. CASE GuestWritesPi
  BY <1>6 DEF GuestWritesPi, PI!WriteCause, PI!WriteMask
<1>7. CASE HostChangesDisc \/ AdvanceReturn \/ (\E cycles \in Charges : Advance(cycles))
           \/ UNCHANGED vars
  BY <1>7 DEF HostChangesDisc, DI!SetSource, DI!piVars, AdvanceReturn, Advance, vars
<1>8. QED
  BY <1>1, <1>2, <1>3, <1>4, <1>5, <1>6, <1>7 DEF Next

(* The controller shows a device's interrupt only while that device has     *)
(* one, whatever the guest writes and however the devices are interleaved.  *)
THEOREM InterruptsAreReal == Spec => []NoSpuriousInterrupt
<1>1. Init => NoSpuriousInterrupt
  BY DEF Init, NoSpuriousInterrupt, DI!NoSpuriousDiscInterrupt,
         Audio!NoSpuriousAudioInterrupt, PI!ResetCause
<1>2. QED
  BY <1>1, LinesKeep, PTL DEF Spec

-----------------------------------------------------------------------------
(* The stream *)

StreamInv ==
  /\ guest \in Guests
  /\ dmaSource \in Nat /\ currentSource \in Nat /\ remaining \in Nat
  /\ latched.source \in Nat /\ latched.blocks \in Nat /\ dmaControl.blocks \in Nat
  /\ DmaStreamIsSound

LEMMA SourceHalves ==
  ASSUME dmaSource \in Nat, NEW value \in Nat
  PROVE  /\ (dmaSource % HighUnit) + value * HighUnit \in Nat
         /\ (dmaSource - (dmaSource % HighUnit)) + value \in Nat
<1>1. HighUnit \in Nat \ {0}
  BY AudioAssumption
<1>2. dmaSource % HighUnit \in 0 .. dmaSource
  BY <1>1
<1>3. value * HighUnit \in Nat
  BY <1>1
<1>4. QED
  BY <1>2, <1>3

LEMMA StreamLatches ==
  ASSUME StreamInv, guest' = guest, nextId \in Nat \ {0},
         NEW blocks \in Nat, dmaControl'.blocks \in Nat,
         dmaSource' = dmaSource, currentSource' = dmaSource, remaining' = blocks,
         latched' = [source |-> dmaSource, blocks |-> blocks], dmaEvent' = nextId
  PROVE  StreamInv'
BY DEF StreamInv, DmaStreamIsSound, Audio!EnabledDmaIsScheduled, Audio!DmaInsideBuffer

LEMMA StreamGoesOn ==
  ASSUME StreamInv, QueueInv, NEW e, FireDma(e), UNCHANGED guest
  PROVE  StreamInv'
<1> USE DEF FireDma, Audio!DmaBlock
<1>1. nextId \in Nat \ {0} /\ UNCHANGED <<dmaSource, dmaControl>>
  BY DEF QueueInv, IdentifiersAreOnce
<1>2. CASE dmaControl.enable /\ Audio!LastBlock
  BY <1>1, <1>2, StreamLatches
     DEF Audio!TransferDmaBlock, Audio!ScheduleDmaBlock, StreamInv
<1>3. CASE dmaControl.enable /\ ~Audio!LastBlock
  <2>1. /\ currentSource' = currentSource + 1 /\ remaining' = remaining - 1
        /\ UNCHANGED latched /\ dmaEvent' = nextId
    BY <1>3 DEF Audio!TransferDmaBlock, Audio!ScheduleDmaBlock
  <2>2. QED
    BY <1>1, <1>3, <2>1 DEF StreamInv, DmaStreamIsSound, Audio!EnabledDmaIsScheduled,
                            Audio!DmaInsideBuffer, Audio!LastBlock
<1>4. CASE ~dmaControl.enable
  BY <1>1, <1>4 DEF StreamInv, DmaStreamIsSound, Audio!EnabledDmaIsScheduled,
                    Audio!DmaInsideBuffer
<1>5. QED
  BY <1>2, <1>3, <1>4

LEMMA StreamKept ==
  ASSUME StreamInv, UNCHANGED <<guest, dmaVars>>
  PROVE  StreamInv'
BY DEF StreamInv, DmaStreamIsSound, Audio!EnabledDmaIsScheduled, Audio!DmaInsideBuffer, dmaVars

LEMMA StreamKeeps ==
  ASSUME StreamInv, QueueInv, [Next]_vars
  PROVE  StreamInv'
<1> USE DEF queueVars, audioVars
<1>1. CASE GuestWritesDsp
  <2> USE DEF GuestWritesDsp
  <2>1. CASE \E value \in guest.dspControls : Audio!WriteDspControl(value)
    BY <1>1, <2>1 DEF Audio!WriteDspControl, StreamInv, DmaStreamIsSound,
                      Audio!EnabledDmaIsScheduled, Audio!DmaInsideBuffer
  <2>2. CASE \/ \E value \in guest.sources : Audio!WriteDmaSourceHigh(value)
             \/ \E value \in guest.sources : Audio!WriteDmaSourceLow(value)
    <3>1. /\ dmaSource' \in Nat
          /\ UNCHANGED <<dmaEvent, currentSource, remaining, latched, dmaControl>>
      BY <2>2, SourceHalves, BuffersAssumption
         DEF Audio!WriteDmaSourceHigh, Audio!WriteDmaSourceLow, Audio!WriteDmaSource, StreamInv
    <3>2. QED
      BY <1>1, <3>1 DEF StreamInv, DmaStreamIsSound, Audio!EnabledDmaIsScheduled,
                        Audio!DmaInsideBuffer
  <2>3. CASE \E enable \in guest.enables, blocks \in guest.blocks :
               Audio!WriteDmaControl(enable, blocks)
    <3>1. PICK enable \in guest.enables, blocks \in guest.blocks :
                 Audio!WriteDmaControl(enable, blocks)
      BY <2>3
    <3>2. /\ blocks \in Nat /\ dmaControl' = [enable |-> enable, blocks |-> blocks]
          /\ UNCHANGED <<guest, dmaSource>>
      BY <1>1, <3>1, BuffersAssumption DEF Audio!WriteDmaControl, StreamInv
    <3>3. CASE enable /\ ~dmaControl.enable
      BY <3>1, <3>2, <3>3, StreamLatches
         DEF Audio!WriteDmaControl, Audio!ScheduleDmaBlock, QueueInv, IdentifiersAreOnce
    <3>4. CASE ~(enable /\ ~dmaControl.enable)
      BY <3>1, <3>2, <3>4 DEF Audio!WriteDmaControl, StreamInv, DmaStreamIsSound,
                              Audio!EnabledDmaIsScheduled, Audio!DmaInsideBuffer
    <3>5. QED
      BY <3>3, <3>4
  <2>4. QED
    BY <1>1, <2>1, <2>2, <2>3
<1>2. CASE GuestWritesAi
  BY <1>2, StreamKept DEF GuestWritesAi, Audio!TouchAi, Audio!WriteAiControl,
       Audio!WriteSampleCounter, Audio!WriteInterruptTiming, Audio!dmaVars, dmaVars
<1>3. CASE Fire
  <2>1. ASSUME NEW e, FireDisc(e) \/ FireAi(e) PROVE UNCHANGED dmaVars
    BY <2>1 DEF FireDisc, FireAi, Audio!AiInterrupt, Audio!dmaVars, dmaVars
  <2>2. QED
    BY <1>3, <2>1, StreamGoesOn, StreamKept DEF Fire
<1>4. CASE Reset
  BY <1>4 DEF Reset, Audio!ResetRegisters, StreamInv, DmaStreamIsSound,
              Audio!EnabledDmaIsScheduled, Audio!DmaInsideBuffer
<1>5. CASE \/ GuestWritesPi \/ GuestWritesDisc \/ HostChangesDisc \/ AdvanceReturn
           \/ (\E cycles \in Charges : Advance(cycles)) \/ UNCHANGED vars
  BY <1>5, StreamKept DEF GuestWritesPi, GuestWritesDisc, HostChangesDisc, AdvanceReturn,
                          Advance, vars
<1>6. QED
  BY <1>1, <1>2, <1>3, <1>4, <1>5 DEF Next

(* An enabled stream always has its next block scheduled and stays inside   *)
(* the buffer it latched, whatever the guest writes while it plays.         *)
THEOREM StreamsStayInTheirBuffer == Spec => []DmaStreamIsSound
<1>1. Init => StreamInv
  BY DEF Init, StreamInv, DmaStreamIsSound, Audio!EnabledDmaIsScheduled,
         Audio!DmaInsideBuffer
<1>2. StreamInv => DmaStreamIsSound
  BY DEF StreamInv
<1>3. QED
  BY <1>1, <1>2, InitQueue, QueueKeeps, StreamKeeps, PTL DEF Spec

(* AID is raised only by the block that ends the buffer that was latched,   *)
(* and the next buffer starts full, whatever the guest rewrites meanwhile.  *)
THEOREM AidComesLast == Spec => AidEndsBuffer
<1> DEFINE Ended == /\ advancing
                    /\ currentSource + 1 >= latched.source + latched.blocks
                    /\ currentSource' = dmaSource
<1>1. StreamInv /\ [Next]_vars =>
        ["aid" \notin dspControl /\ "aid" \in dspControl' => Ended]_vars
  <2> SUFFICES ASSUME StreamInv, [Next]_vars, "aid" \notin dspControl, "aid" \in dspControl'
               PROVE  Ended
    OBVIOUS
  <2> USE DEF queueVars, audioVars, dmaVars
  <2>1. CASE Fire
    <3>1. PICK e \in events : FireDisc(e) \/ FireAi(e) \/ FireDma(e)
      BY <2>1 DEF Fire
    <3>2. FireDma(e) /\ advancing
      BY <2>1, <3>1 DEF Fire, FireDisc, FireAi, Audio!AiInterrupt, Audio!dmaVars
    <3>3. Audio!LastBlock /\ currentSource' = dmaSource
      BY <3>2 DEF FireDma, Audio!DmaBlock, Audio!TransferDmaBlock
    <3>4. remaining <= 1 /\ dmaControl.enable
      BY <3>2, <3>3 DEF Audio!LastBlock, FireDma, Audio!DmaBlock
    <3>5. QED
      BY <3>2, <3>3, <3>4 DEF StreamInv, DmaStreamIsSound, Audio!DmaInsideBuffer
  <2>2. CASE GuestWritesDsp
    BY <2>2 DEF GuestWritesDsp, Audio!WriteDspControl, Audio!WriteDmaSourceHigh,
                Audio!WriteDmaSourceLow, Audio!WriteDmaSource, Audio!WriteDmaControl
  <2>3. CASE GuestWritesAi
    BY <2>3 DEF GuestWritesAi, Audio!TouchAi, Audio!WriteAiControl,
                Audio!WriteSampleCounter, Audio!WriteInterruptTiming, Audio!dmaVars
  <2>4. CASE Reset
    BY <2>4 DEF Reset, Audio!ResetRegisters
  <2>5. CASE \/ GuestWritesPi \/ GuestWritesDisc \/ HostChangesDisc \/ AdvanceReturn
             \/ (\E cycles \in Charges : Advance(cycles)) \/ UNCHANGED vars
    BY <2>5 DEF GuestWritesPi, GuestWritesDisc, HostChangesDisc, AdvanceReturn, Advance, vars
  <2>6. QED
    BY <2>1, <2>2, <2>3, <2>4, <2>5 DEF Next
<1>2. Init => StreamInv
  BY DEF Init, StreamInv, DmaStreamIsSound, Audio!EnabledDmaIsScheduled,
         Audio!DmaInsideBuffer
<1>3. QED
  BY <1>1, <1>2, InitQueue, QueueKeeps, StreamKeeps, PTL DEF Spec, AidEndsBuffer
-----------------------------------------------------------------------------
(* The sample counter: what it will read is found by division and modulus.  *)

LEMMA QuotientIs ==
  ASSUME NEW c \in Nat \ {0}, NEW q \in Int, NEW r \in 0 .. c - 1
  PROVE  (q * c + r) \div c = q /\ (q * c + r) % c = r
OBVIOUS

LEMMA QuotientMoves ==
  ASSUME NEW c \in Nat \ {0}, NEW x \in Int, NEW q \in Int
  PROVE  (x - q * c) \div c = (x \div c) - q
OBVIOUS

LEMMA WithinATurn ==
  ASSUME NEW m \in Nat \ {0}, NEW x \in 0 .. m - 1
  PROVE  x % m = x /\ (x + m) % m = x
OBVIOUS

(* A whole turn of the counter more or less makes no difference.            *)
LEMMA TurnsVanish ==
  ASSUME NEW m \in Nat \ {0}, NEW x \in Int, NEW y \in Int
  PROVE  ((x % m) + y) % m = (x + y) % m
<1> DEFINE q == x \div m
           z == (x % m) + y
<1>1. q \in Int /\ z \in Int /\ x + y = q * m + z
  OBVIOUS
<1>2. z \div m \in Int /\ z % m \in 0 .. m - 1 /\ z = (z \div m) * m + (z % m)
  BY <1>1
<1> HIDE DEF q, z
<1>3. x + y = (q + (z \div m)) * m + (z % m)
  BY <1>1, <1>2
<1>4. (x + y) % m = z % m
  <2>1. q + (z \div m) \in Int
    BY <1>1, <1>2
  <2>2. QED
    BY <1>2, <1>3, <2>1, QuotientIs
<1>5. QED
  BY <1>4 DEF z

(* Bringing the counter up to date changes nothing of what it will read.    *)
LEMMA UpdateKeepsReading ==
  ASSUME NEW counter \in Int, NEW last \in Int, NEW elapsed \in Int, NEW time \in Int
  PROVE  (((counter + elapsed) % SampleModulus)
            + ((time - (last + elapsed * CyclesPerSample)) \div CyclesPerSample)) % SampleModulus
         = (counter + ((time - last) \div CyclesPerSample)) % SampleModulus
<1> DEFINE c == CyclesPerSample
           q == (time - last) \div c
<1>1. c \in Nat \ {0} /\ SampleModulus \in Nat \ {0} /\ q \in Int /\ elapsed * c \in Int
  BY AudioAssumption
<1>2. (time - (last + elapsed * c)) \div c = q - elapsed
  <2>1. time - (last + elapsed * c) = (time - last) - elapsed * c /\ time - last \in Int
    BY <1>1
  <2>2. QED
    BY <1>1, <2>1, QuotientMoves
<1> HIDE DEF c, q
<1>3. (((counter + elapsed) % SampleModulus) + (q - elapsed)) % SampleModulus
        = ((counter + elapsed) + (q - elapsed)) % SampleModulus
  <2>1. q - elapsed \in Int /\ counter + elapsed \in Int
    BY <1>1
  <2>2. QED
    BY <1>1, <2>1, TurnsVanish
<1>4. (counter + elapsed) + (q - elapsed) = counter + q
  BY <1>1
<1>5. QED
  BY <1>2, <1>3, <1>4 DEF c, q

(* What is scheduled is due when the counter will read the timing register, *)
(* or after a sample when it reads it already; nothing saturates.           *)
LEMMA ScheduledOnTime ==
  ASSUME NEW now \in Nat, NEW last \in Int, now - last \in 0 .. CyclesPerSample - 1,
         NEW target \in Audio!Samples, NEW counter \in Audio!Samples,
         now + SampleModulus * CyclesPerSample <= TickMax,
         NEW due, due = SaturatingAdd(now, Audio!AiDelay(Audio!SamplesUntil(target, counter)))
  PROVE  /\ due \in Int
         /\ (counter + ((due - last) \div CyclesPerSample)) % SampleModulus
              \in {target, (target + 1) % SampleModulus}
<1> DEFINE c == CyclesPerSample
           m == SampleModulus
           samples == Audio!SamplesUntil(target, counter)
           step == IF samples = 0 THEN 1 ELSE samples
           r == now - last
<1>1. c \in Nat \ {0} /\ m \in Nat \ {0} /\ TickMax \in Nat
  BY AudioAssumption, TickMaxAssumption
<1>2. target \in 0 .. m - 1 /\ counter \in 0 .. m - 1
  BY DEF Audio!Samples
<1>3. samples = IF target >= counter THEN target - counter ELSE target + m - counter
  <2>1. CASE target >= counter
    <3>1. target + m - counter = (target - counter) + m /\ target - counter \in 0 .. m - 1
      BY <1>1, <1>2, <2>1
    <3>2. (target + m - counter) % m = target - counter
      BY <1>1, <3>1, WithinATurn
    <3>3. QED
      BY <2>1, <3>2 DEF Audio!SamplesUntil
  <2>2. CASE ~(target >= counter)
    <3>1. target + m - counter \in 0 .. m - 1
      BY <1>1, <1>2, <2>2
    <3>2. (target + m - counter) % m = target + m - counter
      BY <1>1, <3>1, WithinATurn
    <3>3. QED
      BY <2>2, <3>2 DEF Audio!SamplesUntil
  <2>3. QED
    BY <2>1, <2>2
<1>4. samples \in 0 .. m - 1 /\ step \in 1 .. m
  BY <1>1, <1>2, <1>3
<1>5. Audio!AiDelay(samples) = step * c
  BY <1>1, <1>4 DEF Audio!AiDelay
<1> HIDE DEF c, m, samples, step, r
<1>6. step * c \in Nat /\ step * c <= m * c
  BY <1>1, <1>4
<1>7. due = now + step * c
  BY <1>1, <1>5, <1>6 DEF SaturatingAdd, samples, c, m
<1>8. due - last = step * c + r /\ r \in 0 .. c - 1
  BY <1>1, <1>6, <1>7 DEF r, c
<1>9. (due - last) \div c = step
  <2>1. step \in Int
    BY <1>4
  <2>2. (step * c + r) \div c = step
    BY <1>1, <1>8, <2>1, QuotientIs
  <2>3. QED
    BY <1>8, <2>2
<1>10. (counter + step) % m \in {target, (target + 1) % m}
  <2>1. CASE samples = 0
    <3>1. counter = target /\ step = 1
      BY <1>1, <1>2, <1>3, <2>1 DEF step
    <3>2. QED
      BY <3>1
  <2>2. CASE samples # 0
    <3>1. counter + step = target \/ counter + step = target + m
      BY <1>1, <1>2, <1>3, <2>2 DEF step
    <3>2. QED
      BY <1>1, <1>2, <3>1, WithinATurn
  <2>3. QED
    BY <2>1, <2>2
<1>11. QED
  BY <1>6, <1>7, <1>9, <1>10 DEF c, m

(* The event of a playing interface is due when it should be, as a number.  *)
OnTime ==
  "play" \in aiControl =>
    \/ aiEvent = 0 /\ "int" \in aiControl
    \/ \E e \in events : /\ e.id = aiEvent
                         /\ e.due \in Int
                         /\ Audio!CounterAt(e.due) \in {timing, (timing + 1) % SampleModulus}

SampleTypes ==
  /\ guest \in Guests
  /\ ticks \in Nat /\ ticks <= guest.tickBound
  /\ sampleCounter \in Audio!Samples /\ timing \in Audio!Samples
  /\ lastAiTick \in Int

SampleInv == SampleTypes /\ OnTime

LEMMA InitSamples == Init => SampleInv
BY AudioAssumption, BoundsAssumption
   DEF Init, SampleInv, SampleTypes, OnTime, Audio!Samples, Tick

(* The counter is a sample, and less than one sample of time is left over.  *)
LEMMA CounterIsASample ==
  ASSUME SampleTypes
  PROVE  /\ Audio!Elapsed \in Int
         /\ Audio!CounterNow \in Audio!Samples
         /\ Audio!LastTickNow \in Int
         /\ "play" \in aiControl => ticks - Audio!LastTickNow \in 0 .. CyclesPerSample - 1
<1>1. CyclesPerSample \in Nat \ {0} /\ SampleModulus \in Nat \ {0} /\ ticks - lastAiTick \in Int
  BY AudioAssumption DEF SampleTypes
<1>2. Audio!Elapsed \in Int
  BY <1>1 DEF Audio!Elapsed
<1>3. sampleCounter + Audio!Elapsed \in Int /\ lastAiTick \in Int /\ ticks \in Int
  BY <1>2 DEF SampleTypes, Audio!Samples
<1>4. Audio!CounterNow \in Audio!Samples
  BY <1>1, <1>3 DEF Audio!CounterNow, Audio!Samples
<1>5. Audio!Elapsed * CyclesPerSample \in Int
  BY <1>1, <1>2
<1>6. ASSUME "play" \in aiControl PROVE ticks - Audio!LastTickNow \in 0 .. CyclesPerSample - 1
  <2>1. Audio!Elapsed = (ticks - lastAiTick) \div CyclesPerSample
    BY <1>6 DEF Audio!Elapsed
  <2>2. ticks - lastAiTick = Audio!Elapsed * CyclesPerSample + ((ticks - lastAiTick) % CyclesPerSample)
    BY <1>1, <2>1
  <2>3. ticks - Audio!LastTickNow = (ticks - lastAiTick) % CyclesPerSample
    BY <1>1, <1>3, <1>5, <2>2 DEF Audio!LastTickNow
  <2>4. QED
    BY <1>1, <2>3
<1>7. QED
  BY <1>2, <1>3, <1>4, <1>5, <1>6 DEF Audio!LastTickNow

(* Neither an update of the counter nor another device's event moves it.    *)
LEMMA SamplesKept ==
  ASSUME SampleInv, SampleTypes',
         UNCHANGED <<aiControl, aiEvent, timing>>,
         \/ UNCHANGED <<sampleCounter, lastAiTick>>
         \/ Audio!UpdateAiCounter,
         \A e \in events : e.id = aiEvent => e \in events'
  PROVE  SampleInv'
<1> SUFFICES ASSUME "play" \in aiControl, ~(aiEvent = 0 /\ "int" \in aiControl)
             PROVE  \E e \in events' :
                      /\ e.id = aiEvent
                      /\ e.due \in Int
                      /\ Audio!CounterAt(e.due)' \in {timing, (timing + 1) % SampleModulus}
  BY DEF SampleInv, OnTime
<1>1. PICK e \in events : /\ e.id = aiEvent
                          /\ e.due \in Int
                          /\ Audio!CounterAt(e.due) \in {timing, (timing + 1) % SampleModulus}
  BY DEF SampleInv, OnTime
<1>2. CASE UNCHANGED <<sampleCounter, lastAiTick>>
  BY <1>1, <1>2 DEF Audio!CounterAt
<1>3. CASE Audio!UpdateAiCounter
  <2>1. Audio!Elapsed \in Int /\ sampleCounter \in Int /\ lastAiTick \in Int
    BY CounterIsASample DEF SampleInv, SampleTypes, Audio!Samples
  <2>2. Audio!CounterAt(e.due)' = Audio!CounterAt(e.due)
    BY <1>1, <1>3, <2>1, UpdateKeepsReading
       DEF Audio!CounterAt, Audio!UpdateAiCounter, Audio!CounterNow, Audio!LastTickNow
  <2>3. QED
    BY <1>1, <2>2
<1>4. QED
  BY <1>2, <1>3

(* A register write that reschedules.                                       *)
LEMMA SamplesRescheduled ==
  ASSUME SampleTypes, GuestRuns, Audio!ScheduleAiInterrupt, UNCHANGED <<guest, ticks>>,
         sampleCounter' \in Audio!Samples, timing' \in Audio!Samples, lastAiTick' \in Int,
         "play" \in aiControl' => ticks - lastAiTick' \in 0 .. CyclesPerSample - 1
  PROVE  SampleInv'
<1>1. SampleTypes'
  BY DEF SampleTypes
<1>2. CASE "play" \in aiControl'
  <2> DEFINE due == SaturatingAdd(ticks,
                      Audio!AiDelay(Audio!SamplesUntil(timing', sampleCounter')))
             new == Audio!NewEvent(ticks, nextId,
                      Audio!AiDelay(Audio!SamplesUntil(timing', sampleCounter')), "AI")
  <2>1. new.id = nextId /\ new.due = due
    BY DEF Audio!NewEvent, Audio!SaturatingAdd, SaturatingAdd
  <2>2. new \in events' /\ aiEvent' = nextId
    BY <1>2 DEF Audio!ScheduleAiInterrupt
  <2>3. ticks + SampleModulus * CyclesPerSample <= TickMax
    <3>1. /\ guest.tickBound + SampleModulus * CyclesPerSample <= TickMax
          /\ guest.tickBound \in Nat /\ TickMax \in Nat
      BY SamplesAssumption, BoundsAssumption, TickMaxAssumption DEF SampleTypes, Tick
    <3>2. SampleModulus * CyclesPerSample \in Nat
      BY AudioAssumption
    <3>3. QED
      BY <3>1, <3>2 DEF SampleTypes
  <2>4. /\ due \in Int
        /\ (sampleCounter' + ((due - lastAiTick') \div CyclesPerSample)) % SampleModulus
             \in {timing', (timing' + 1) % SampleModulus}
    <3>1. ticks \in Nat
      BY DEF SampleTypes
    <3> HIDE DEF due
    <3>2. QED
      BY <1>2, <2>3, <3>1, ScheduledOnTime DEF due
  <2> HIDE DEF due, new
  <2>5. QED
    BY <1>1, <2>1, <2>2, <2>4 DEF SampleInv, OnTime, Audio!CounterAt
<1>3. CASE "play" \notin aiControl'
  BY <1>1, <1>3 DEF SampleInv, OnTime
<1>4. QED
  BY <1>2, <1>3

LEMMA SamplesKeep ==
  ASSUME SampleInv, QueueInv, [Next]_vars
  PROVE  SampleInv'
<1> USE DEF queueVars, aiVars, audioVars
<1>1. SampleTypes
  BY DEF SampleInv
<1>2. CASE GuestWritesAi
  <2>1. GuestRuns /\ UNCHANGED <<guest, ticks>>
    BY <1>2 DEF GuestWritesAi, Audio!TouchAi, Audio!WriteAiControl, Audio!WriteSampleCounter,
                Audio!WriteInterruptTiming
  <2>2. ticks \in Int /\ 0 \in Audio!Samples /\ 0 \in 0 .. CyclesPerSample - 1
    BY <1>1, AudioAssumption DEF SampleTypes, Audio!Samples
  <2>3. CASE Audio!TouchAi
    <3>1. SampleTypes'
      BY <1>1, <2>1, <2>3, CounterIsASample DEF SampleTypes, Audio!TouchAi, Audio!UpdateAiCounter
    <3>2. QED
      BY <2>3, <3>1, SamplesKept DEF Audio!TouchAi
  <2>4. ASSUME NEW value \in guest.aiControls, Audio!WriteAiControl(value)
        PROVE  SampleInv'
    <3>1. sampleCounter' \in Audio!Samples /\ lastAiTick' = ticks /\ timing' \in Audio!Samples
      BY <1>1, <2>2, <2>4, CounterIsASample DEF SampleTypes, Audio!WriteAiControl
    <3>2. CASE "play" \in aiControl \cup value
      BY <1>1, <2>1, <2>2, <2>4, <3>1, <3>2, SamplesRescheduled DEF Audio!WriteAiControl
    <3>3. CASE "play" \notin aiControl \cup value
      <4>1. "play" \notin aiControl'
        BY <2>4, <3>3 DEF Audio!WriteAiControl, Audio!AiControlAfter
      <4>2. QED
        BY <1>1, <2>1, <2>2, <3>1, <4>1 DEF SampleInv, SampleTypes, OnTime
    <3>4. QED
      BY <3>2, <3>3
  <2>5. ASSUME NEW value \in guest.counters, Audio!WriteSampleCounter(value)
        PROVE  SampleInv'
    <3>1. value \in Audio!Samples
      BY <1>1, SamplesAssumption DEF SampleTypes, Audio!Samples
    <3>2. sampleCounter' = value /\ lastAiTick' = ticks /\ timing' \in Audio!Samples
      BY <1>1, <2>5 DEF SampleTypes, Audio!WriteSampleCounter
    <3>3. QED
      BY <1>1, <2>1, <2>2, <2>5, <3>1, <3>2, SamplesRescheduled DEF Audio!WriteSampleCounter
  <2>6. ASSUME NEW value \in guest.timings, Audio!WriteInterruptTiming(value)
        PROVE  SampleInv'
    <3>1. value \in Audio!Samples
      BY <1>1, SamplesAssumption DEF SampleTypes, Audio!Samples
    <3>2. /\ timing' = value /\ aiControl' = aiControl
          /\ sampleCounter' = Audio!CounterNow /\ lastAiTick' = Audio!LastTickNow
      BY <2>6 DEF Audio!WriteInterruptTiming, Audio!UpdateAiCounter
    <3>3. QED
      BY <1>1, <2>1, <2>6, <3>1, <3>2, CounterIsASample, SamplesRescheduled
         DEF Audio!WriteInterruptTiming
  <2>7. QED
    BY <1>2, <2>3, <2>4, <2>5, <2>6 DEF GuestWritesAi
<1>3. CASE Fire
  <2>1. ASSUME NEW e \in events, FireAi(e) PROVE SampleInv'
    <3>1. /\ UNCHANGED <<guest, ticks, timing>> /\ Audio!UpdateAiCounter
          /\ aiEvent' = 0 /\ "int" \in aiControl'
      BY <1>3, <2>1 DEF Fire, FireAi, Audio!AiInterrupt
    <3>2. QED
      BY <1>1, <3>1, CounterIsASample DEF SampleInv, SampleTypes, OnTime, Audio!UpdateAiCounter
  <2>2. ASSUME NEW e \in events, FireDisc(e) \/ FireDma(e) PROVE SampleInv'
    <3>1. UNCHANGED <<guest, ticks, aiVars>> /\ e.callback # "AI" /\ events \ {e} \subseteq events'
      <4>1. CASE FireDisc(e)
        BY <1>3, <4>1 DEF Fire, FireDisc, DI!FinishTransfer
      <4>2. CASE FireDma(e)
        <5>1. 0 \notin {f.id : f \in events}
          BY DEF QueueInv, IdentifiersAreOnce
        <5>2. events \ {e} \subseteq events'
          BY <4>2, <5>1 DEF FireDma, Audio!DmaBlock, Audio!TransferDmaBlock,
                            Audio!ScheduleDmaBlock, Audio!Without
        <5>3. QED
          BY <1>3, <4>2, <5>2 DEF Fire, FireDma, Audio!DmaBlock, Audio!aiVars
      <4>3. QED
        BY <2>2, <4>1, <4>2
    <3>2. \A f \in events : f.id = aiEvent => f \in events'
      BY <3>1 DEF QueueInv, HandlesMatchQueue, Audio!HandlesMatchQueue
    <3>3. QED
      BY <1>1, <3>1, <3>2, SamplesKept DEF SampleTypes
  <2>3. QED
    BY <1>3, <2>1, <2>2 DEF Fire
<1>4. CASE GuestWritesDsp
  <2>1. UNCHANGED <<guest, ticks, aiVars>>
    BY <1>4 DEF GuestWritesDsp, Audio!WriteDspControl, Audio!WriteDmaSourceHigh,
                Audio!WriteDmaSourceLow, Audio!WriteDmaSource, Audio!WriteDmaControl,
                Audio!aiVars
  <2>2. Audio!Without(events, dmaEvent) \subseteq events'
    BY <1>4 DEF GuestWritesDsp, Audio!WriteDspControl, Audio!WriteDmaSourceHigh,
                Audio!WriteDmaSourceLow, Audio!WriteDmaSource, Audio!WriteDmaControl,
                Audio!ScheduleDmaBlock, Audio!Without
  <2>3. \A f \in events : f.id = aiEvent => f \in events'
    <3>1. \A f \in events : f.id = aiEvent => f.id # dmaEvent
      BY DEF QueueInv, HandlesMatchQueue, Audio!HandlesMatchQueue
    <3>2. QED
      BY <2>2, <3>1 DEF Audio!Without
  <2>4. QED
    BY <1>1, <2>1, <2>3, SamplesKept DEF SampleTypes
<1>5. CASE GuestWritesDisc
  <2>1. UNCHANGED <<guest, ticks, aiVars>> /\ events \subseteq events'
    BY <1>5 DEF GuestWritesDisc, DI!WriteStatus, DI!WriteCommand, DI!WriteDmaRange,
                DI!WriteDmaControl
  <2>2. QED
    BY <1>1, <2>1, SamplesKept DEF SampleTypes
<1>6. CASE \E cycles \in Charges : Advance(cycles)
  <2>1. PICK cycles \in Charges : Advance(cycles)
    BY <1>6
  <2>2. cycles \in Nat /\ TickMax \in Nat /\ guest.tickBound \in 0 .. TickMax
    BY <1>1, ChargesAssumption, TickMaxAssumption, BoundsAssumption DEF Tick, SampleTypes
  <2>3. ticks' = ticks + cycles /\ UNCHANGED <<guest, events, aiVars>>
    BY <1>1, <2>1, <2>2 DEF Advance, SaturatingAdd, SampleTypes
  <2>4. SampleTypes'
    BY <1>1, <2>1, <2>2, <2>3 DEF SampleTypes, Advance
  <2>5. QED
    BY <2>3, <2>4, SamplesKept
<1>7. CASE Reset
  <2>1. /\ guest' = guest /\ ticks' = 0 /\ aiControl' = {}
        /\ sampleCounter' = 0 /\ timing' = 0 /\ lastAiTick' = 0
    BY <1>7 DEF Reset, Audio!ResetRegisters
  <2>2. guest.tickBound \in Nat /\ 0 \in Audio!Samples
    BY <1>1, AudioAssumption, BoundsAssumption DEF SampleTypes, Tick, Audio!Samples
  <2>3. QED
    BY <1>1, <2>1, <2>2 DEF SampleInv, SampleTypes, OnTime
<1>8. CASE GuestWritesPi \/ HostChangesDisc \/ AdvanceReturn \/ UNCHANGED vars
  <2>1. UNCHANGED <<guest, ticks, events, aiVars>>
    BY <1>8 DEF GuestWritesPi, HostChangesDisc, DI!SetSource, AdvanceReturn, vars
  <2>2. QED
    BY <1>1, <2>1, SamplesKept DEF SampleTypes
<1>9. QED
  BY <1>2, <1>3, <1>4, <1>5, <1>6, <1>7, <1>8 DEF Next

(* A playing interface has its sample interrupt pending, or scheduled for   *)
(* when the lazily updated counter will read the timing register: for every *)
(* sample length and modulus, and whatever else is in the queue.            *)
THEOREM SampleInterruptsAreOnTime == Spec => []SampleInterruptOnTime
<1>1. SampleInv => SampleInterruptOnTime
  BY DEF SampleInv, OnTime, SampleInterruptOnTime, Audio!SampleInterruptOnTime
<1>2. QED
  BY <1>1, InitSamples, InitQueue, QueueKeeps, SamplesKeep, PTL DEF Spec
=============================================================================
