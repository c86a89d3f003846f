---------------------------- MODULE DmaRingProofs ----------------------------
(***************************************************************************)
(* The producer never writes the slot the DMA reads, for rings of any      *)
(* size, slots of any length and packets of any kind.                      *)
(***************************************************************************)
EXTENDS DmaRing, DivisionLemmas, SequenceTheorems, TLAPS

-----------------------------------------------------------------------------
(* The inductive invariant                                                 *)

(* What the counters say of the software's two slots.                      *)
Level ==
  /\ fill_slots \in 0..N-Gap
  /\ pc \in {"copy", "publish"} => fill_slots < N - Gap
  /\ write_slot = Around(read_slot + fill_slots)

(* Where the hardware is against the slot the software counts from.  The   *)
(* last line: a flag that is up before the channel is on was left over.    *)
InStep ==
  sync # "none" =>
    /\ PlaySlot = Around(read_slot + One(inta) - One(sync = "ahead"))
    /\ Unplayed >= 0
    /\ (enabled \/ busy) /\ hwLeft > 0 => Unplayed >= 1
    /\ sync = "even" /\ ~enabled /\ pc # "stopping" => ~inta

Finishing == busy => pc = "stopping"

IInv ==
  /\ TypeOK
  /\ Level
  /\ InStep
  /\ Finishing

-----------------------------------------------------------------------------
(* Steps of the circle and of the counters.                                *)

LEMMA Stepping ==
  ASSUME NEW m \in Nat, m > 0, NEW x \in 0..m-1
  PROVE  Inc(x, m) \in 0..m-1
BY DEF Inc

LEMMA CounterUp ==
  ASSUME NEW p \in 0..Wrap-1, NEW c \in 0..Wrap-1, wrapping_sub(p, c) < Wrap - 1
  PROVE  wrapping_sub(Inc(p, Wrap), c) = wrapping_sub(p, c) + 1
BY RingAssumption DEF wrapping_sub, Inc

LEMMA CounterDown ==
  ASSUME NEW p \in 0..Wrap-1, NEW c \in 0..Wrap-1, c < p
  PROVE  /\ wrapping_sub(p, Inc(c, Wrap)) = wrapping_sub(p, c) - 1
         /\ wrapping_sub(p, c) >= 1
BY RingAssumption DEF wrapping_sub, Inc

LEMMA Initially == Init => IInv
<1>. SUFFICES ASSUME Init PROVE IInv
  OBVIOUS
<1>1. Flags
  BY DEF Init, Flags
<1>2. Registers
  <2>1. content \in [0..N-1 -> Partial..Wrap-1]
    BY RingAssumption DEF Init, Silence, Partial
  <2>. QED  BY <2>1, RingAssumption DEF Init, Registers, Syncs
<1>3. Level
  BY RingAssumption DEF Init, Level, fill_slots, wrapping_sub, Around
<1>4. InStep /\ Finishing
  BY DEF Init, InStep, Finishing
<1>. QED  BY <1>1, <1>2, <1>3, <1>4 DEF IInv, TypeOK

(* Every step keeps flags boolean, indices in range, registers in width.   *)
LEMMA FlagsStep == Flags /\ [Next]_vars => Flags'
<1>. SUFFICES ASSUME Flags, [Next]_vars PROVE Flags'
  OBVIOUS
<1>. USE DEF Flags
<1>1. ASSUME NEW len \in Packets, audio_data_rx(len) PROVE Flags'
  BY <1>1 DEF audio_data_rx, channel, irq
<1>2. CASE CheckFull \/ Copy \/ Publish
  BY <1>2 DEF CheckFull, Copy, Publish, host, channel, irq
<1>3. CASE Account
  BY <1>3 DEF Account, host, irq
<1>4. CASE feedback \/ LoadStart \/ ReadReg1 \/ ReadReg2 \/ Compare
  BY <1>4 DEF feedback, LoadStart, ReadReg1, ReadReg2, Compare, host, channel, irq
<1>5. CASE Start
  BY <1>5 DEF Start, init
<1>6. CASE Stop \/ Stopped
  BY <1>6 DEF Stop, Stopped, host, channel, irq
<1>7. CASE DMA0
  BY <1>7 DEF DMA0, task, host, channel
<1>8. CASE Transfer \/ Reload
  BY <1>8 DEF Transfer, Reload, task, host, irq
<1>9. CASE UNCHANGED vars
  BY <1>9 DEF vars, task, host, channel, irq
<1>. QED
  BY <1>1, <1>2, <1>3, <1>4, <1>5, <1>6, <1>7, <1>8, <1>9 DEF Next, UsbTask

LEMMA RegistersStep == Registers /\ [Next]_vars => Registers'
<1>. SUFFICES ASSUME Registers, [Next]_vars PROVE Registers'
  OBVIOUS
<1>. USE RingAssumption
<1>1. ASSUME NEW len \in Packets, audio_data_rx(len) PROVE Registers'
  BY <1>1 DEF Registers, audio_data_rx, producer, channel, reader
<1>2. CASE CheckFull
  BY <1>2 DEF Registers, CheckFull, producer, channel, reader
<1>3. CASE Copy
  BY <1>3 DEF Registers, Copy, Chunk, Partial, channel, reader
<1>4. CASE Publish
  BY <1>4 DEF Registers, Publish, Inc, Partial, channel, reader
<1>5. CASE Account
  <2>1. (produced_bytes + Counted) % Wrap \in 0..Wrap-1
    BY DEF Registers, Counted
  <2>. QED  BY <1>5, <2>1 DEF Registers, Account, reader
<1>6. CASE feedback
  BY <1>6 DEF Registers, feedback, producer, channel, reader
<1>7. CASE LoadStart
  BY <1>7 DEF Registers, LoadStart, producer, channel, reader
<1>8. CASE ReadReg1
  BY <1>8 DEF Registers, ReadReg1, xfercount, Exhausted, producer, channel, reader
<1>9. CASE ReadReg2
  BY <1>9 DEF Registers, ReadReg2, xfercount, Exhausted, producer, channel, reader
<1>10. CASE Compare
  BY <1>10 DEF Registers, Compare, producer, channel, reader
<1>11. CASE Start
  BY <1>11 DEF Registers, Start, init, init_descriptors, reset_producer_init_only,
              Zero, Silence, Partial, Syncs
<1>12. CASE Stop
  BY <1>12 DEF Registers, Stop, producer, reader
<1>13. CASE Stopped
  BY <1>13 DEF Registers, Stopped, reset_producer, Zero, Syncs, channel
<1>14. CASE DMA0
  BY <1>14 DEF Registers, DMA0, advance_consumed, Slip, Syncs, Inc,
               producer, task, channel
<1>15. CASE Transfer
  BY <1>15 DEF Registers, Transfer, Slip, Syncs, producer, task
<1>16. CASE Reload
  BY <1>16 DEF Registers, Reload, Inc, Syncs, producer, task
<1>17. CASE UNCHANGED vars
  BY <1>17 DEF Registers, vars, producer, task, channel, reader
<1>. QED
  BY <1>1, <1>2, <1>3, <1>4, <1>5, <1>6, <1>7, <1>8, <1>9, <1>10, <1>11, <1>12,
     <1>13, <1>14, <1>15, <1>16, <1>17 DEF Next, UsbTask

(* What the callbacks of the USB task do not touch.                        *)
Aside == UNCHANGED <<write_slot, produced, consumed, read_slot, sync, inta,
                     hwSlot, hwLeft, enabled, busy>>

LEMMA AsideStep ==
  ASSUME Aside, Level, InStep, Finishing,
         pc' \in {"copy", "publish"} =>
           fill_slots < N - Gap \/ pc \in {"copy", "publish"},
         pc' = "stopping" <=> pc = "stopping"
  PROVE  Level' /\ InStep' /\ Finishing'
<1>1. fill_slots' = fill_slots
  BY DEF Aside, fill_slots, wrapping_sub
<1>2. Level'
  BY <1>1 DEF Level, Aside, Around
<1>3. InStep'
  BY <1>1 DEF InStep, Aside, Around, Unplayed, One, PlaySlot, Inc
<1>4. Finishing'
  BY DEF Finishing, Aside
<1>. QED  BY <1>2, <1>3, <1>4

LEMMA TaskStep ==
  ASSUME TypeOK, Level, InStep, Finishing,
         \/ \E len \in Packets : audio_data_rx(len)
         \/ CheckFull \/ Copy
         \/ feedback \/ LoadStart \/ ReadReg1 \/ ReadReg2 \/ Compare
  PROVE  Level' /\ InStep' /\ Finishing'
<1>1. Aside
  BY DEF audio_data_rx, CheckFull, Copy, feedback, LoadStart, ReadReg1, ReadReg2,
         Compare, Aside, producer, channel, irq, reader
<1>2. pc' \in {"copy", "publish"} => fill_slots < N - Gap \/ pc \in {"copy", "publish"}
  <2>1. CASE CheckFull
    <3>1. fill_slots \in Int
      BY RingAssumption DEF Level
    <3>. QED  BY <2>1, <3>1, RingAssumption DEF CheckFull, is_full_for_producer
  <2>2. CASE Copy
    BY <2>2 DEF Copy
  <2>. QED
    BY <2>1, <2>2 DEF audio_data_rx, feedback, LoadStart, ReadReg1, ReadReg2, Compare
<1>3. pc' = "stopping" <=> pc = "stopping"
  BY DEF audio_data_rx, CheckFull, Copy, feedback, LoadStart, ReadReg1, ReadReg2, Compare
<1>. QED  BY <1>1, <1>2, <1>3, AsideStep

(* A published slot is one more to play.                                   *)
LEMMA PublishStep ==
  ASSUME TypeOK, Level, InStep, Finishing, Publish
  PROVE  Level' /\ InStep' /\ Finishing'
<1>1. /\ produced \in 0..Wrap-1 /\ consumed \in 0..Wrap-1
      /\ read_slot \in 0..N-1 /\ write_slot \in 0..N-1
  BY DEF TypeOK, Registers
<1>2. /\ produced' = Inc(produced, Wrap) /\ consumed' = consumed
      /\ write_slot' = Inc(write_slot, N) /\ pc = "publish" /\ pc' = "push"
      /\ UNCHANGED <<read_slot, sync, inta, hwSlot, hwLeft, enabled, busy>>
  BY DEF Publish, channel, irq, reader
<1>3. fill_slots' = fill_slots + 1 /\ fill_slots \in 0..N-Gap-1
  <2>1. fill_slots \in 0..N-Gap-1
    BY <1>2, RingAssumption DEF Level
  <2>. QED  BY <1>1, <1>2, <2>1, CounterUp, RingAssumption DEF fill_slots
<1>4. Level'
  BY <1>1, <1>2, <1>3, RingAssumption DEF Level, Around, Inc
<1>5. InStep'
  BY <1>2, <1>3, RingAssumption DEF InStep, Around, Unplayed, One, PlaySlot, Inc
<1>6. Finishing'
  BY <1>2 DEF Finishing
<1>. QED  BY <1>4, <1>5, <1>6

(* When the channel is enabled for the first time there is a slot to play. *)
LEMMA AccountStep ==
  ASSUME TypeOK, Level, InStep, Finishing, Account
  PROVE  Level' /\ InStep' /\ Finishing'
<1>1. /\ UNCHANGED <<write_slot, produced, consumed, read_slot, sync, inta, hwSlot,
                     hwLeft, busy>>
      /\ enabled' = (enabled \/ Warm) /\ pc = "account" /\ pc' = "idle"
  BY DEF Account, irq, reader
<1>2. fill_slots' = fill_slots /\ fill_slots \in 0..N-Gap
  BY <1>1 DEF Level, fill_slots, wrapping_sub
<1>3. Level'
  BY <1>1, <1>2 DEF Level, Around
<1>4. Finishing'
  BY <1>1 DEF Finishing
<1>5. ASSUME sync' # "none" PROVE Unplayed' = Unplayed /\ Unplayed >= 0
  BY <1>1, <1>2, <1>5 DEF InStep, Unplayed, One
<1>6. ASSUME sync' # "none", enabled', hwLeft > 0 PROVE Unplayed >= 1
  <2>1. CASE enabled
    BY <1>1, <1>6, <2>1 DEF InStep
  <2>2. CASE ~enabled /\ Warm
    <3>1. fill_slots >= 1
      BY <1>2, <2>2, RingAssumption DEF Warm
    <3>2. sync = "ahead" \/ ~inta
      BY <1>1, <1>6, <2>2 DEF InStep, TypeOK, Registers, Syncs
    <3>. QED  BY <1>2, <3>1, <3>2, RingAssumption DEF Unplayed, One
  <2>. QED  BY <1>1, <1>6, <2>1, <2>2
<1>7. InStep'
  BY <1>1, <1>2, <1>5, <1>6 DEF InStep, Around, PlaySlot, Inc, One, Finishing
<1>. QED  BY <1>3, <1>4, <1>7

(* Start and stop put both sides back to slot 0.                           *)
LEMMA ResetStep ==
  ASSUME TypeOK, Level, InStep, Finishing, Start \/ Stop \/ Stopped
  PROVE  Level' /\ InStep' /\ Finishing'
<1>. USE RingAssumption
<1>1. CASE Start
  <2>1. fill_slots' = 0
    BY <1>1 DEF Start, init, init_descriptors, reset_producer_init_only, Zero,
                fill_slots, wrapping_sub
  <2>2. Level'
    BY <1>1, <2>1 DEF Start, init, init_descriptors, reset_producer_init_only, Zero,
                      Level, Around
  <2>3. ~busy' /\ ~enabled'
    BY <1>1 DEF Start, init, Finishing, TypeOK, Flags
  <2>4. InStep' /\ Finishing'
    BY <1>1, <2>1, <2>3 DEF Start, init, init_descriptors, reset_producer_init_only, Zero,
                      InStep, Finishing, Around, Unplayed, One, PlaySlot
  <2>. QED  BY <2>2, <2>4
<1>2. CASE Stop
  <2>1. fill_slots' = fill_slots
    BY <1>2 DEF Stop, producer, reader, fill_slots, wrapping_sub
  <2>2. Level'
    BY <1>2, <2>1 DEF Stop, producer, reader, Level, Around
  <2>3. enabled' = FALSE /\ (busy' => enabled \/ busy) /\ pc' = "stopping"
    BY <1>2 DEF Stop, TypeOK, Flags
  <2>4. UNCHANGED <<read_slot, sync, inta, hwSlot, hwLeft>>
    BY <1>2 DEF Stop, reader
  <2>5. InStep'
    BY <2>1, <2>3, <2>4 DEF InStep, Around, Unplayed, One, PlaySlot, Inc
  <2>. QED  BY <2>2, <2>3, <2>5 DEF Finishing
<1>3. CASE Stopped
  <2>1. Level'
    BY <1>3 DEF Stopped, reset_producer, Zero, Level, Around, fill_slots, wrapping_sub
  <2>2. InStep' /\ Finishing'
    BY <1>3 DEF Stopped, channel, InStep, Finishing
  <2>. QED  BY <2>1, <2>2
<1>. QED  BY <1>1, <1>2, <1>3

(* The interrupt moves the software's slot and takes the flag down, or     *)
(* takes the flag down and the slot it counted too many with it.           *)
LEMMA InterruptStep ==
  ASSUME TypeOK, Level, InStep, Finishing, DMA0
  PROVE  Level' /\ InStep' /\ Finishing'
<1>. USE RingAssumption
<1>1. /\ produced \in 0..Wrap-1 /\ consumed \in 0..Wrap-1
      /\ read_slot \in 0..N-1 /\ write_slot \in 0..N-1 /\ sync \in Syncs
  BY DEF TypeOK, Registers
<1>2. /\ inta /\ inta' = FALSE
      /\ UNCHANGED <<write_slot, produced, pc, enabled, busy, hwSlot, hwLeft>>
  BY DEF DMA0, producer, task, channel, TypeOK, Flags
<1>3. Finishing'
  BY <1>2 DEF Finishing
<1>4. CASE consumed < produced
  <2>1. consumed' = Inc(consumed, Wrap) /\ read_slot' = Inc(read_slot, N) /\ sync' = sync
    BY <1>4 DEF DMA0, advance_consumed
  <2>2. fill_slots' = fill_slots - 1 /\ fill_slots \in 1..N-Gap
    BY <1>1, <1>2, <1>4, <2>1, CounterDown DEF fill_slots, Level
  <2>3. Level'
    BY <1>1, <1>2, <2>1, <2>2 DEF Level, Around, Inc
  <2>4. ASSUME sync' # "none" PROVE Unplayed' = Unplayed
    BY <1>2, <2>1, <2>2 DEF Unplayed, One
  <2>5. InStep'
    BY <1>1, <1>2, <2>1, <2>2, <2>4 DEF InStep, Around, One, PlaySlot, Inc
  <2>. QED  BY <1>3, <2>3, <2>5
<1>5. CASE ~(consumed < produced)
  <2>1. consumed' = consumed /\ read_slot' = read_slot /\ sync' = Slip
    BY <1>5 DEF DMA0, advance_consumed
  <2>2. fill_slots' = fill_slots /\ fill_slots \in 0..N-Gap
    BY <1>2, <2>1 DEF fill_slots, wrapping_sub, Level
  <2>3. Level'
    BY <1>2, <2>1, <2>2 DEF Level, Around
  <2>4. ASSUME sync' # "none" PROVE sync = "ahead" /\ Unplayed' = Unplayed
    BY <1>2, <2>1, <2>2, <2>4 DEF Slip, Unplayed, One
  <2>5. InStep'
    BY <1>1, <1>2, <2>1, <2>2, <2>4 DEF InStep, Slip, Around, One, PlaySlot, Inc
  <2>. QED  BY <1>3, <2>3, <2>5
<1>. QED  BY <1>4, <1>5

(* The hardware ends a slot and goes on to the next.                       *)
LEMMA HardwareStep ==
  ASSUME TypeOK, Level, InStep, Finishing, Transfer \/ Reload
  PROVE  Level' /\ InStep' /\ Finishing'
<1>. USE RingAssumption
<1>1. /\ hwLeft \in 0..SlotUnits /\ hwSlot \in 0..N-1 /\ read_slot \in 0..N-1
      /\ inta \in BOOLEAN /\ sync \in Syncs
  BY DEF TypeOK, Flags, Registers
<1>2. /\ UNCHANGED <<write_slot, produced, consumed, read_slot, pc, enabled>>
      /\ busy' => busy
  BY DEF Transfer, Reload, producer, task, TypeOK, Flags
<1>3. fill_slots' = fill_slots /\ fill_slots \in 0..N-Gap
  BY <1>2 DEF fill_slots, wrapping_sub, Level
<1>4. Level' /\ Finishing'
  BY <1>2, <1>3 DEF Level, Finishing, Around
<1>5. CASE Transfer /\ hwLeft # 1
  <2>1. hwLeft' = hwLeft - 1 /\ hwLeft' > 0 /\ hwSlot' = hwSlot /\ sync' = sync
    BY <1>1, <1>5 DEF Transfer
  <2>2. inta' = inta
    BY <1>1, <1>5 DEF Transfer
  <2>3. enabled \/ busy
    BY <1>5 DEF Transfer
  <2>4. InStep'
    BY <1>1, <1>2, <1>3, <2>1, <2>2, <2>3 DEF InStep, Unplayed, One, PlaySlot
  <2>. QED  BY <1>4, <2>4
<1>6. CASE Transfer /\ hwLeft = 1
  <2>1. hwLeft' = 0 /\ hwSlot' = hwSlot /\ sync' = (IF inta THEN Slip ELSE sync)
    BY <1>6 DEF Transfer
  <2>2. inta' = TRUE
    BY <1>1, <1>6 DEF Transfer
  <2>3. enabled \/ busy
    BY <1>6 DEF Transfer
  <2>4. InStep'
    <3>1. ASSUME sync' # "none"
          PROVE  sync # "none" /\ Unplayed' = Unplayed - 1 /\ Unplayed >= 1
      BY <1>1, <1>3, <1>6, <2>1, <2>2, <2>3, <3>1 DEF InStep, Unplayed, One, Slip, Syncs
    <3>2. ASSUME sync' # "none"
          PROVE  PlaySlot' = Around(read_slot + One(inta') - One(sync' = "ahead"))
      BY <1>1, <1>6, <2>1, <2>2, <3>1, <3>2
         DEF InStep, Around, One, Slip, Syncs, PlaySlot, Inc
    <3>3. sync' = "even" /\ ~enabled' => pc' = "stopping"
      BY <1>2, <2>3 DEF Finishing
    <3>. QED  BY <1>2, <1>3, <2>1, <3>1, <3>2, <3>3 DEF InStep, Unplayed, One
  <2>. QED  BY <1>4, <2>4
<1>7. CASE Reload
  <2>1. /\ hwLeft = 0 /\ hwLeft' = SlotUnits /\ hwSlot' = Inc(hwSlot, N)
        /\ sync' = (IF Unplayed = 0 THEN "none" ELSE sync)
        /\ inta' = inta
    BY <1>7 DEF Reload, irq
  <2>2. InStep'
    BY <1>1, <1>2, <1>3, <2>1 DEF InStep, Unplayed, One, PlaySlot, Around
  <2>. QED  BY <1>4, <2>2
<1>. QED  BY <1>5, <1>6, <1>7

LEMMA Inductive == IInv /\ [Next]_vars => IInv'
<1>. SUFFICES ASSUME IInv, [Next]_vars PROVE IInv'
  OBVIOUS
<1>. USE DEF IInv
<1>1. TypeOK'
  BY FlagsStep, RegistersStep DEF TypeOK
<1>2. CASE UNCHANGED vars
  <2>1. Aside /\ pc' = pc
    BY <1>2 DEF vars, producer, task, channel, irq, reader, Aside
  <2>. QED  BY <1>1, <2>1, AsideStep
<1>. QED
  BY <1>1, <1>2, TaskStep, PublishStep, AccountStep, ResetStep, InterruptStep,
     HardwareStep DEF Next, UsbTask

-----------------------------------------------------------------------------
(* Theorems                                                                *)

THEOREM Invariance == Spec => []IInv
  BY Initially, Inductive, PTL DEF Spec

(* Every index stays in its range and every register in its width.         *)
THEOREM TypeCorrect == Spec => []TypeOK
<1>1. IInv => TypeOK
  BY DEF IInv
<1>. QED  BY Invariance, <1>1, PTL

(* The producer never writes the slot the DMA reads, while the hardware    *)
(* has not outrun it and no interrupt was lost.                            *)
THEOREM NeverTorn == Spec => []Exclusive
<1>1. IInv => Exclusive
  <2>. SUFFICES ASSUME IInv, pc = "copy", enabled \/ busy, hwLeft > 0, sync # "none"
                PROVE  write_slot # hwSlot
    BY DEF Exclusive
  <2>1. /\ hwSlot = Around(read_slot + One(inta) - One(sync = "ahead"))
        /\ Unplayed >= 1
    BY DEF IInv, InStep, TypeOK, Registers, PlaySlot
  <2>2. /\ fill_slots \in 0..N-Gap-1 /\ write_slot = Around(read_slot + fill_slots)
        /\ read_slot \in 0..N-1
    BY RingAssumption DEF IInv, Level, TypeOK, Registers
  <2>. QED  BY <2>1, <2>2, RingAssumption DEF Around, Unplayed, One
<1>. QED  BY Invariance, <1>1, PTL

-----------------------------------------------------------------------------
(* Refinement                                                              *)

(* The waiting slots as a sequence: as many as the counters say, not more  *)
(* than there are.                                                         *)
WaitingFacts ==
  Intact =>
    /\ Unplayed \in 0..N
    /\ Waiting \in Seq(Int) /\ Len(Waiting) = Unplayed
    /\ \A i \in 1..Unplayed : Waiting[i] = content[Around(PlaySlot + i - 1)]

LEMMA WaitingIsSequence == IInv => WaitingFacts
<1>. SUFFICES ASSUME IInv, Intact
     PROVE  /\ Unplayed \in 0..N
            /\ Waiting \in Seq(Int) /\ Len(Waiting) = Unplayed
            /\ \A i \in 1..Unplayed : Waiting[i] = content[Around(PlaySlot + i - 1)]
  BY DEF WaitingFacts
<1>. USE RingAssumption
<1>1. Unplayed \in 0..N
  BY DEF IInv, Level, InStep, Intact, Unplayed, One
<1>2. PlaySlot \in 0..N-1
  BY DEF IInv, TypeOK, Registers, PlaySlot, Inc
<1>3. ASSUME NEW i \in 1..Unplayed PROVE content[Around(PlaySlot + i - 1)] \in Int
  <2>1. Around(PlaySlot + i - 1) \in 0..N-1
    BY <1>1, <1>2 DEF Around
  <2>. QED  BY <2>1 DEF IInv, TypeOK, Registers, Partial
<1>4. Waiting = [i \in 1..Unplayed |-> content[Around(PlaySlot + i - 1)]]
  BY DEF Waiting
<1>5. Waiting \in [1..Unplayed -> Int]
  BY <1>3, <1>4
<1>6. Waiting \in Seq(Int)
  BY <1>1, <1>5, SeqDef
<1>7. Len(Waiting) = Unplayed
  BY <1>1, <1>5, <1>6, LenProperties
<1>. QED  BY <1>1, <1>4, <1>6, <1>7

LEMMA Stutter ==
  ASSUME UNCHANGED <<sync, produced>>,
         Intact => /\ Unplayed' = Unplayed
                   /\ \A i \in 1..Unplayed :
                        content'[Around(PlaySlot' + i - 1)] = content[Around(PlaySlot + i - 1)]
  PROVE  UNCHANGED Queue!slotVars
<1>1. Intact' = Intact
  BY DEF Intact
<1>2. Around(PlaySlot + 0)' = Around(PlaySlot' + 0)
  BY DEF Around
<1>3. Waiting' = Waiting
  BY <1>1 DEF Waiting, Around
<1>. QED  BY <1>1, <1>3 DEF Upcoming, Queue!slotVars

LEMMA Ending ==
  ASSUME ~Intact'
  PROVE  [Queue!Next]_(Queue!slotVars)
<1>1. Waiting' = <<>> /\ Upcoming' = 0 /\ Intact' = FALSE
  BY DEF Waiting, Upcoming, Intact
<1>. QED  BY <1>1 DEF Queue!Next, Queue!Break

(* What one element more makes of a sequence.                              *)
LEMMA Appended ==
  ASSUME NEW x \in Int, NEW s \in Seq(Int), NEW t \in Seq(Int),
         Len(t) = Len(s) + 1, \A i \in 1..Len(s) : t[i] = s[i], t[Len(s) + 1] = x
  PROVE  t = Append(s, x)
<1>. DEFINE longer == Append(s, x)
<1>1. /\ longer \in Seq(Int) /\ Len(longer) = Len(s) + 1 /\ Len(s) \in Nat
      /\ \A i \in 1..Len(s) : longer[i] = s[i]
      /\ longer[Len(s) + 1] = x
  BY AppendProperties
<1>. HIDE DEF longer
<1>2. ASSUME NEW i \in 1..Len(t) PROVE t[i] = longer[i]
  <2>1. i \in 1..Len(s) \/ i = Len(s) + 1
    BY <1>1
  <2>. QED  BY <1>1, <2>1
<1>3. t = longer
  BY <1>1, <1>2, SeqEqual
<1>. QED  BY <1>3 DEF longer

LEMMA QueueStep ==
  ASSUME IInv, IInv', [Next]_vars
  PROVE  [Queue!Next]_(Queue!slotVars)
<1>. USE RingAssumption
<1>1. WaitingFacts /\ WaitingFacts'
  <2>1. (IInv => WaitingFacts)'
    BY WaitingIsSequence, PTL
  <2>. QED  BY <2>1, WaitingIsSequence
<1>2. /\ produced \in 0..Wrap-1 /\ consumed \in 0..Wrap-1
      /\ hwLeft \in 0..SlotUnits /\ hwSlot \in 0..N-1
      /\ read_slot \in 0..N-1 /\ write_slot \in 0..N-1
      /\ sync \in Syncs /\ content \in [0..N-1 -> Partial..Wrap-1]
      /\ inta \in BOOLEAN
  BY DEF IInv, TypeOK, Flags, Registers
<1>3. CASE UNCHANGED <<content, sync, produced, consumed, inta, hwSlot, hwLeft>>
  <2>1. Unplayed' = Unplayed /\ PlaySlot' = PlaySlot
    BY <1>3 DEF Unplayed, fill_slots, wrapping_sub, One, PlaySlot, Inc
  <2>. QED  BY <1>3, <2>1, Stutter
<1>4. CASE Copy
  <2>1. /\ UNCHANGED <<sync, produced, consumed, inta, hwSlot, hwLeft>>
        /\ content' = [content EXCEPT ![write_slot] = Partial]
        /\ pc = "copy"
    BY <1>4 DEF Copy, channel, irq, reader
  <2>2. Unplayed' = Unplayed /\ PlaySlot' = PlaySlot
    BY <2>1 DEF Unplayed, fill_slots, wrapping_sub, One, PlaySlot, Inc
  <2>3. ASSUME Intact, NEW i \in 1..Unplayed
        PROVE  content'[Around(PlaySlot + i - 1)] = content[Around(PlaySlot + i - 1)]
    <3>1. /\ PlaySlot = Around(read_slot + One(inta) - One(sync = "ahead"))
          /\ fill_slots \in 0..N-Gap-1 /\ write_slot = Around(read_slot + fill_slots)
      BY <2>1, <2>3 DEF IInv, InStep, Level, Intact
    <3>2. Around(PlaySlot + i - 1) # write_slot /\ Around(PlaySlot + i - 1) \in 0..N-1
      BY <1>2, <3>1 DEF Around, Unplayed, One
    <3>. QED  BY <1>2, <2>1, <3>2
  <2>. QED  BY <2>1, <2>2, <2>3, Stutter
<1>5. CASE Publish
  <2>1. /\ UNCHANGED <<sync, consumed, read_slot, inta, hwSlot, hwLeft>>
        /\ produced' = Inc(produced, Wrap) /\ pc = "publish"
        /\ content' = [content EXCEPT ![write_slot] = produced]
    BY <1>5 DEF Publish, channel, irq, reader
  <2>2. CASE ~Intact
    BY <2>1, <2>2, Ending DEF Intact
  <2>3. CASE Intact
    <3>1. Intact' /\ PlaySlot' = PlaySlot
      BY <2>1, <2>3 DEF Intact, PlaySlot, Inc
    <3>2. fill_slots' = fill_slots + 1 /\ fill_slots \in 0..N-Gap-1
      <4>1. fill_slots \in 0..N-Gap-1
        BY <2>1 DEF IInv, Level
      <4>. QED  BY <1>2, <2>1, <4>1, CounterUp DEF fill_slots
    <3>3. Unplayed' = Unplayed + 1
      BY <2>1, <3>2 DEF Unplayed, One
    <3>4. /\ PlaySlot = Around(read_slot + One(inta) - One(sync = "ahead"))
          /\ write_slot = Around(read_slot + fill_slots)
      BY <2>3 DEF IInv, InStep, Level, Intact
    <3>5. /\ Unplayed \in 0..N-1
          /\ Waiting \in Seq(Int) /\ Len(Waiting) = Unplayed
          /\ Waiting' \in Seq(Int) /\ Len(Waiting') = Unplayed + 1
      BY <1>1, <2>3, <3>1, <3>3 DEF WaitingFacts
    <3>6. \A i \in 1..Unplayed+1 : Waiting'[i] = content'[Around(PlaySlot + i - 1)]
      <4>1. \A i \in 1..Unplayed' : Waiting'[i] = content'[Around(PlaySlot' + i - 1)]
        BY <1>1, <3>1 DEF WaitingFacts, Around
      <4>. QED  BY <3>1, <3>3, <4>1
    <3>7. ASSUME NEW i \in 1..Unplayed PROVE Waiting'[i] = Waiting[i]
      <4>1. Waiting'[i] = content'[Around(PlaySlot + i - 1)]
        <5>1. i \in 1..Unplayed+1
          BY <3>5
        <5>. QED  BY Zenon, <3>6, <5>1
      <4>2. Around(PlaySlot + i - 1) # write_slot /\ Around(PlaySlot + i - 1) \in 0..N-1
        BY <1>2, <3>2, <3>4 DEF Around, Unplayed, One
      <4>3. content'[Around(PlaySlot + i - 1)] = content[Around(PlaySlot + i - 1)]
        BY <1>2, <2>1, <4>2
      <4>. QED  BY <1>1, <2>3, <4>1, <4>3 DEF WaitingFacts
    <3>8. Waiting'[Unplayed + 1] = produced
      <4>1. Waiting'[Unplayed + 1] = content'[Around(PlaySlot + (Unplayed + 1) - 1)]
        <5>1. Unplayed + 1 \in 1..Unplayed+1
          BY <3>5
        <5>. QED  BY Zenon, <3>6, <5>1
      <4>2. Around(PlaySlot + (Unplayed + 1) - 1) = write_slot
        BY <1>2, <3>2, <3>4 DEF Around, Unplayed, One
      <4>. QED  BY <1>2, <2>1, <4>1, <4>2
    <3>9. Waiting' = Append(Waiting, produced)
      <4>1. produced \in Int
        BY <1>2
      <4>2. /\ Len(Waiting') = Len(Waiting) + 1
            /\ \A i \in 1..Len(Waiting) : Waiting'[i] = Waiting[i]
            /\ Waiting'[Len(Waiting) + 1] = produced
        BY Zenon, <3>5, <3>7, <3>8
      <4>. QED  BY Zenon, <3>5, <4>1, <4>2, Appended
    <3>10. Upcoming = produced /\ Upcoming' = Inc(produced, Wrap) /\ Intact' = Intact
      BY <2>1, <2>3, <3>1 DEF Upcoming, Intact
    <3>. QED  BY <2>3, <3>5, <3>9, <3>10 DEF Queue!Next, Queue!Publish, Inc
  <2>. QED  BY <2>2, <2>3
<1>6. CASE Start
  <2>1. /\ produced' = 0 /\ consumed' = 0 /\ inta' = inta
        /\ sync' = IF inta THEN "ahead" ELSE "even"
    BY <1>6 DEF Start, init, init_descriptors, reset_producer_init_only, Zero
  <2>2. Intact' = TRUE /\ Upcoming' = 0 /\ Unplayed' = 0
    BY <1>2, <2>1 DEF Intact, Upcoming, Unplayed, One, fill_slots, wrapping_sub
  <2>3. Waiting' = <<>>
    BY <1>1, <2>2, EmptySeq DEF WaitingFacts
  <2>. QED  BY <2>2, <2>3 DEF Queue!Next, Queue!Restart
<1>7. CASE Stopped
  BY <1>7, Ending DEF Stopped, Intact
<1>8. CASE DMA0
  <2>1. /\ UNCHANGED <<content, produced, hwSlot, hwLeft>>
        /\ inta /\ inta' = FALSE
    BY <1>2, <1>8 DEF DMA0, producer, channel
  <2>2. PlaySlot' = PlaySlot
    BY <2>1 DEF PlaySlot, Inc
  <2>3. CASE ~Intact'
    BY <2>3, Ending
  <2>4. CASE Intact' /\ consumed < produced
    <3>1. consumed' = Inc(consumed, Wrap) /\ sync' = sync
      BY <1>8, <2>4 DEF DMA0, advance_consumed
    <3>2. fill_slots' = fill_slots - 1 /\ fill_slots \in Int
      BY <1>2, <2>1, <2>4, <3>1, CounterDown DEF fill_slots, IInv, Level
    <3>3. Unplayed' = Unplayed
      BY <2>1, <3>1, <3>2 DEF Unplayed, One
    <3>. QED  BY <2>1, <2>2, <3>1, <3>3, Stutter
  <2>5. CASE Intact' /\ ~(consumed < produced)
    <3>1. consumed' = consumed /\ sync' = Slip
      BY <1>8, <2>5 DEF DMA0, advance_consumed
    <3>2. sync = "ahead" /\ sync' = "even"
      BY <2>5, <3>1 DEF Intact, Slip
    <3>3. fill_slots' = fill_slots /\ fill_slots \in Int
      BY <2>1, <3>1 DEF fill_slots, wrapping_sub, IInv, Level
    <3>4. Unplayed' = Unplayed
      BY <2>1, <3>2, <3>3 DEF Unplayed, One
    <3>5. Waiting' = Waiting
      BY <2>1, <2>2, <3>2, <3>4 DEF Waiting, Intact, Around
    <3>6. Upcoming' = Upcoming /\ Intact' = Intact
      BY <2>1, <3>2 DEF Upcoming, Intact
    <3>. QED  BY <3>5, <3>6 DEF Queue!slotVars
  <2>. QED  BY <2>3, <2>4, <2>5
<1>9. CASE Transfer
  <2>1. UNCHANGED <<content, produced, consumed, hwSlot>> /\ hwLeft' = hwLeft - 1
        /\ hwLeft > 0 /\ (enabled \/ busy)
    BY <1>9 DEF Transfer, producer
  <2>2. CASE ~Intact'
    BY <2>2, Ending
  <2>3. CASE Intact' /\ hwLeft # 1
    <3>1. inta' = inta /\ sync' = sync
      BY <1>2, <1>9, <2>3 DEF Transfer
    <3>2. Unplayed' = Unplayed /\ PlaySlot' = PlaySlot
      BY <1>2, <2>1, <2>3, <3>1 DEF Unplayed, fill_slots, wrapping_sub, One, PlaySlot, Inc
    <3>. QED  BY <2>1, <3>1, <3>2, Stutter
  <2>4. CASE Intact' /\ hwLeft = 1
    <3>1. inta' = TRUE /\ sync' = IF inta THEN Slip ELSE sync
      BY <1>2, <1>9, <2>4 DEF Transfer
    <3>2. Intact
      BY <2>4, <3>1 DEF Intact, Slip
    <3>3. PlaySlot = hwSlot /\ PlaySlot' = Inc(hwSlot, N)
      BY <2>1, <2>4 DEF PlaySlot, Inc
    <3>4. fill_slots' = fill_slots /\ fill_slots \in Int
      BY <2>1 DEF fill_slots, wrapping_sub, IInv, Level
    <3>5. Unplayed' = Unplayed - 1 /\ Unplayed \in 1..N
      <4>1. Unplayed \in 1..N
        BY <1>1, <2>1, <3>2 DEF WaitingFacts, IInv, InStep, Intact
      <4>. QED
        BY <1>2, <2>4, <3>1, <3>4, <4>1 DEF Unplayed, One, Slip, Syncs, Intact
    <3>6. /\ Waiting \in Seq(Int) /\ Len(Waiting) = Unplayed
          /\ Waiting' \in Seq(Int) /\ Len(Waiting') = Unplayed - 1
      BY <1>1, <2>4, <3>2, <3>5 DEF WaitingFacts
    <3>7. Waiting # <<>>
      BY <3>5, <3>6, EmptySeq
    <3>8. ASSUME NEW i \in 1..Unplayed-1 PROVE Waiting'[i] = Waiting[i+1]
      <4>1. Waiting'[i] = content[Around(PlaySlot' + i - 1)]
        <5>1. \A j \in 1..Unplayed' : Waiting'[j] = content'[Around(PlaySlot' + j - 1)]
          BY <1>1, <2>4 DEF WaitingFacts, Around
        <5>. QED  BY <2>1, <3>5, <5>1
      <4>2. Waiting[i+1] = content[Around(PlaySlot + (i + 1) - 1)]
        <5>1. i + 1 \in 1..Unplayed
          BY <3>5
        <5>2. \A j \in 1..Unplayed : Waiting[j] = content[Around(PlaySlot + j - 1)]
          BY <1>1, <3>2 DEF WaitingFacts
        <5>. QED  BY <5>1, <5>2
      <4>3. Around(PlaySlot' + i - 1) = Around(PlaySlot + (i + 1) - 1)
        BY <1>2, <3>3, <3>5 DEF Around, Inc
      <4>. QED  BY <4>1, <4>2, <4>3
    <3>9. Waiting' = Tail(Waiting)
      <4>. DEFINE shorter == Tail(Waiting)
      <4>1. /\ shorter \in Seq(Int) /\ Len(shorter) = Unplayed - 1
            /\ \A i \in 1..Unplayed-1 : shorter[i] = Waiting[i+1]
        BY <3>5, <3>6, <3>7, HeadTailProperties
      <4>2. ASSUME NEW i \in 1..Len(Waiting') PROVE Waiting'[i] = shorter[i]
        BY <3>6, <3>8, <4>1
      <4>. QED  BY <3>6, <4>1, <4>2, SeqEqual
    <3>10. Upcoming' = Upcoming /\ Intact' = Intact /\ Intact
      BY <2>1, <2>4, <3>2 DEF Upcoming, Intact
    <3>. QED  BY <3>7, <3>9, <3>10 DEF Queue!Next, Queue!Play
  <2>. QED  BY <2>2, <2>3, <2>4
<1>10. CASE Reload
  <2>1. /\ UNCHANGED <<content, produced, consumed, inta>>
        /\ hwLeft = 0 /\ hwLeft' = SlotUnits /\ hwSlot' = Inc(hwSlot, N)
        /\ sync' = IF Unplayed = 0 THEN "none" ELSE sync
    BY <1>10 DEF Reload, producer, irq
  <2>2. CASE ~Intact'
    BY <2>2, Ending
  <2>3. CASE Intact'
    <3>1. sync' = sync
      BY <2>1, <2>3 DEF Intact
    <3>2. Unplayed' = Unplayed /\ PlaySlot' = PlaySlot
      BY <1>2, <2>1, <3>1 DEF Unplayed, fill_slots, wrapping_sub, One, PlaySlot, Inc
    <3>. QED  BY <2>1, <3>1, <3>2, Stutter
  <2>. QED  BY <2>2, <2>3
<1>11. ASSUME \/ \E len \in Packets : audio_data_rx(len)
              \/ CheckFull \/ Account \/ Stop
              \/ feedback \/ LoadStart \/ ReadReg1 \/ ReadReg2 \/ Compare
              \/ UNCHANGED vars
       PROVE  UNCHANGED <<content, sync, produced, consumed, inta, hwSlot, hwLeft>>
  BY <1>11 DEF audio_data_rx, CheckFull, Account, Stop, feedback, LoadStart, ReadReg1,
               ReadReg2, Compare, vars, producer, channel, irq, reader
<1>. QED
  BY <1>3, <1>4, <1>5, <1>6, <1>7, <1>8, <1>9, <1>10, <1>11 DEF Next, UsbTask

(* The ring implements the queue of slots.                                 *)
THEOREM Refinement == Spec => ImplementsQueue
<1>1. Init => Queue!Init
  BY DEF Init, Queue!Init, Waiting, Upcoming, Intact
<1>2. IInv /\ IInv' /\ [Next]_vars => [Queue!Next]_(Queue!slotVars)
  BY QueueStep
<1>. QED  BY <1>1, <1>2, Invariance, PTL DEF Spec, ImplementsQueue, Queue!Spec

-----------------------------------------------------------------------------
(* The bytes that were taken and the slots that were published             *)

InCallback == pc \in {"push", "copy", "publish", "account"}
Position == produced * SlotUnits + write_off

(* Inside audio_data_rx the bytes pushed so far are still to be added; the *)
(* counters mean nothing while stop() waits to reset them.                 *)
Bytes ==
  /\ InCallback => (produced_bytes + written) % Wrap = Position % Wrap
  /\ ~InCallback /\ pc # "stopping" => produced_bytes = Position % Wrap
  /\ pc = "publish" => write_off = SlotUnits

LEMMA PositionFacts ==
  ASSUME Registers
  PROVE  /\ Wrap \in Nat /\ Wrap > 0 /\ SlotUnits \in Nat
         /\ produced * SlotUnits \in Nat /\ Position \in Nat
         /\ produced_bytes + written \in Int
         /\ produced_bytes \in 0..Wrap-1 /\ produced_bytes % Wrap = produced_bytes
<1>1. /\ Wrap \in Nat /\ Wrap > 0 /\ SlotUnits \in Nat
      /\ produced \in Nat /\ write_off \in Nat
      /\ produced_bytes \in 0..Wrap-1 /\ written \in Nat
  BY RingAssumption DEF Registers
<1>2. produced * SlotUnits \in Nat
  BY <1>1
<1>3. produced_bytes % Wrap = produced_bytes
  BY <1>1
<1>. QED  BY <1>1, <1>2, <1>3 DEF Position

(* Publishing a full slot keeps the position, also when the count wraps.   *)
LEMMA PublishKeepsPosition ==
  ASSUME Registers, Publish, write_off = SlotUnits
  PROVE  Position' % Wrap = Position % Wrap
<1>1. produced' = Inc(produced, Wrap) /\ write_off' = 0
  BY DEF Publish
<1>2. produced \in 0..Wrap-1 /\ Wrap \in Nat /\ Wrap > 0 /\ SlotUnits \in Nat
  BY RingAssumption DEF Registers
<1>3. Position = SlotUnits * (produced + 1)
  BY <1>2 DEF Position
<1>4. CASE produced + 1 = Wrap
  <2>1. Position' = 0
    BY <1>1, <1>2, <1>4 DEF Position, Inc
  <2>2. Position = Wrap * SlotUnits + 0
    BY <1>2, <1>3, <1>4
  <2>3. (Wrap * SlotUnits + 0) % Wrap = 0 % Wrap
    BY <1>2, Turns
  <2>. QED  BY <2>1, <2>2, <2>3
<1>5. CASE produced + 1 # Wrap
  <2>1. produced' = produced + 1
    BY <1>1, <1>5 DEF Inc
  <2>2. Position' = SlotUnits * (produced + 1)
    BY <1>1, <1>2, <2>1 DEF Position
  <2>. QED  BY <1>3, <2>2
<1>. QED  BY <1>4, <1>5

LEMMA BytesInit == Init => Bytes
<1>. SUFFICES ASSUME Init PROVE Bytes
  OBVIOUS
<1>1. Position = 0
  BY RingAssumption DEF Init, Position
<1>2. pc = "idle" /\ produced_bytes = 0
  BY DEF Init
<1>. QED  BY <1>1, <1>2, RingAssumption DEF Bytes, InCallback

LEMMA BytesStep == Registers /\ Bytes /\ [Next]_vars => Bytes'
<1>. SUFFICES ASSUME Registers, Bytes, [Next]_vars PROVE Bytes'
  OBVIOUS
<1>1. ASSUME NEW len \in Packets, audio_data_rx(len) PROVE Bytes'
  <2>1. /\ pc = "idle" /\ pc' = "push" /\ written' = 0 /\ produced_bytes' = produced_bytes
        /\ Position' = Position
    BY <1>1 DEF audio_data_rx, producer, Position
  <2>2. produced_bytes = Position % Wrap
    BY <2>1 DEF Bytes, InCallback
  <2>3. produced_bytes' + written' = produced_bytes
    BY <2>1, PositionFacts
  <2>4. (produced_bytes' + written') % Wrap = Position' % Wrap
    BY <2>1, <2>2, <2>3, PositionFacts
  <2>. QED  BY <2>1, <2>4 DEF Bytes, InCallback
<1>2. CASE UNCHANGED <<producer, written>> /\ (InCallback' <=> InCallback)
           /\ (pc' = "publish" => pc = "publish") /\ (pc' = "stopping" <=> pc = "stopping")
  <2>1. /\ UNCHANGED <<produced_bytes, written, write_off>> /\ Position' = Position
        /\ (InCallback' <=> InCallback)
    BY <1>2 DEF producer, Position
  <2>. QED  BY <1>2, <2>1 DEF Bytes
<1>3. CASE Copy
  <2>1. /\ written' = written + Chunk /\ produced_bytes' = produced_bytes
        /\ Position' = produced * SlotUnits + (write_off + Chunk)
        /\ pc = "copy" /\ pc' \in {"publish", "push"}
        /\ pc' = "publish" => write_off' = SlotUnits
    BY <1>3 DEF Copy, Position
  <2>2. Chunk \in Int /\ written \in Int /\ write_off \in Int /\ produced_bytes \in Int
    BY RingAssumption DEF Registers, Chunk
  <2>3. (produced_bytes + written) % Wrap = Position % Wrap
    BY <2>1 DEF Bytes, InCallback
  <2>4. ((produced_bytes + written) + Chunk) % Wrap = (Position + Chunk) % Wrap
    <3>. DEFINE bytes == produced_bytes + written
                here == Position
                k == Chunk
    <3>1. /\ Wrap \in Nat /\ Wrap > 0
          /\ bytes \in Int /\ here \in Int /\ k \in Int /\ bytes % Wrap = here % Wrap
      BY <2>2, <2>3, PositionFacts
    <3>2. (bytes + k) % Wrap = (here + k) % Wrap
      <4>. HIDE DEF bytes, here, k
      <4>. QED  BY <3>1, Congruent
    <3>. QED  BY <3>2
  <2>5. /\ produced_bytes' + written' = (produced_bytes + written) + Chunk
        /\ Position' = Position + Chunk
    BY <2>1, <2>2, PositionFacts DEF Position
  <2>6. (produced_bytes' + written') % Wrap = Position' % Wrap
    BY <2>4, <2>5
  <2>. QED  BY <2>1, <2>6 DEF Bytes, InCallback
<1>4. CASE Publish
  <2>1. /\ pc = "publish" /\ pc' = "push" /\ written' = written
        /\ produced_bytes' = produced_bytes
    BY <1>4 DEF Publish
  <2>2. /\ write_off = SlotUnits
        /\ (produced_bytes + written) % Wrap = Position % Wrap
    BY <2>1 DEF Bytes, InCallback
  <2>3. (produced_bytes' + written') % Wrap = Position' % Wrap
    BY <1>4, <2>1, <2>2, PublishKeepsPosition
  <2>. QED  BY <2>1, <2>3 DEF Bytes, InCallback
<1>5. CASE Account
  <2>1. /\ pc = "account" /\ pc' = "idle" /\ Position' = Position
        /\ produced_bytes' = (produced_bytes + written) % Wrap
    BY <1>5 DEF Account, Counted, Position
  <2>2. (produced_bytes + written) % Wrap = Position % Wrap
    BY <2>1 DEF Bytes, InCallback
  <2>. QED  BY <2>1, <2>2 DEF Bytes, InCallback
<1>6. CASE Start \/ Stopped
  <2>1. produced_bytes' = 0 /\ produced' = 0 /\ write_off' = 0 /\ pc' = "idle"
    BY <1>6 DEF Start, init, init_descriptors, reset_producer_init_only, Stopped,
                reset_producer, Zero
  <2>2. Position' = 0 /\ 0 % Wrap = 0
    BY <2>1, RingAssumption DEF Position
  <2>. QED  BY <2>1, <2>2 DEF Bytes, InCallback
<1>7. CASE Stop
  BY <1>7 DEF Stop, Bytes, InCallback
<1>8. CASE CheckFull \/ feedback \/ LoadStart \/ ReadReg1 \/ ReadReg2 \/ Compare
  BY <1>2, <1>8 DEF CheckFull, feedback, LoadStart, ReadReg1, ReadReg2, Compare, InCallback
<1>9. CASE DMA0 \/ Transfer \/ Reload \/ UNCHANGED vars
  <2>1. UNCHANGED <<producer, task>>
    BY <1>9 DEF DMA0, Transfer, Reload, vars
  <2>. QED  BY <1>2, <2>1 DEF task, InCallback
<1>. QED
  BY <1>1, <1>3, <1>4, <1>5, <1>6, <1>7, <1>8, <1>9 DEF Next, UsbTask

(* Between callbacks bytes and slots speak of the same data: what is       *)
(* dropped is not counted, and the counters may wrap.                      *)
THEOREM CountersAgree == Spec => []BytesAgree
<1>1. TypeOK /\ Bytes /\ [Next]_vars => Bytes'
  BY BytesStep DEF TypeOK
<1>2. Bytes => BytesAgree
  BY DEF Bytes, BytesAgree, InCallback, Position
<1>. QED  BY BytesInit, TypeCorrect, <1>1, <1>2, PTL DEF Spec

-----------------------------------------------------------------------------
(* What feedback() reads                                                   *)

(* A register of the channel, read at any time, is a count of transfers    *)
(* left in a slot or says that there are none.                             *)
Reads ==
  pc \in {"reg_2", "compare"} =>
    reg_1 \in 0..SlotUnits-1 \cup {Exhausted}

LEMMA ReadsStep == Registers /\ Reads /\ [Next]_vars => Reads'
<1>. SUFFICES ASSUME Registers, Reads, [Next]_vars PROVE Reads'
  OBVIOUS
<1>1. CASE ReadReg1
  <2>1. reg_1' = xfercount /\ hwLeft \in 0..SlotUnits
    BY <1>1 DEF ReadReg1, Registers
  <2>. QED  BY <2>1, RingAssumption DEF Reads, xfercount
<1>2. CASE UNCHANGED <<pc, reg_1>>
  BY <1>2 DEF Reads
<1>3. CASE ReadReg2
  BY <1>3 DEF ReadReg2, Reads
<1>4. CASE pc' \notin {"reg_2", "compare"}
  BY <1>4 DEF Reads
<1>5. CASE \E len \in Packets : audio_data_rx(len)
  BY <1>4, <1>5 DEF audio_data_rx
<1>6. CASE CheckFull \/ Copy \/ Publish \/ Account
  BY <1>4, <1>6 DEF CheckFull, Copy, Publish, Account
<1>7. CASE feedback \/ LoadStart \/ Compare
  BY <1>4, <1>7 DEF feedback, LoadStart, Compare
<1>8. CASE Start \/ Stop \/ Stopped
  BY <1>2, <1>4, <1>8 DEF Start, Stop, Stopped, Reads
<1>9. CASE DMA0 \/ Transfer \/ Reload \/ UNCHANGED vars
  BY <1>2, <1>9 DEF DMA0, Transfer, Reload, vars, task
<1>. QED
  BY <1>1, <1>3, <1>5, <1>6, <1>7, <1>8, <1>9 DEF Next, UsbTask

(* A wrapping counter goes no further than the positions are apart.        *)
LEMMA Behind ==
  ASSUME NEW a \in Int, NEW d \in Nat
  PROVE  /\ wrapping_sub((a + d) % Wrap, a % Wrap) \in Int
         /\ wrapping_sub((a + d) % Wrap, a % Wrap) <= d
<1>. DEFINE from == a % Wrap
            to == (a + d) % Wrap
<1>1. Wrap \in Nat /\ Wrap > 0 /\ a + d \in Int
  BY RingAssumption
<1>2. from \in Int /\ to \in Int
  BY <1>1, DivMod
<1>3. (IF to >= from THEN to - from ELSE to - from + Wrap) <= d
  BY <1>1, Apart
<1>. HIDE DEF from, to
<1>4. wrapping_sub(to, from) \in Int /\ wrapping_sub(to, from) <= d
  BY <1>1, <1>2, <1>3 DEF wrapping_sub
<1>. QED  BY <1>4 DEF from, to

(* While the interrupt has counted the slots played, what consumed_bytes() *)
(* returns to the USB task is less than two slots behind the hardware and  *)
(* at most one ahead of it, for slots of any length and whatever interrupt *)
(* or hardware do between its reads.                                       *)
THEOREM ReadingSettles == Spec => []ReadingNear
<1>1. Init => Reads
  BY DEF Init, Reads
<1>2. TypeOK /\ Reads /\ [Next]_vars => Reads'
  BY ReadsStep DEF TypeOK
<1>3. TypeOK /\ Reads => ReadingNear
  <2>. SUFFICES ASSUME TypeOK, Reads, pc = "compare", Consistent
       PROVE  \/ wrapping_sub(Played, consumed_bytes) < 2 * SlotUnits
              \/ wrapping_sub(consumed_bytes, Played) <= SlotUnits
    BY DEF ReadingNear
  <2>1. /\ Wrap \in Nat /\ Wrap > 0 /\ SlotUnits \in 1..1023
        /\ consumed \in Nat /\ hwLeft \in 0..SlotUnits /\ start = consumed
    BY RingAssumption DEF TypeOK, Registers, Consistent
  <2>. DEFINE off == IF hwLeft = 0 THEN 0 ELSE SlotUnits - hwLeft
              base == consumed * SlotUnits
              in == SlotUnits - Remaining
              flag == IF inta THEN SlotUnits ELSE 0
              here == base + in
              there == base + flag + off
  <2>2. off \in 0..SlotUnits-1 /\ base \in Nat /\ flag \in {0, SlotUnits}
    BY <2>1
  <2>3. in \in 0..SlotUnits
    <3>1. reg_1 \in 0..SlotUnits-1 \cup {Exhausted}
      BY DEF Reads
    <3>. QED  BY <2>1, <3>1 DEF Remaining, Exhausted
  <2>4. consumed_bytes = here % Wrap
    <3>1. start * SlotUnits + SlotUnits - Remaining = here
      BY <2>1, <2>2, <2>3 DEF Remaining
    <3>. QED  BY <3>1 DEF consumed_bytes
  <2>5. Played = there % Wrap
    <3>1. (consumed + One(inta)) * SlotUnits = base + flag
      BY <2>1 DEF One
    <3>. QED  BY <3>1 DEF Played
  <2>. HIDE DEF off, base, in, flag
  <2>6. here \in Int /\ there \in Int
    BY <2>1, <2>2, <2>3
  <2>7. CASE there >= here
    <3>. DEFINE d == there - here
    <3>1. d \in Nat /\ d < 2 * SlotUnits /\ there = here + d
      BY <2>1, <2>2, <2>3, <2>7
    <3>2. wrapping_sub(Played, consumed_bytes) \in Int /\ wrapping_sub(Played, consumed_bytes) <= d
      <4>. HIDE DEF here, there, d
      <4>. QED  BY Zenon, <2>4, <2>5, <2>6, <3>1, Behind
    <3>. QED  BY <2>1, <3>1, <3>2
  <2>8. CASE ~(there >= here)
    <3>. DEFINE d == here - there
    <3>1. d \in Nat /\ d <= SlotUnits /\ here = there + d
      BY <2>1, <2>2, <2>3, <2>8
    <3>2. wrapping_sub(consumed_bytes, Played) \in Int /\ wrapping_sub(consumed_bytes, Played) <= d
      <4>. HIDE DEF here, there, d
      <4>. QED  BY Zenon, <2>4, <2>5, <2>6, <3>1, Behind
    <3>. QED  BY <2>1, <3>1, <3>2
  <2>. QED  BY <2>7, <2>8
<1>. QED  BY TypeCorrect, <1>1, <1>2, <1>3, PTL DEF Spec

-----------------------------------------------------------------------------
(* The packet left over from a stopped stream                              *)

(* Since the reset there was at most one, less than what enables the       *)
(* channel, and with the interrupt masked nothing else counts.             *)
LeftOver ==
  /\ InCallback => ~leftover
  /\ ~InCallback => data = 0
  /\ ~armed => ~running /\ ~enabled /\ ~unmasked
  /\ ~armed /\ pc # "stopping" =>
       /\ consumed = 0
       /\ Position + data < (N \div 2) * SlotUnits
       /\ leftover => produced = 0 /\ write_off = 0

LEMMA HalfARing == (N \div 2) * SlotUnits \in Nat /\ (N \div 2) * SlotUnits >= 1
<1>1. N \div 2 \in Nat /\ N \div 2 >= 1 /\ SlotUnits \in Nat /\ SlotUnits >= 1
  BY RingAssumption
<1>. DEFINE half == N \div 2
<1>. HIDE DEF half
<1>2. half * SlotUnits \in Nat /\ half * SlotUnits >= 1
  BY <1>1 DEF half
<1>. QED  BY <1>2 DEF half

(* Less than half a ring does not fill half its slots.                     *)
LEMMA NotWarm ==
  ASSUME Registers, consumed = 0, Position < (N \div 2) * SlotUnits
  PROVE  ~Warm
<1>. DEFINE half == N \div 2
<1>1. /\ half \in Nat /\ SlotUnits \in Nat /\ SlotUnits > 0
      /\ produced \in Nat /\ write_off \in Nat
  BY RingAssumption DEF Registers
<1>2. fill_slots = produced
  BY <1>1 DEF fill_slots, wrapping_sub
<1>3. ~(produced >= half)
  <2>. HIDE DEF half
  <2>1. SUFFICES ASSUME produced >= half PROVE FALSE
    OBVIOUS
  <2>2. produced * SlotUnits >= half * SlotUnits
    <3>1. SlotUnits * (produced - half) >= 0
      BY <1>1, <2>1, Multiple
    <3>2. SlotUnits * (produced - half) = SlotUnits * produced - SlotUnits * half
      BY <1>1, Distribute
    <3>3. SlotUnits * produced = produced * SlotUnits /\ SlotUnits * half = half * SlotUnits
      BY <1>1, Distribute
    <3>4. produced * SlotUnits \in Int /\ half * SlotUnits \in Int
      BY <1>1
    <3>. QED  BY <3>1, <3>2, <3>3, <3>4
  <2>3. produced * SlotUnits + write_off < half * SlotUnits
    BY DEF Position, half
  <2>4. produced * SlotUnits \in Int /\ half * SlotUnits \in Int
    BY <1>1
  <2>. QED  BY <1>1, <2>2, <2>3, <2>4
<1>. QED  BY <1>2, <1>3 DEF Warm

LEMMA LeftOverInit == Init => LeftOver
<1>. SUFFICES ASSUME Init PROVE LeftOver
  OBVIOUS
<1>1. Position = 0
  BY RingAssumption DEF Init, Position
<1>. QED  BY <1>1, HalfARing DEF Init, LeftOver, InCallback

LEMMA LeftOverStep == TypeOK /\ Bytes /\ LeftOver /\ [Next]_vars => LeftOver'
<1>. SUFFICES ASSUME TypeOK, Bytes, LeftOver, [Next]_vars PROVE LeftOver'
  OBVIOUS
<1>1. Registers /\ Flags
  BY DEF TypeOK
<1>2. ASSUME NEW len \in Packets, audio_data_rx(len) PROVE LeftOver'
  <2>1. /\ pc = "idle" /\ pc' = "push" /\ data' = len /\ (armed \/ leftover) /\ leftover' = FALSE
        /\ UNCHANGED <<consumed, produced, write_off, running, enabled, unmasked, armed>>
    BY <1>2 DEF audio_data_rx, producer, channel, irq, reader
  <2>2. ASSUME ~armed PROVE consumed = 0 /\ Position' = 0
    <3>1. consumed = 0 /\ produced' = 0 /\ write_off' = 0
      BY <2>1, <2>2 DEF LeftOver
    <3>. QED  BY <3>1, RingAssumption DEF Position
  <2>3. len \in Nat /\ len < (N \div 2) * SlotUnits
    BY RingAssumption, PacketAssumption
  <2>. QED  BY <2>1, <2>2, <2>3 DEF LeftOver, InCallback
<1>3. CASE CheckFull
  <2>1. /\ pc = "push" /\ pc' \in {"account", "copy"} /\ Position' = Position
        /\ UNCHANGED <<data, consumed, running, enabled, unmasked, armed, leftover>>
    BY <1>3 DEF CheckFull, producer, host, channel, irq, reader, Position
  <2>. QED  BY <2>1 DEF LeftOver, InCallback
<1>4. CASE Copy
  <2>1. /\ pc = "copy" /\ pc' \in {"publish", "push"}
        /\ data' = data - Chunk /\ Position' = produced * SlotUnits + (write_off + Chunk)
        /\ UNCHANGED <<consumed, running, enabled, unmasked, armed, leftover>>
    BY <1>4 DEF Copy, host, channel, irq, reader, Position
  <2>2. Chunk \in Int /\ data \in Int /\ write_off \in Int /\ produced * SlotUnits \in Int
    BY <1>1, PositionFacts, RingAssumption DEF Registers, Chunk
  <2>3. Position' + data' = Position + data
    BY <2>1, <2>2 DEF Position
  <2>. QED  BY <2>1, <2>3 DEF LeftOver, InCallback
<1>5. CASE Publish
  <2>1. /\ pc = "publish" /\ pc' = "push" /\ write_off = SlotUnits
        /\ produced' = Inc(produced, Wrap) /\ write_off' = 0
        /\ UNCHANGED <<data, consumed, running, enabled, unmasked, armed, leftover>>
    BY <1>5 DEF Publish, host, channel, irq, reader, Bytes
  <2>2. Position' <= Position
    <3>1. produced \in Nat /\ SlotUnits \in Nat /\ produced * SlotUnits \in Nat
      BY <1>1, PositionFacts, RingAssumption DEF Registers
    <3>2. CASE produced' = 0
      BY <2>1, <3>1, <3>2 DEF Position
    <3>3. CASE produced' = produced + 1
      BY <2>1, <3>1, <3>3 DEF Position
    <3>. QED  BY <2>1, <3>2, <3>3 DEF Inc
  <2>3. Position \in Int /\ Position' \in Int /\ data \in Int
    <3>1. produced' \in Int /\ SlotUnits \in Int
      BY <1>1, <2>1, RingAssumption DEF Registers, Inc
    <3>2. Position' \in Int
      BY <2>1, <3>1 DEF Position
    <3>. QED  BY <1>1, <3>2, PositionFacts DEF Registers
  <2>. QED  BY <2>1, <2>2, <2>3, HalfARing DEF LeftOver, InCallback
<1>6. CASE Account
  <2>1. /\ pc = "account" /\ pc' = "idle" /\ data' = 0 /\ Position' = Position
        /\ running' = (running \/ Warm) /\ enabled' = (enabled \/ Warm)
        /\ UNCHANGED <<consumed, unmasked, armed, leftover>>
    BY <1>6 DEF Account, host, irq, reader, Position
  <2>2. data \in Nat /\ Position \in Nat
    BY <1>1, PositionFacts DEF Registers
  <2>3. ASSUME ~armed PROVE consumed = 0 /\ Position + data < (N \div 2) * SlotUnits
    BY <2>1, <2>3 DEF LeftOver
  <2>4. ASSUME ~armed PROVE Position < (N \div 2) * SlotUnits
    BY <2>2, <2>3, <2>4, HalfARing
  <2>5. ASSUME ~armed PROVE ~running' /\ ~enabled' /\ ~unmasked'
    <3>1. ~Warm
      BY <1>1, <2>3, <2>4, <2>5, NotWarm
    <3>2. ~running /\ ~enabled /\ ~unmasked
      BY <2>5 DEF LeftOver
    <3>. QED  BY <2>1, <3>1, <3>2
  <2>6. ~leftover /\ ~InCallback'
    BY <2>1 DEF LeftOver, InCallback
  <2>7. ASSUME ~armed' PROVE consumed' = 0 /\ Position' + data' < (N \div 2) * SlotUnits
    BY <2>1, <2>2, <2>3, <2>4, <2>7
  <2>. QED  BY <2>1, <2>5, <2>6, <2>7 DEF LeftOver
<1>7. CASE feedback \/ LoadStart \/ ReadReg1 \/ ReadReg2 \/ Compare
  <2>1. /\ ~InCallback /\ ~InCallback' /\ pc # "stopping" /\ Position' = Position
        /\ UNCHANGED <<data, produced, write_off, consumed, running, enabled, unmasked,
                       armed, leftover>>
    BY <1>7 DEF feedback, LoadStart, ReadReg1, ReadReg2, Compare, producer, host, channel,
                irq, reader, Position, InCallback
  <2>. QED  BY <2>1 DEF LeftOver
<1>8. CASE Start
  BY <1>8 DEF Start, LeftOver, InCallback
<1>9. CASE Stop
  <2>1. /\ pc = "idle" /\ pc' = "stopping" /\ data' = data
        /\ ~armed' /\ ~running' /\ ~enabled' /\ ~unmasked'
    BY <1>9 DEF Stop
  <2>. QED  BY <2>1 DEF LeftOver, InCallback
<1>10. CASE Stopped
  <2>1. /\ pc = "stopping" /\ pc' = "idle" /\ consumed' = 0 /\ produced' = 0 /\ write_off' = 0
        /\ UNCHANGED <<data, running, enabled, unmasked, armed, leftover>>
    BY <1>10 DEF Stopped, reset_producer, Zero, host, channel, irq
  <2>2. Position' = 0 /\ data = 0
    BY <2>1, RingAssumption DEF Position, LeftOver, InCallback
  <2>. QED  BY <2>1, <2>2, HalfARing DEF LeftOver, InCallback
<1>11. CASE DMA0
  <2>1. /\ unmasked /\ Position' = Position
        /\ UNCHANGED <<pc, data, running, enabled, unmasked, armed, leftover>>
    BY <1>11 DEF DMA0, producer, task, host, channel, Position
  <2>2. armed
    BY <2>1 DEF LeftOver
  <2>. QED  BY <2>1, <2>2 DEF LeftOver, InCallback
<1>12. CASE Transfer \/ Reload \/ UNCHANGED vars
  <2>1. /\ Position' = Position
        /\ UNCHANGED <<pc, data, produced, write_off, consumed, running, enabled, unmasked,
                       armed, leftover>>
    BY <1>12 DEF Transfer, Reload, vars, producer, task, host, irq, channel, reader, Position
  <2>. QED  BY <2>1 DEF LeftOver, InCallback
<1>. QED
  BY <1>2, <1>3, <1>4, <1>5, <1>6, <1>7, <1>8, <1>9, <1>10, <1>11, <1>12 DEF Next, UsbTask

(* The DMA of a stopped stream stays off and its interrupt masked, for     *)
(* packets shorter than half the ring: the one delivered late never        *)
(* enables it.                                                             *)
THEOREM StaysOff == Spec => []OffWhileStopped
<1>1. TypeOK /\ Bytes /\ [Next]_vars => Bytes'
  BY BytesStep DEF TypeOK
<1>2. LeftOver => OffWhileStopped
  BY DEF LeftOver, OffWhileStopped
<1>. QED  BY BytesInit, LeftOverInit, LeftOverStep, TypeCorrect, <1>1, <1>2, PTL DEF Spec
=============================================================================
