------------------------------- MODULE DmaRing -------------------------------
(***************************************************************************)
(* The DMA example: the ring of slots of dma.rs, the USB task and the DMA  *)
(* interrupt of main.rs (examples/lpc55s28-evk-dma/src), and the DMA       *)
(* channel that reads the slots.                                           *)
(*                                                                         *)
(* The USB task is one thread; its callbacks are cut at their accesses to  *)
(* what interrupt and hardware share.  The interrupt preempts it anywhere, *)
(* any time after the hardware asked for it, and runs to its end.  The     *)
(* hardware moves at any time.  Sizes are in units, one DMA transfer each. *)
(***************************************************************************)
EXTENDS Integers, Sequences

CONSTANTS
  N,          \* slots of the ring
  SlotUnits,  \* slot_bytes / word_bytes; the channel counts to 1024, the code does not check
  Gap,        \* safety_gap
  Wrap,       \* counters are usize: 2^32
  Packets     \* lengths of the packets the host sends

ASSUME RingAssumption ==
  /\ N \in Nat /\ N >= 2
  /\ SlotUnits \in 1..1023
  /\ Gap \in Nat /\ 1 <= Gap /\ Gap < N
  /\ Wrap \in Nat /\ Wrap > N
  /\ Packets \subseteq Nat

(* The buffer of audio_data_rx takes 97 frames at full speed, 13 at high   *)
(* speed; half of the 8 slots hold 192.                                    *)
ASSUME PacketAssumption == \A len \in Packets : len < (N \div 2) * SlotUnits

VARIABLES
  write_slot, write_off,  \* producer
  produced, consumed,     \* slot counters
  produced_bytes,
  content,                \* what each slot holds
  running,                \* Audio.running
  pc, data, written,      \* USB task: where it is, rest of the packet, pushed
  start, reg_1, reg_2,    \* locals of consumed_bytes()
  armed,                  \* the stream's setting is 1
  leftover,               \* a packet of a stopped stream waits in the endpoint
  enabled, busy,          \* channel enabled; finishing a transfer
  hwSlot, hwLeft,         \* slot of the channel's descriptor, transfers left
  inta, unmasked,         \* interrupt flag, NVIC enable
  read_slot,              \* auxiliary: the slot that consumed stands for
  sync                    \* auxiliary: see below

producer == <<write_slot, write_off, produced, produced_bytes, content>>
task == <<running, pc, data, written, start, reg_1, reg_2>>
host == <<armed, leftover>>
channel == <<enabled, busy, hwSlot, hwLeft>>
irq == <<inta, unmasked>>
reader == <<consumed, read_slot, sync>>
vars == <<producer, task, host, channel, irq, reader>>

-----------------------------------------------------------------------------
(* A slot holds silence, part of a packet sequence, or the slot that was   *)
(* published under a number.                                               *)
Silence == -1
Partial == -2

(* The hardware's position against the interrupt's count of it: "even" if  *)
(* consumed and the pending interrupt account for every slot played,       *)
(* "ahead" if they count one slot too many (an interrupt left over from    *)
(* the stream before), "none" if slots were played that were not           *)
(* published, or not counted, and before the first start.                  *)
Syncs == {"even", "ahead", "none"}
Slip == IF sync = "ahead" THEN "even" ELSE "none"

Inc(x, m) == IF x + 1 = m THEN 0 ELSE x + 1
wrapping_sub(a, b) == IF a >= b THEN a - b ELSE a - b + Wrap
One(b) == IF b THEN 1 ELSE 0

fill_slots == wrapping_sub(produced, consumed)

(* Published slots that the hardware has not finished.                     *)
Unplayed == fill_slots - One(inta) + One(sync = "ahead")

-----------------------------------------------------------------------------

Init ==
  /\ write_slot = 0 /\ write_off = 0
  /\ produced = 0 /\ consumed = 0 /\ produced_bytes = 0
  /\ content = [i \in 0..N-1 |-> Silence]
  /\ running = FALSE
  /\ pc = "idle" /\ data = 0 /\ written = 0
  /\ start = 0 /\ reg_1 = 0 /\ reg_2 = 0
  /\ armed = FALSE /\ leftover = FALSE
  /\ enabled = FALSE /\ busy = FALSE
  /\ hwSlot = 0 /\ hwLeft = SlotUnits
  /\ inta = FALSE /\ unmasked = FALSE
  /\ read_slot = 0 /\ sync = "none"

(* ----- USB task: audio_data_rx and push -----                            *)

audio_data_rx(len) ==
  /\ pc = "idle" /\ (armed \/ leftover)
  /\ pc' = "push" /\ data' = len /\ written' = 0
  /\ leftover' = FALSE
  /\ UNCHANGED <<producer, running, start, reg_1, reg_2, armed, channel, irq, reader>>

(* Mutant: the gap is forgotten.                                           *)
FullToTheBrim == fill_slots >= N
is_full_for_producer == fill_slots >= N - Gap

CheckFull ==
  /\ pc = "push"
  /\ pc' = IF data = 0 \/ is_full_for_producer THEN "account" ELSE "copy"
  /\ UNCHANGED <<producer, running, data, written, start, reg_1, reg_2, host,
                 channel, irq, reader>>

(* Mutant: the slot's end is not looked at.                                *)
WholePacket == data
Chunk == IF data < SlotUnits - write_off THEN data ELSE SlotUnits - write_off

(* The copy goes on as long as pc = "copy".                                *)
Copy ==
  /\ pc = "copy"
  /\ content' = [content EXCEPT ![write_slot] = Partial]
  /\ write_off' = write_off + Chunk
  /\ written' = written + Chunk
  /\ data' = data - Chunk
  /\ pc' = IF write_off' = SlotUnits THEN "publish" ELSE "push"
  /\ UNCHANGED <<write_slot, produced, produced_bytes, running, start, reg_1, reg_2,
                 host, channel, irq, reader>>

Publish ==
  /\ pc = "publish"
  /\ produced' = Inc(produced, Wrap)
  /\ content' = [content EXCEPT ![write_slot] = produced]
  /\ write_slot' = Inc(write_slot, N)
  /\ write_off' = 0
  /\ pc' = "push"
  /\ UNCHANGED <<produced_bytes, running, data, written, start, reg_1, reg_2, host,
                 channel, irq, reader>>

(* The end of push, and of audio_data_rx: once half full, run() enables    *)
(* the channel.  Mutant: the bytes that were dropped are counted.              *)
CountAll == written + data
Counted == written
Warm == ~running /\ fill_slots >= N \div 2

Account ==
  /\ pc = "account"
  /\ produced_bytes' = (produced_bytes + Counted) % Wrap
  /\ running' = (running \/ Warm)
  /\ enabled' = (enabled \/ Warm)
  /\ pc' = "idle" /\ data' = 0 /\ written' = 0
  /\ UNCHANGED <<write_slot, write_off, produced, content, start, reg_1, reg_2,
                 host, busy, hwSlot, hwLeft, irq, reader>>

(* ----- USB task: feedback and consumed_bytes -----                       *)

feedback ==
  /\ pc = "idle" /\ armed /\ running
  /\ pc' = "load"
  /\ UNCHANGED <<producer, running, data, written, start, reg_1, reg_2, host,
                 channel, irq, reader>>

LoadStart ==
  /\ pc = "load"
  /\ pc' = "reg_1" /\ start' = consumed
  /\ UNCHANGED <<producer, running, data, written, reg_1, reg_2, host, channel,
                 irq, reader>>

(* XFERCOUNT holds the transfers left less one, 0x3ff when none is.        *)
Exhausted == 1023
xfercount == IF hwLeft = 0 THEN Exhausted ELSE hwLeft - 1

ReadReg1 ==
  /\ pc = "reg_1"
  /\ pc' = "reg_2" /\ reg_1' = xfercount
  /\ UNCHANGED <<producer, running, data, written, start, reg_2, host, channel,
                 irq, reader>>

ReadReg2 ==
  /\ pc = "reg_2"
  /\ pc' = "compare" /\ reg_2' = xfercount
  /\ UNCHANGED <<producer, running, data, written, start, reg_1, host, channel,
                 irq, reader>>

(* Mutant: consumed is not read again.                                     *)
RegistersAgree == reg_1 = reg_2
Consistent == start = consumed /\ reg_1 = reg_2

Compare ==
  /\ pc = "compare"
  /\ pc' = IF Consistent THEN "idle" ELSE "load"
  /\ start' = 0 /\ reg_1' = 0 /\ reg_2' = 0
  /\ UNCHANGED <<producer, running, data, written, host, channel, irq, reader>>

Remaining == IF reg_1 = Exhausted THEN 0 ELSE reg_1 + 1
consumed_bytes == (start * SlotUnits + SlotUnits - Remaining) % Wrap

(* ----- USB task: alternate_setting_changed -----                         *)

(* stop() and init() reset alike, in two functions.  Mutant of either: the *)
(* indices survive.                                                        *)
NoReset == UNCHANGED <<write_slot, write_off, produced, produced_bytes, consumed, read_slot>>
Zero ==
  /\ write_slot' = 0 /\ write_off' = 0
  /\ produced' = 0 /\ produced_bytes' = 0
  /\ consumed' = 0 /\ read_slot' = 0
reset_producer == Zero
reset_producer_init_only == Zero

(* start().  An interrupt flag of the stream before is still set.  The     *)
(* channel is idle and the interrupt masked until the end, so nobody sees  *)
(* the steps in between.                                                   *)
init_descriptors ==
  /\ content' = [i \in 0..N-1 |-> Silence]
  /\ reset_producer_init_only
init ==
  /\ init_descriptors
  /\ enabled' = FALSE /\ hwSlot' = 0 /\ hwLeft' = SlotUnits

Start ==
  /\ pc = "idle" /\ ~armed
  /\ armed' = TRUE
  /\ running' = FALSE
  /\ init
  /\ unmasked' = TRUE
  /\ sync' = IF inta THEN "ahead" ELSE "even"
  /\ UNCHANGED <<pc, data, written, start, reg_1, reg_2, leftover, busy, inta>>

(* stop(), for setting 0 of either direction and twice at a bus reset.     *)
Stop ==
  /\ pc = "idle"
  /\ armed' = FALSE
  /\ leftover' \in IF armed THEN BOOLEAN ELSE {leftover}
  /\ unmasked' = FALSE
  /\ running' = FALSE
  /\ enabled' = FALSE
  /\ busy' \in IF enabled THEN BOOLEAN ELSE {busy}
  /\ pc' = "stopping"
  /\ UNCHANGED <<producer, data, written, start, reg_1, reg_2, hwSlot, hwLeft,
                 inta, reader>>

Stopped ==
  /\ pc = "stopping" /\ ~busy
  /\ reset_producer
  /\ sync' = "none"
  /\ pc' = "idle"
  /\ UNCHANGED <<content, running, data, written, start, reg_1, reg_2, host,
                 channel, irq>>

(* ----- Interrupt and hardware -----                                      *)

(* advance_consumed(1): one slot however many have been played, none if    *)
(* that would pass the producer.                                           *)
advance_consumed ==
  IF consumed < produced
    THEN /\ consumed' = Inc(consumed, Wrap)
         /\ read_slot' = Inc(read_slot, N)
         /\ UNCHANGED sync
    ELSE /\ sync' = Slip
         /\ UNCHANGED <<consumed, read_slot>>

DMA0 ==
  /\ unmasked /\ inta
  /\ inta' = FALSE
  /\ advance_consumed
  /\ UNCHANGED <<producer, task, host, channel, unmasked>>

(* One transfer.  The last one of a slot raises the flag, which may still  *)
(* be up for the slot before.                                              *)
Transfer ==
  /\ enabled \/ busy
  /\ hwLeft > 0
  /\ hwLeft' = hwLeft - 1
  /\ busy' = FALSE
  /\ inta' = (inta \/ hwLeft = 1)
  /\ sync' = IF hwLeft = 1 /\ inta THEN Slip ELSE sync
  /\ UNCHANGED <<producer, task, host, enabled, hwSlot, unmasked, consumed, read_slot>>

(* The next descriptor of the circle, whatever its slot holds.             *)
Reload ==
  /\ hwLeft = 0
  /\ hwSlot' = Inc(hwSlot, N)
  /\ hwLeft' = SlotUnits
  /\ sync' = IF Unplayed = 0 THEN "none" ELSE sync
  /\ UNCHANGED <<producer, task, host, enabled, busy, irq, consumed, read_slot>>

UsbTask ==
  \/ \E len \in Packets : audio_data_rx(len)
  \/ CheckFull
  \/ Copy
  \/ Publish
  \/ Account
  \/ feedback
  \/ LoadStart
  \/ ReadReg1
  \/ ReadReg2
  \/ Compare
  \/ Start
  \/ Stop
  \/ Stopped

Next ==
  \/ UsbTask
  \/ DMA0
  \/ Transfer
  \/ Reload

Spec == Init /\ [][Next]_vars

-----------------------------------------------------------------------------
(* Properties                                                              *)

(* Every index is in its range and every register has its width.           *)
Flags ==
  /\ running \in BOOLEAN /\ armed \in BOOLEAN /\ leftover \in BOOLEAN
  /\ enabled \in BOOLEAN /\ busy \in BOOLEAN
  /\ inta \in BOOLEAN /\ unmasked \in BOOLEAN
Registers ==
  /\ write_slot \in 0..N-1 /\ write_off \in 0..SlotUnits
  /\ produced \in 0..Wrap-1 /\ consumed \in 0..Wrap-1 /\ produced_bytes \in 0..Wrap-1
  /\ content \in [0..N-1 -> Partial..Wrap-1]
  /\ pc \in {"idle", "push", "copy", "publish", "account", "load", "reg_1", "reg_2",
             "compare", "stopping"}
  /\ data \in Nat /\ written \in Nat
  /\ start \in 0..Wrap-1
  /\ reg_1 \in 0..SlotUnits \cup {Exhausted} /\ reg_2 \in 0..SlotUnits \cup {Exhausted}
  /\ hwSlot \in 0..N-1 /\ hwLeft \in 0..SlotUnits
  /\ read_slot \in 0..N-1 /\ sync \in Syncs
TypeOK == Flags /\ Registers

(* The producer never writes the slot the DMA reads ("so producer never    *)
(* overwrites a slot DMA may still read"), as long as the hardware has not *)
(* outrun it and no interrupt was lost: whatever the delay of the          *)
(* interrupt, and with one left over from the stream before.               *)
Exclusive ==
  pc = "copy" /\ (enabled \/ busy) /\ hwLeft > 0 /\ sync # "none"
    => write_slot # hwSlot

(* Between callbacks the byte counter and the slot counter speak of the    *)
(* same data, across overflows, dropped packets and wrap-around: feedback  *)
(* subtracts a position made of the one from the other.                    *)
BytesAgree ==
  pc \in {"idle", "load", "reg_1", "reg_2", "compare"}
    => produced_bytes = (produced * SlotUnits + write_off) % Wrap

(* What consumed_bytes() returns is less than two slots behind and at most *)
(* one ahead of the hardware, whatever happens between its four reads.     *)
Played ==
  ((consumed + One(inta)) * SlotUnits
     + (IF hwLeft = 0 THEN 0 ELSE SlotUnits - hwLeft)) % Wrap
ReadingNear ==
  pc = "compare" /\ Consistent /\ sync = "even"
    => \/ wrapping_sub(Played, consumed_bytes) < 2 * SlotUnits
       \/ wrapping_sub(consumed_bytes, Played) <= SlotUnits

(* A stopped stream's DMA channel stays off and its interrupt masked,      *)
(* whatever packet is delivered late.                                      *)
OffWhileStopped == ~armed => ~running /\ ~enabled /\ ~unmasked

(* The ring implements the queue: slots are played in order and once.      *)
PlaySlot == IF hwLeft = 0 THEN Inc(hwSlot, N) ELSE hwSlot

(* Slot numbers on the circle, from one turn below to one above.           *)
Around(k) == IF k >= N THEN k - N ELSE IF k < 0 THEN k + N ELSE k

Intact == sync # "none"
Waiting ==
  IF Intact THEN [i \in 1..Unplayed |-> content[Around(PlaySlot + i - 1)]] ELSE <<>>
Upcoming == IF Intact THEN produced ELSE 0

Queue ==
  INSTANCE SlotQueue WITH
    Capacity <- N, Ids <- Wrap, queue <- Waiting, next <- Upcoming, intact <- Intact
ImplementsQueue == Queue!Spec
=============================================================================
