----------------------------- MODULE EvkPlayback -----------------------------
(***************************************************************************)
(* Playback in the interrupt example (examples/lpc55s28-evk/src/main.rs):  *)
(* the USB task queues packets, the I2S transmit interrupt moves frames    *)
(* from the queue to the peripheral's FIFO, the peripheral plays them.     *)
(*                                                                         *)
(* The USB task is cut at its accesses to what the interrupt shares.  The  *)
(* interrupt preempts it and runs to its end; the peripheral plays at any  *)
(* time.  Sizes are in words of 4 bytes.                                   *)
(***************************************************************************)
EXTENDS Integers

CONSTANTS
  QueueWords,  \* QUEUE_BYTES
  Depth,       \* words in the peripheral's FIFO
  Wrap,        \* counters are u32
  Packets      \* lengths of the packets the host sends: whole frames

FRAME == 2

ASSUME PlaybackAssumption ==
  /\ QueueWords \in Nat /\ QueueWords % FRAME = 0
  /\ Depth \in Nat /\ Depth >= FRAME
  /\ Wrap \in Nat /\ Wrap % FRAME = 0 /\ Wrap > 2 * QueueWords
  /\ \A n \in Packets : n \in 0..QueueWords /\ n % FRAME = 0

VARIABLES
  queue,               \* QUEUE_AUDIO_OUT
  produced, consumed,  \* PRODUCED_OUT, CONSUMED_OUT
  pc, len, grant,      \* USB task: where it is, packet, its place in the queue
  loaded,              \* PRODUCED_OUT as feedback() loaded it
  armed,               \* the stream's setting is 1: interrupt unmasked
  leftover,            \* a packet of the stopped stream waits in the endpoint
  isr,                 \* the interrupt handler runs
  fifo                 \* words in the FIFO

task == <<pc, len, grant, loaded, armed, leftover>>
vars == <<queue, produced, consumed, task, isr, fifo>>

INSTANCE BipQueue WITH Capacity <- QueueWords

wrapping_sub(a, b) == (a - b) % Wrap
AsSigned(n) == IF n < Wrap \div 2 THEN n ELSE n - Wrap

Init ==
  /\ queue = EmptyQueue
  /\ produced = 0 /\ consumed = 0
  /\ pc = "idle" /\ len = 0 /\ grant = 0 /\ loaded = 0
  /\ armed = FALSE /\ leftover = FALSE
  /\ isr = FALSE /\ fifo = 0

-----------------------------------------------------------------------------
(* USB task: runs while the interrupt handler does not.                    *)

(* audio_data_rx: all of the packet finds a place, or none.                *)
audio_data_rx(n) ==
  /\ pc = "idle" /\ ~isr /\ (armed \/ leftover)
  /\ leftover' = FALSE
  /\ IF grant_exact(queue, n) = NoRoom
       THEN UNCHANGED <<pc, len, grant>>
       ELSE pc' = "granted" /\ len' = n /\ grant' = grant_exact(queue, n)
  /\ UNCHANGED <<queue, produced, consumed, loaded, armed, isr, fifo>>

Commit ==
  /\ pc = "granted" /\ ~isr
  /\ pc' = "committed"
  /\ queue' = commit(queue, grant, len, len)
  /\ UNCHANGED <<produced, consumed, len, grant, loaded, armed, leftover, isr, fifo>>

(* Mutant: packets are counted, not bytes.                                 *)
OnePacket == 1
Added == len

Count ==
  /\ pc = "committed" /\ ~isr
  /\ pc' = "idle" /\ len' = 0 /\ grant' = 0
  /\ produced' = (produced + Added) % Wrap
  /\ UNCHANGED <<queue, consumed, loaded, armed, leftover, isr, fifo>>

(* feedback: two loads, the second of a counter the interrupt moves.       *)
LoadProduced ==
  /\ pc = "idle" /\ ~isr /\ armed
  /\ pc' = "loaded" /\ loaded' = produced
  /\ UNCHANGED <<queue, produced, consumed, len, grant, armed, leftover, isr, fifo>>

fill == AsSigned(wrapping_sub(loaded, consumed)) \div FRAME
LoadConsumed ==
  /\ pc = "loaded" /\ ~isr
  /\ pc' = "idle" /\ loaded' = 0
  /\ UNCHANGED <<queue, produced, consumed, len, grant, armed, leftover, isr, fifo>>

(* The FIFO is emptied, the queue is not.                                  *)
start_audio_out ==
  /\ pc = "idle" /\ ~isr /\ ~armed
  /\ armed' = TRUE
  /\ fifo' = 0
  /\ UNCHANGED <<queue, produced, consumed, pc, len, grant, loaded, leftover, isr>>

stop_audio_out ==
  /\ pc = "idle" /\ ~isr /\ armed
  /\ armed' = FALSE
  /\ leftover' \in BOOLEAN
  /\ UNCHANGED <<queue, produced, consumed, pc, len, grant, loaded, isr, fifo>>

-----------------------------------------------------------------------------
(* FLEXCOMM7, asked for by the FIFO's level, and the peripheral.           *)

(* Mutant: one word more, and two do not fit.                              *)
LowByOne == fifo <= Depth - FRAME + 1
Low == fifo <= Depth - FRAME

Interrupt ==
  /\ armed /\ ~isr /\ Low
  /\ isr' = TRUE
  /\ UNCHANGED <<queue, produced, consumed, task, fifo>>

(* try_consume_one_frame.  Mutant: a last frame is not enough.             *)
MoreThanAFrame == Readable(AtFront(queue)) > FRAME
FrameReady == Readable(AtFront(queue)) >= FRAME

ConsumeFrame ==
  /\ isr /\ Low /\ FrameReady
  /\ queue' = release(AtFront(queue), FRAME)
  /\ consumed' = (consumed + FRAME) % Wrap
  /\ fifo' = fifo + FRAME
  /\ UNCHANGED <<produced, task, isr>>

Silence ==
  /\ isr /\ Low /\ ~FrameReady
  /\ queue' = AtFront(queue)
  /\ fifo' = fifo + FRAME
  /\ isr' = FALSE
  /\ UNCHANGED <<produced, consumed, task>>

Return ==
  /\ isr /\ ~Low
  /\ isr' = FALSE
  /\ UNCHANGED <<queue, produced, consumed, task, fifo>>

Play ==
  /\ fifo > 0
  /\ fifo' = fifo - 1
  /\ UNCHANGED <<queue, produced, consumed, task, isr>>

UsbTask ==
  \/ \E n \in Packets : audio_data_rx(n)
  \/ Commit
  \/ Count
  \/ LoadProduced
  \/ LoadConsumed
  \/ start_audio_out
  \/ stop_audio_out

FLEXCOMM7 ==
  \/ Interrupt
  \/ ConsumeFrame
  \/ Silence
  \/ Return

Next ==
  \/ UsbTask
  \/ FLEXCOMM7
  \/ Play

Spec == Init /\ [][Next]_vars

(* An interrupt that is asked for is taken, its handler goes on, and the   *)
(* sample clock never stops.                                               *)
FairSpec == Spec /\ WF_vars(FLEXCOMM7) /\ WF_vars(Play)

-----------------------------------------------------------------------------
(* Properties                                                              *)

(* Types; in particular, the handler never writes to a full FIFO.          *)
Flags ==
  /\ armed \in BOOLEAN /\ leftover \in BOOLEAN /\ isr \in BOOLEAN

Registers ==
  /\ queue \in Queues
  /\ produced \in 0..Wrap-1 /\ consumed \in 0..Wrap-1 /\ loaded \in 0..Wrap-1
  /\ pc \in {"idle", "granted", "committed", "loaded"}
  /\ len \in 0..QueueWords /\ grant \in 0..QueueWords
  /\ fifo \in 0..Depth

TypeOK == Flags /\ Registers

(* "Used for feedback calculation of current fifo state": while feedback() *)
(* is between its loads, and so at the second, the level it works out is   *)
(* the queue's, whatever was dropped, preempted, wrapped or left over from *)
(* an earlier stream.                                                      *)
OutFillExact == pc = "loaded" => fill * FRAME = Length(queue)

(* While the stream runs a queue that holds anything is drained further:   *)
(* no frame is stuck at the end of the ring.                               *)
PlaybackAdvances ==
  \A c \in 0..Wrap-1 :
    armed /\ consumed = c /\ Length(queue) > 0 ~> ~armed \/ consumed # c
=============================================================================
