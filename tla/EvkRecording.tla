---------------------------- MODULE EvkRecording ----------------------------
(***************************************************************************)
(* Recording in the interrupt example (examples/lpc55s28-evk/src/main.rs): *)
(* the I2S receive interrupt moves frames from the peripheral's FIFO into  *)
(* a queue, the USB task sends them, one more or one fewer than nominal    *)
(* depending on the level it works out.                                    *)
(*                                                                         *)
(* The grain is that of EvkPlayback.  The queue and PRODUCED_IN are in     *)
(* bytes, CONSUMED_IN is in frames, the FIFO in words.                     *)
(***************************************************************************)
EXTENDS Integers

CONSTANTS
  QueueBytes,          \* QUEUE_BYTES
  Depth,               \* words in the peripheral's FIFO
  Wrap,                \* counters are u32
  NOMINAL_SAMPLES,     \* frames in a packet
  DRAINING, FILLING    \* levels, in frames

VARIABLES
  queue,               \* QUEUE_AUDIO_IN
  produced, consumed,  \* PRODUCED_IN, CONSUMED_IN
  pc, loaded,          \* USB task: where it is, PRODUCED_IN as loaded
  samples, written,    \* frames to send and gathered
  taken,               \* frames released and not counted yet
  isr,                 \* the interrupt handler runs
  fifo,                \* words in the FIFO
  armed,               \* the peripheral and its interrupt are enabled
  level                \* auxiliary: frames in the queue at that load

task == <<pc, loaded, samples, written, taken, level>>
vars == <<queue, produced, consumed, task, isr, fifo, armed>>

INSTANCE BipQueue WITH Capacity <- QueueBytes

FRAME == 8   \* BYTES_PER_FRAME
WORDS == 2   \* of the FIFO, in a frame
AsSigned(n) == IF n < Wrap \div 2 THEN n ELSE n - Wrap
Div(a, b) == IF a < 0 THEN -((-a) \div b) ELSE a \div b

Init ==
  /\ queue = EmptyQueue
  /\ produced = 0 /\ consumed = 0
  /\ pc = "idle" /\ loaded = 0
  /\ samples = NOMINAL_SAMPLES /\ written = 0 /\ taken = 0
  /\ isr = FALSE /\ fifo = 0 /\ armed = FALSE
  /\ level = 0

-----------------------------------------------------------------------------
(* USB task.                                                               *)

start_audio_in ==
  /\ pc = "idle" /\ ~isr /\ ~armed
  /\ armed' = TRUE
  /\ fifo' = 0
  /\ UNCHANGED <<queue, produced, consumed, task, isr>>

stop_audio_in ==
  /\ pc = "idle" /\ ~isr /\ armed
  /\ armed' = FALSE
  /\ UNCHANGED <<queue, produced, consumed, task, isr, fifo>>

(* audio_data_tx, for a completion or at a change of the setting.          *)
LoadProduced ==
  /\ pc = "idle" /\ ~isr
  /\ pc' = "loaded" /\ loaded' = produced
  /\ level' = Length(queue) \div FRAME
  /\ UNCHANGED <<queue, produced, consumed, samples, written, taken, isr, fifo, armed>>

fill == Div(AsSigned((loaded - consumed) % Wrap), FRAME)
Decide(frames) ==
  IF frames < DRAINING THEN NOMINAL_SAMPLES - 1
  ELSE IF frames > FILLING THEN NOMINAL_SAMPLES + 1
  ELSE NOMINAL_SAMPLES

LoadConsumed ==
  /\ pc = "loaded" /\ ~isr
  /\ pc' = "gather" /\ loaded' = 0
  /\ samples' = Decide(fill) /\ written' = 0
  /\ UNCHANGED <<queue, produced, consumed, taken, level, isr, fifo, armed>>

Least(a, b) == IF a < b THEN a ELSE b
Available == Readable(AtFront(queue)) \div FRAME
to_copy == Least(samples - written, Available)

Gather ==
  /\ pc = "gather" /\ ~isr
  /\ IF to_copy > 0
       THEN /\ queue' = release(AtFront(queue), to_copy * FRAME)
            /\ written' = written + to_copy /\ taken' = to_copy
            /\ pc' = "count"
       ELSE /\ queue' = (IF written < samples THEN AtFront(queue) ELSE queue)
            /\ pc' = "idle" /\ UNCHANGED <<written, taken>>
  /\ UNCHANGED <<produced, consumed, loaded, samples, level, isr, fifo, armed>>

(* CONSUMED_IN.fetch_add(to_copy): frames.                                 *)
Count ==
  /\ pc = "count" /\ ~isr
  /\ pc' = "gather" /\ taken' = 0
  /\ consumed' = (consumed + taken) % Wrap
  /\ UNCHANGED <<queue, produced, loaded, samples, written, level, isr, fifo, armed>>

-----------------------------------------------------------------------------
(* FLEXCOMM6, asked for by the FIFO's level, and the peripheral.           *)

Interrupt ==
  /\ armed /\ ~isr /\ fifo >= WORDS
  /\ isr' = TRUE
  /\ UNCHANGED <<queue, produced, consumed, task, fifo, armed>>

(* try_produce_one_frame: two words make a frame of bytes.  The commit of  *)
(* two frames is cut to the grant.                                         *)
Place == grant_exact(queue, FRAME)

ProduceFrame ==
  /\ isr /\ fifo >= WORDS /\ Place # NoRoom
  /\ queue' = commit(queue, Place, FRAME, 2 * FRAME)
  /\ produced' = (produced + FRAME) % Wrap
  /\ fifo' = fifo - WORDS
  /\ UNCHANGED <<consumed, task, isr, armed>>

Discard ==
  /\ isr /\ fifo >= WORDS /\ Place = NoRoom
  /\ fifo' = fifo - WORDS
  /\ isr' = FALSE
  /\ UNCHANGED <<queue, produced, consumed, task, armed>>

Return ==
  /\ isr /\ fifo < WORDS
  /\ isr' = FALSE
  /\ UNCHANGED <<queue, produced, consumed, task, fifo, armed>>

Capture ==
  /\ armed /\ fifo < Depth
  /\ fifo' = fifo + 1
  /\ UNCHANGED <<queue, produced, consumed, task, isr, armed>>

UsbTask ==
  \/ start_audio_in
  \/ stop_audio_in
  \/ LoadProduced
  \/ LoadConsumed
  \/ Gather
  \/ Count

FLEXCOMM6 ==
  \/ Interrupt
  \/ ProduceFrame
  \/ Discard
  \/ Return

Next ==
  \/ UsbTask
  \/ FLEXCOMM6
  \/ Capture

Spec == Init /\ [][Next]_vars

-----------------------------------------------------------------------------
(* Properties                                                              *)

(* "Decide how many samples to write based on fill, this is how we deal    *)
(* with clock slippage": the packet is long or short as the queue's own    *)
(* level called for when the first counter was loaded.                     *)
SlippageFollowsFill == pc = "gather" => samples = Decide(level)
=============================================================================
