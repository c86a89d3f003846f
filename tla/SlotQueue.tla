------------------------------ MODULE SlotQueue ------------------------------
(***************************************************************************)
(* What the DMA ring of examples/lpc55s28-evk-dma/src/dma.rs promises: a   *)
(* bounded queue of slots.  Slots are played in the order in which they    *)
(* were published, each once.  The promise ends when the hardware outruns  *)
(* the producer or its interrupts are lost, and holds again from the next  *)
(* start of the stream.                                                    *)
(***************************************************************************)
EXTENDS Integers, Sequences

CONSTANTS
  Capacity,  \* number of slots
  Ids        \* slots are numbered modulo this

VARIABLES
  queue,   \* numbers of the slots published and not yet played
  next,    \* number of the next slot
  intact   \* the promise holds

slotVars == <<queue, next, intact>>

Init == queue = <<>> /\ next = 0 /\ intact = FALSE

Restart ==
  /\ queue' = <<>> /\ next' = 0
  /\ intact' = TRUE

Publish ==
  /\ intact /\ Len(queue) < Capacity
  /\ queue' = Append(queue, next)
  /\ next' = IF next + 1 = Ids THEN 0 ELSE next + 1
  /\ UNCHANGED intact

Play ==
  /\ intact /\ queue # <<>>
  /\ queue' = Tail(queue)
  /\ UNCHANGED <<next, intact>>

Break ==
  /\ queue' = <<>> /\ next' = 0
  /\ intact' = FALSE

Next ==
  \/ Restart
  \/ Publish
  \/ Play
  \/ Break

Spec == Init /\ [][Next]_slotVars
=============================================================================
