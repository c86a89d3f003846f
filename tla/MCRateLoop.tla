----------------------------- MODULE MCRateLoop -----------------------------
(***************************************************************************)
(* The examples on the buses they can keep up with, and the DMA example on *)
(* a full-speed bus.                                                       *)
(***************************************************************************)
EXTENDS RateLoop

HighSpeed == 8
FullSpeed == 1
GoodSetups == {Example("dma", HighSpeed), Example("evk", HighSpeed), Example("evk", FullSpeed)}
DmaFullSpeed == {Example("dma", FullSpeed)}

(* Both crystals at the edge of what a high-speed bus allows.              *)
BusDrifts == {-1000, -300, 0, 300, 1000}

(* In the warm-up, in the settled stream, never.                           *)
Never == 9999
Losses == {1, 40, 3000, Never}
NoLoss == {Never}
=============================================================================
