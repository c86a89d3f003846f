------------------------------ MODULE MCDmaRing ------------------------------
EXTENDS DmaRing

PacketLens == {1, 3}
=============================================================================
