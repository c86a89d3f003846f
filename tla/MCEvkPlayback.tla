---------------------------- MODULE MCEvkPlayback ----------------------------
EXTENDS EvkPlayback

(* Empty, one frame, and three, which do not always fit at the end.        *)
PacketLens == {0, 2, 6}
=============================================================================
