--------------------------- MODULE MCEvkRecording ---------------------------
EXTENDS EvkRecording
=============================================================================
