SPECIFICATION FairSpec
CONSTANTS
  QueueWords = 10
  Depth = 8
  Wrap = 24
  Packets <- PacketLens
INVARIANTS
  TypeOK
  OutFillExact
PROPERTY
  PlaybackAdvances
