SPECIFICATION Spec
CONSTANTS
  N = 4
  SlotUnits = 2
  Gap = 1
  Wrap = 12
  Packets <- PacketLens
INVARIANTS
  TypeOK
  Exclusive
  BytesAgree
  ReadingNear
  OffWhileStopped
PROPERTY
  ImplementsQueue
