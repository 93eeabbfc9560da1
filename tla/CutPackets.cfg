CONSTANTS
  Block = 3
  MaxBlock = 5
  Record = 7
  Drain = 5
  MaxPackets = 3
  Shapes <- MCShapes
SPECIFICATION Spec
INVARIANTS
  EveryPieceIsAPacket
CHECK_DEADLOCK FALSE
