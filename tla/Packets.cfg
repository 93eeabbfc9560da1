CONSTANTS
  Block = 3
  MaxBlock = 5
  Record = 7
  Drain = 5
  MaxPackets = 3
  Shapes <- MCShapes
  Points = {"p1", "p2"}
  Lengths = {"l1", "l2"}
  Texts = {"t1", "t2"}
  Unset = "unset"
  Chunks = {1, 7, 56, 64, 65}
  MaxLength = 200
SPECIFICATION PacketsSpec
INVARIANTS
  PacketsDoNotMix
  ResumesAtNextPacket
  CutOnlyAtNewlines
  SerialisedFormIdentifies
  DigestsPaddedMessage
PROPERTIES
  EveryPacketIsRead
  
CHECK_DEADLOCK FALSE
