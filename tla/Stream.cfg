CONSTANTS
  Ring = 7
  ReadMax = 3
  MaxBody = 3
  MaxSeq = 3
  Byte <- MCByte
  Flen <- MCFlen
  Frame <- MCFrame
  MaxSent = 3
  MaxTrouble = 2
SPECIFICATION FairSpec
INVARIANTS TypeOK ReadIsOwn RoomInRing InOrder
PROPERTY Delivered
