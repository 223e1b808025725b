SPECIFICATION FairSpec
CONSTANTS
  Messages <- MCMessages
  HeadCap = 4
  PumpCap = 2
  MaxChunk = 3
INVARIANTS
  TypeOK
  BodyAccounted
  OwnUnitsInOrder
  Synced
PROPERTIES
  BodyEnds
CHECK_DEADLOCK FALSE
