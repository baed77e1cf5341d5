SPECIFICATION FairSpec
CONSTANTS
  Pages = 3
  Credits = 2
  MaxBlocks = 4
INVARIANTS TypeOK StreamIntact FreedWhenStopped
PROPERTIES ReadReturnsPacket CallsReturn
CHECK_DEADLOCK FALSE
