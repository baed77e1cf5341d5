SPECIFICATION Spec
CONSTANTS
  PageSize = 4
  TransferMax = 12
  DescMax = 9
  MaxExtraAdj = 2
  DescsPerPage = 4
  RingPages = 6
  PollMode = FALSE
  Starts <- MCStarts
  Counts <- MCCounts
  Positions <- MCPositions
  PageTables <- MCPageTables
  AlignRegisters <- MCAlignRegisters
  MaxRingMoves = 14
INVARIANTS TypeOK Delivered DescriptorsFit FetchInPage PinsBalanced
