SPECIFICATION Spec
CONSTANTS
  d1 = d1
  d2 = d2
  f1 = f1
  None = None
  Dangling = Dangling
  Devices = {d1, d2}
  Files = {f1}
  Slots = 2
  Boards <- MCBoards
  Unplug = TRUE
INVARIANTS TypeOK UnwindLeaves SlotsExclusive NodesReachOwnDevice UsersFindDevice
