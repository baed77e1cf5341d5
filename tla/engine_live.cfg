SPECIFICATION FairSpec
CONSTANTS
  None = None
  t1 = t1
  t2 = t2
  x1 = x1
  x2 = x2
  x3 = x3
  Threads = {t1, t2}
  Transfers = {x1, x2}
  MaxDesc = 1
  MaxChunks = 2
  CounterMod = 16
  Msix = FALSE
  Signals = TRUE
  LateIdle = FALSE
  HwErrors = FALSE
PROPERTIES RequestReturns QueueDrains
CHECK_DEADLOCK FALSE
