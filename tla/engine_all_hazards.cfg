SPECIFICATION Spec
CONSTANTS
  None = None
  t1 = t1
  t2 = t2
  x1 = x1
  x2 = x2
  x3 = x3
  Threads = {t1, t2}
  Transfers = {x1, x2}
  MaxDesc = 2
  MaxChunks = 1
  CounterMod = 16
  Msix = TRUE
  Signals = TRUE
  LateIdle = TRUE
  HwErrors = TRUE
SYMMETRY Symmetry
INVARIANTS TypeOK IrqNotLost CompletedExecuted
PROPERTIES ExecutedOnce ExecutedInOrder
CHECK_DEADLOCK FALSE
