SPECIFICATION Spec
CONSTANTS
  None = None
  t1 = t1
  t2 = t2
  t3 = t3
  x1 = x1
  x2 = x2
  x3 = x3
  Threads = {t1, t2, t3}
  Transfers = {x1, x2, x3}
  MaxDesc = 2
  Sharing = TRUE
  MaxFaults = 2
SYMMETRY Symmetric
INVARIANTS TypeOK SuccessIsExecuted NothingStranded BrokenNeedsMishap
