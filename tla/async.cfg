SPECIFICATION FairSpec
CONSTANTS
  i1 = i1
  i2 = i2
  r1 = r1
  r2 = r2
  a1 = a1
  a2 = a2
  Perf = Perf
  Iocbs = {i1}
  Readers = {r1, r2}
  Admins = {a1}
  Shapes <- MCShapes
  MaxList = 3
INVARIANTS TypeOK AioCompletedOnce PerfIoctlsSafe EventsNotLost
PROPERTY AioReturns
