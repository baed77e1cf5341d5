SPECIFICATION Spec
CONSTANTS
  t1 = t1
  t2 = t2
  Threads = {t1, t2}
  Words = 3
  BufferSize = 2
  Zero = Zero
  Offsets = {0}
  Faults = FALSE
SYMMETRY Symmetry
INVARIANTS TypeOK NoForeignData
PROPERTY RequestsAtomic
