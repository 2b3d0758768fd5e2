CONSTANTS
  CPU = {c1, c2}
  Thread = {t1, t2, t3}
  Sem = {s}
  Mutex = {m1, m2}
  Idle = Idle
  NoThread = NoThread
  NoCPU = NoCPU
  NoRoom = NoRoom
  MaxUnits = 1
SPECIFICATION Spec
SYMMETRY Symmetry
INVARIANTS OneHome MutexAccounted NoUnitWithWaiters DestructedOnce
