CONSTANTS
  CPU = {c1, c2}
  Thread = {t1, t2}
  Sem = {s}
  Mutex = {m}
  Idle = Idle
  NoThread = NoThread
  NoCPU = NoCPU
  NoRoom = NoRoom
  MaxUnits = 1
SPECIFICATION FairSpec
PROPERTY KillEnds
