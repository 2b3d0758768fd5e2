CONSTANTS
  CPU = {c1, c2}
  Thread = {t1, t2, t3}
  Sem = {}
  Mutex = {m}
  Idle = Idle
  NoThread = NoThread
  NoCPU = NoCPU
  NoRoom = NoRoom
  MaxUnits = 1
SPECIFICATION FairSpec
PROPERTIES ImplementsThreads  
