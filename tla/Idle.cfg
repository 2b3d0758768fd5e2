CONSTANTS
  CPU = {c1, c2}
  Boot = c1
  MaxThreads = 2
SPECIFICATION FairSpec
INVARIANTS NoLostWakeup
PROPERTY IdleNoticesWork
