CONSTANTS
  CPU = {c1, c2}
  Boot = c1
  MaxThreads = 1
SPECIFICATION FairSpec
PROPERTY BellsRing
CHECK_DEADLOCK FALSE
