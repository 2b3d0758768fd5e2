CONSTANTS
  Thread = {t1, t2, t3}
  Word = 16
  MaxMs = 4
  Reader = {r1, r2}
  CAP = 3
  MaxKeys = 5
  MaxCodes = 3
  CPUs = 2
  Seconds = 3
  Minutes = 2
  MaxUpdates = 2
  MaxSections = 2
  CPU = {c1, c2}
  Value = {0, 1}
  MaxCommands = 3
  MaxErrors = 1
SPECIFICATION FairSpec
\* Nobody types, the debugger has no more commands, all processors have started.
CHECK_DEADLOCK FALSE
INVARIANTS BellsConsistent KeysInOrder TimeFollowsChip  
PROPERTIES ImplementsAlarms  EveryKeyRead InterruptsGoOn CommandsAnswered
