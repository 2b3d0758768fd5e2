CONSTANTS
  Thread = {t1, t2}
  Word = 16
  MaxMs = 2
SPECIFICATION BellSpec
INVARIANT BellsExist
CHECK_DEADLOCK FALSE
