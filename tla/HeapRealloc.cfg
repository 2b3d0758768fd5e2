CONSTANTS
  HeapSize = 16
  MaxRequest = 6
  MaxLive = 3
SPECIFICATION HeapSpec
CHECK_DEADLOCK FALSE
INVARIANTS ReallocKeepsContents
