CONSTANTS
  Seconds = 3
  Minutes = 2
  MaxUpdates = 2
  MaxSections = 1
SPECIFICATION ClockSpec
\* The clock stops at its bounds.
CHECK_DEADLOCK FALSE
INVARIANT AccessesItsField
