CONSTANTS
  CPU = {c1, c2, c3}
  Modulus = 4
SPECIFICATION FairSpec
INVARIANTS TicketsConsecutive
PROPERTIES ImplementsFifoLock StarvationFree
