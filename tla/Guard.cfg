CONSTANTS
  CPU = {c1, c2}
  Gate = {g1, g2}
  NoGate = NoGate
  MaxIrqs = 2
SPECIFICATION FairSpec
INVARIANTS EpiloguesExclusive OnePlace NoneLeftBehind NoRequestLost
PROPERTIES EveryRequestServed KernelIsLeft
