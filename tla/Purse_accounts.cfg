SPECIFICATION Spec
CONSTANTS
  NumChildren = 2
  MaxPending = 2
  MaxSends = 3
  MaxDrops = 1
  MaxCrashes = 1
INVARIANTS TypeOK NeverUndercounted NonceUsedOnce NoNonceGapOneFault
PROPERTY SettlesEverything
CHECK_DEADLOCK FALSE
