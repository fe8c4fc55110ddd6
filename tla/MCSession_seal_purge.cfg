CONSTANTS
  g1 = g1
  g2 = g2
  NoG = NoG
  Ticker = ticker
  Goroutines = {g1, g2}
  Programs <- SealPurge
  MaxBuffers = 9
  MlockLimit = 20
SPECIFICATION Spec
INVARIANTS
  NoDeadlock
CHECK_DEADLOCK FALSE
