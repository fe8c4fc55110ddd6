CONSTANTS
  g1 = g1
  g2 = g2
  NoG = NoG
  Ticker = ticker
  Goroutines = {g1, g2}
  Programs <- Everything
  MaxBuffers = 9
  MlockLimit = 5
SYMMETRY Symmetry
SPECIFICATION Spec
INVARIANTS
  Tracked
  SingleKey
  OldKeysGone
  ExitCovers
CHECK_DEADLOCK FALSE
