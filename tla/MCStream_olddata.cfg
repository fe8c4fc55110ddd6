CONSTANTS
  g1 = g1
  g2 = g2
  NoG = NoG
  Goroutines = {g1}
  PageSize = 1
  WriteSizes = {5}
  ReadSizes = {3}
  MaxBytes = 5
  MaxEpoch = 2
SPECIFICATION Spec
INVARIANTS
  OldDataGone
