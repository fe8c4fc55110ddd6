CONSTANTS
  g1 = g1
  g2 = g2
  NoG = NoG
  Goroutines = {g1, g2}
  PageSize = 1
  WriteSizes = {1, 5}
  ReadSizes = {0, 3}
  MaxBytes = 5
  MaxEpoch = 2
SYMMETRY Symmetry
SPECIFICATION Spec
INVARIANTS
  InOrder
  FlushReturnsData
