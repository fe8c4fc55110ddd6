SPECIFICATION Spec
CONSTANTS
  PageSize = 2
  MaxInt = 15
  Delim = Delim
  Inputs <- MCInputs
  Sizes <- MCSizes
INVARIANTS
  ReturnsExpected
  NeverMisplaced
  NoLeak
  LayoutSound
PROPERTIES
  ReadReturns
