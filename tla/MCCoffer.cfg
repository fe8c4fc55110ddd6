CONSTANTS
  Val <- MCVal
  Zero = 0
  Nil = Nil
  Freed = Freed
  Xor <- MCXor
  Hash <- MCHash
  EmptyHash = 0
  g1 = g1
  g2 = g2
  Goroutines = {g1, g2}
  Ticker = ticker
  NoG = NoG
SPECIFICATION FairSpec
INVARIANTS
  StepInv
  ValuePreserved
  ViewIsValue
  ExpiredIsAnError
  PurgeIsFinal
PROPERTIES
  TickerStops
CHECK_DEADLOCK FALSE
