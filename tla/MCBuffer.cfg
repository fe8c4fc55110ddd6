CONSTANTS
  g1 = g1
  g2 = g2
  NoG = NoG
  Goroutines = {g1, g2}
  UnlockedWriters = {g1}
SPECIFICATION FairSpec
INVARIANTS
  NoUseAfterFree
  ReleasedClean
  WritableAsAdvertised
  AccountedFor
  IInv
PROPERTIES
  FrozenDataIsStable
  DestroyReturns
