CONSTANTS
  g1 = g1
  g2 = g2
  NoG = NoG
  Ticker = ticker
  Goroutines = {g1, g2}
  Programs <- Fair
  MaxBuffers = 9
  MlockLimit = 20
SPECIFICATION FairSpec
INVARIANTS
  NoKeyViewLeak
  EnclaveFaithful
  SealAndOpenReturn
PROPERTIES
  CallsReturn
  RekeyGoesOn
CHECK_DEADLOCK FALSE
