CONSTANTS
  g1 = g1
  g2 = g2
  Goroutines = {g1, g2}
  NoG = NoG
  Hidden = Hidden
  Sizes = {0, 2}
  Sources <- MCSources
  Offsets = {0, 1, 3}
  Widths = {2}
  Zero = 0
  Random = 3
SPECIFICATION FairSpec
INVARIANTS
  SafeAccess
  MoveIsMove
  PanicsAreKnown
PROPERTIES
  IsCell
  CallsReturn
CHECK_DEADLOCK FALSE
