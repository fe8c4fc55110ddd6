CONSTANTS
  int = int
  term = term
  a = a
  b = b
  NoHandler = NoHandler
  Callers = {a, b}
  Sigs = {int, term}
  Wanted <- IntOrAll
  MaxCalls = 2
  ListenCap = 2
SPECIFICATION FairSpec
INVARIANTS
  LastSubscribed
  HandlersKept
PROPERTIES
  SignalEndsProcess
  CatchSignalReturns
CHECK_DEADLOCK FALSE
