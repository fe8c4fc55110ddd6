CONSTANTS
  int = int
  term = term
  a = a
  b = b
  NoHandler = NoHandler
  Callers = {a}
  Sigs = {int, term}
  Wanted <- All
  MaxCalls = 1
  ListenCap = 4
SPECIFICATION Spec
INVARIANTS
  HandlerIsThere
CHECK_DEADLOCK FALSE
