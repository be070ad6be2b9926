CONSTANTS
  Callers = {c1, c2}
  Paths = {p1, p2}
  Lanes = 1
  MaxCalls <- MCMaxCalls
SPECIFICATION Spec
INVARIANT OwnCallback
CHECK_DEADLOCK FALSE
