SPECIFICATION Spec
CONSTANTS
  c1 = c1
  c2 = c2
  Conn = {c1, c2}
  MaxAcceptErrors = 0
  MaxCalls = 2
CHECK_DEADLOCK FALSE
INVARIANTS
  NoSessionOnceDown
