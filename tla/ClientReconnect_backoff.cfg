SPECIFICATION Spec
CONSTANTS
  Initial = 1
  Max = 4
  MaxPeers = 5
  MaxConnects = 1
CHECK_DEADLOCK FALSE
INVARIANTS
  Backoff
