SPECIFICATION FairSpec
CONSTANTS
  c1 = c1
  c2 = c2
  Conn = {c1, c2}
  MaxAcceptErrors = 1
  MaxCalls = 3
CHECK_DEADLOCK FALSE
INVARIANTS
  TypeOK
  LiveIsTracked
  DeadIsForgotten
  OneClosedEvent
PROPERTIES
  EveryConnectionTaken
  CloseHolds
