SPECIFICATION Spec
CONSTANTS
  Transport = "TCP"
  AppMessages = {"APP", "BAD"}
  WatchdogOn = {"client"}
  MaxSend = 2
  MaxWatchdog = 2
INVARIANTS
  TypeOK
  ServerOpensFirst
  CeaFirst
  QuietAfterDPR
  DisconnectPending
  ForceCloseHolds
PROPERTIES
  KeepsSession
