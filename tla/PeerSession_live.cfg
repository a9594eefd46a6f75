SPECIFICATION FairSpec
CONSTANTS
  Transport = "TLS"
  AppMessages = {"APP"}
  WatchdogOn = {"client"}
  MaxSend = 1
  MaxWatchdog = 1
INVARIANTS
  ClosedMeansNoConnection
PROPERTIES
  EstablishedOrClosed
  DisconnectCompletes
  TeardownReachesPeer
