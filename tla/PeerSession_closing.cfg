SPECIFICATION Spec
CONSTANTS
  Transport = "TCP"
  AppMessages = {"APP"}
  WatchdogOn = {}
  MaxSend = 0
  MaxWatchdog = 0
PROPERTIES
  CloseIsFinal
