SPECIFICATION Spec
CONSTANTS
  HighBit = 1000
  Plans <- Conversations
  Client <- ThisClient
  Server <- ThisServer
  PartWords = 6
  SocketWords = 16
  MaxRequests = 4
CHECK_DEADLOCK FALSE
INVARIANTS
  WritesAreWhole
