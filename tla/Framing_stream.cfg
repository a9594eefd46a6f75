SPECIFICATION FairSpec
CONSTANTS
  HighBit = 1000
  Plans <- Conversations
  Client <- ThisClient
  Server <- ThisServer
  PartWords = 12
  SocketWords = 16
  MaxRequests = 4
CHECK_DEADLOCK FALSE
INVARIANTS
  TypeOK
  WholeMessages
  AvpsReadBack
  AnswersCorrelate
PROPERTIES
  EveryRequestAnswered
