SPECIFICATION FairSpec
CONSTANTS
  t1 = t1
  t2 = t2
  t3 = t3
  NoTxn = NoTxn
  NoId = NoId
  Txn = {t1, t2, t3}
  IdMod = 3
  FirstHop = 1
  FirstEnd = 1
  Reseeds = {}
  CallerHops = {0, 1}
  CallerEnds = {0, 1}
  Command <- TwoCommands
  TimedCalls = {t1}
  IoCalls = {t3}
  Rewrites = {1}
  MaxAnswers = 1
  MaxReconnect = 0
INVARIANTS
  IndexSound
  OneCompletion
PROPERTIES
  
  KeepsPromise
  NoneForgotten
