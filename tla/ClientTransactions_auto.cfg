SPECIFICATION Spec
CONSTANTS
  t1 = t1
  t2 = t2
  t3 = t3
  NoTxn = NoTxn
  NoId = NoId
  Txn = {t1, t2, t3}
  IdMod = 8
  FirstHop = 1
  FirstEnd = 6
  Reseeds = {4}
  CallerHops = {0}
  CallerEnds = {0}
  Command <- OneCommand
  TimedCalls = {t1, t2}
  IoCalls = {t3}
  Rewrites = {7}
  MaxAnswers = 1
  MaxReconnect = 1
INVARIANTS
  TypeOK
  IndexComplete
  AnswerGoesHome
  OwnTimeout
