SPECIFICATION FairSpec
CONSTANTS
  t1 = t1
  t2 = t2
  t3 = t3
  p1 = p1
  p2 = p2
  NoTxn = NoTxn
  NoId = NoId
  NoPeer = NoPeer
  Txn = {t1, t2, t3}
  Peers = {p1, p2}
  IdMod = 6
  FirstHop <- OneApart
  FirstEnd = 5
  CallerHops <- OneChosen
  CallerEnds = {0}
  Command <- TwoCommands
  TimedCalls = {t1}
  IoCalls = {t3}
  Rewrites = {2}
  MaxAnswers = 1
CHECK_DEADLOCK FALSE
INVARIANTS
  TypeOK
  IndexSound
  SameLegGoesHome
PROPERTIES
  KeepsPromise
  NoneForgotten
