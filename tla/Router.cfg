SPECIFICATION MCSpec
CONSTANTS
  Threads = {t1, t2}
  NoThread = none
  Keys = {k1, k2}
  SameAttributes = TRUE
  BrokerEchoesKey = TRUE
  LateDelivery = FALSE
  MaxSlices = 1
  MaxCalls = 4
  MaxSweeps = 1
  MaxCrashes = 2
INVARIANTS
  TypeOK
  LedgerIsTrue
  NoDuplicateOrder
  NoOrphanOrder
  AnswerStands
  SendsAccountedFor
PROPERTIES
  SettledIsFinal
  CleanSweepIsClean
  ImplementsIntents
  LockIsReturned
