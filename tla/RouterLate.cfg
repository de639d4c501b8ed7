SPECIFICATION PlainSpec
CONSTANTS
  Threads = {t1}
  NoThread = none
  Keys = {k1}
  SameAttributes = TRUE
  BrokerEchoesKey = TRUE
  LateDelivery = TRUE
  MaxSlices = 1
  MaxCalls = 2
  MaxSweeps = 0
  MaxCrashes = 0
INVARIANTS
  NoDuplicateOrder
