SPECIFICATION PlainSpec
CONSTANTS
  Threads = {t1}
  NoThread = none
  Keys = {k1}
  SameAttributes = TRUE
  BrokerEchoesKey = TRUE
  LateDelivery = FALSE
  MaxSlices = 2
  MaxCalls = 1
  MaxSweeps = 0
  MaxCrashes = 0
INVARIANTS
  AllLegsLinked
