SPECIFICATION PlainSpec
SYMMETRY ThreadSymmetry
CONSTANTS
  Threads = {t1, t2}
  NoThread = none
  Keys = {k1, k2}
  SameAttributes = TRUE
  BrokerEchoesKey = FALSE
  LateDelivery = TRUE
  MaxSlices = 1
  MaxCalls = 2
  MaxSweeps = 1
  MaxCrashes = 1
INVARIANTS
  NoDoubleCredit
