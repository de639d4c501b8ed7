SPECIFICATION MCSpec
CONSTANTS
  Strategies = {s1, s2}
  MaxPosition = 1
  MaxSize = 1
  Equities <- EquityLevels
  Flows <- Deposits
  DrawdownNum = 1
  DrawdownDen = 3
  MaxRejections = 2
  AllowReduceOnly = TRUE
  NoValue = none
  MaxFlows = 2
  MaxEntries = 2
INVARIANTS
  TypeOK
  NoMissedDrawdown
  PeakIsReal
  HaltIsAnswered
  DeRiskingIsOpen
PROPERTIES
  ApprovalIsSound
  ResponseEnds
