SPECIFICATION Spec
CONSTANTS
  Strategies = {s1}
  MaxPosition = 2
  MaxSize = 2
  Equities = {}
  Flows = {}
  DrawdownNum = 1
  DrawdownDen = 3
  MaxRejections = 2
  AllowReduceOnly = TRUE
  NoValue = none
  MaxFlows = 0
  MaxEntries = 2
PROPERTIES
  ReduceOnlyReduces
