SPECIFICATION RgSpec
CONSTANTS
  Members = {"m1", "m2"}
  Partitions = {1}
  MaxKeys = 2
  MaxOffsetOf = 2
  MaxMoves = 2
INVARIANTS
  DroppedWorkRuns
