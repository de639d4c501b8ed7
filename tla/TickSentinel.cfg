SPECIFICATION TickSpec
CONSTANTS
  Symbols = {"a"}
  TickWorkers = {1, 2}
  Partition <- OnePartition
  QueueSize = 2
  MaxPendingHandoffs = 1
  NoTick = NoTick
  ShutDown = ShutDown
  MaxTicks = 1
  MaxStarts = 2
INVARIANT TickOneConsumer
