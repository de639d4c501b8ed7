SPECIFICATION SuiteSpec
CONSTANTS
  ResendBufferSize = 2
  AutoResendOnGap = TRUE
  MaxFills = 3
  MaxVenueAdmin = 1
  MaxOrders = 3
  MaxConnects = 2
  Symbols = {"a"}
  TickWorkers = {1, 2}
  Partition <- OnePartition
  QueueSize = 2
  MaxPendingHandoffs = 1
  NoTick = NoTick
  ShutDown = ShutDown
  MaxTicks = 3
  MaxStarts = 2
  Callers = {1, 2, 3}
  FailureThreshold = 2
  RecoveryTimeout = 1
  MaxRecoveryTimeout = 3
  BackoffMultiplier = 2
  HalfOpenMaxCalls = 2
  SuccessThreshold = 2
  FailureWindow = 1
  SlowCall = 1
  MaxCbClock = 5
  MaxCbCalls = 5
  MaxOverrides = 1
  Requests = {1, 2}
  Execs = {1, 2, 3}
  Drift = 1
  FutureDrift = 1
  Retention = 3
  MaxTracked = 2
  MaxStall = 1
  Skews <- ClockSkews
  MaxWhClock = 4
  MaxDeliveries = 3
  Users = {u1, u2}
  MaxAttempts = 2
  BodyClassifier = TRUE
  DeadUnder200 = TRUE
  MaxLogins = 4
  MaxUses = 4
  IngressIsJoined = TRUE
  MaxOffset = 4
  MaxSignals = 2
  MaxFailures = 2
  MaxLives = 3
  Feeds = {f1, f2}
  HasGapFill = TRUE
  MaxGapFill = 1
  MaxSeqId = 3
  MaxDrops = 1
  MaxFrames = 5
  FoThreads = {1, 2}
  MaxConsecutiveFailures = 1
  HalfOpenMaxProbes = 1
  HalfOpenSuccessesToClose = 1
  Holdings <- HeldAtPrimary
  MaxFoOrders = 3
  MaxFoManual = 1
  Rotators = {a1, a2}
  Signers = {s1}
  FreshKeys = TRUE
  MaxCredentials = 4
  Members = {"m1", "m2"}
  Partitions = {1, 2}
  MaxKeys = 2
  MaxOffsetOf = 2
  MaxMoves = 3
INVARIANTS
  SuiteTypeOK
  FixFillsOnce
  FixResendIsFaithful
  TickConservation
  TickOrder
  TickDrainLosesNothing
  CbProbesCounted
  WebhookAppliedOnce
  TokenVerdictsAreTrue
  ShutdownLosesNothing
  BookIsWhole
  FailoverIsSafe
  SecretsAreTracked
  RebalanceIsSafe
PROPERTIES
  CbCloseIsEarned
