SPECIFICATION Spec
CONSTANTS
  Threads = {t1}
  NoThread = NoThread
  Cids = {c1}
  MaxCacheSize = 1
  MaxRetries = 1
  TreatAckAsCancelled = FALSE
  SaysPendingCancel = TRUE
  MaxCalls = 1

INVARIANTS TerminalIsTrue
