SPECIFICATION MCSpec
CONSTANTS
  Threads = {t1, t2, t3}
  NoThread = NoThread
  Cids = {c1, c2}
  MaxCacheSize = 1
  MaxRetries = 1
  TreatAckAsCancelled = FALSE
  SaysPendingCancel = FALSE
  MaxCalls = 4
INVARIANTS TypeOK ClaimsMatchDispatches AnswersAgree TerminalIsTrue
PROPERTIES AnsweredIsNotResent CallsReturn
