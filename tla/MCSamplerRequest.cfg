SPECIFICATION FairSpec
CONSTANTS
  Callers = {c1}
  Ids = {i1}
  MaxTasks = 1
  MaxQueue = 2
  MaxRetries = 3
  RateLimitThreshold = 0
  DoomMaxRetries = 2
  Errors <- MCErrors
  Configs = {"valid", "broken"}
  ReuseIds = FALSE
INVARIANTS
  TypeOK
  AttemptsAccounted
  SendsBounded
  OneSendAfterCancel
PROPERTIES
  TerminalIsLast
  EveryRequestEnds
  CancelTakesEffect
  ShutdownCompletes
