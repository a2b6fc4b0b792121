SPECIFICATION Spec
CONSTANTS
  Callers = {c1, c2}
  Ids = {i1, i2}
  MaxTasks = 2
  MaxQueue = 1
  MaxRetries = 2
  RateLimitThreshold = 2
  DoomMaxRetries = 0
  Errors <- MCFewErrors
  Configs = {"valid"}
  ReuseIds = FALSE
SYMMETRY MCSymmetry
INVARIANTS
  InFlightIsActive
  ActiveIsInFlight
  NoOrphanedCaller
