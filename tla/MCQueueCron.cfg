SPECIFICATION Spec
CONSTANTS
  MaxMsgs = 4
  Kinds = {"user", "cron", "wake"}
  Background = TRUE
  Rewinds = TRUE
  QueueOps = FALSE
INVARIANTS
  NoPromptLost
