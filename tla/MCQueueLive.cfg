SPECIFICATION FairSpec
CONSTANTS
  MaxMsgs = 2
  Kinds = {"user", "interject", "goal", "drain"}
  Background = TRUE
  Rewinds = TRUE
  QueueOps = TRUE
INVARIANTS
  NotificationsDrained
PROPERTIES
  PromptAnswered
  InterjectionHandled
