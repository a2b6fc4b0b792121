SPECIFICATION Spec
CONSTANTS
  MaxMsgs = 3
  Kinds = {"user", "wake", "plan"}
  Background = TRUE
  Rewinds = TRUE
  QueueOps = TRUE
INVARIANTS
  OneTurnOutsideCancel
  FrontIsRunning
  NoPromptLost
  WakeNotForgotten
  RunsOnce
  TerminalExact
PROPERTIES
  SettledOnce
