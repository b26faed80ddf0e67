SPECIFICATION Spec
CONSTANTS
  NoOutput = NoOutput
  MaxAttempts = 2
  PermanentErrorRetry = FALSE
  MarkRead = TRUE
  UnreadOnly = TRUE
  HasAttachments = TRUE
  StableDate = TRUE
  CleanSummaries = {"clean"}
  MaxFaults = 2
  MaxCrashes = 0
  MaxEscapes = 1
  MaxCommands = 0
CHECK_DEADLOCK FALSE
INVARIANTS
  CompletedIsDelivered
PROPERTIES
  FlagFollowsRecord
