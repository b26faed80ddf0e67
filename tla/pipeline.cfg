SPECIFICATION FairSpec
CONSTANTS
  NoOutput = NoOutput
  MaxAttempts = 2
  PermanentErrorRetry = FALSE
  MarkRead = TRUE
  UnreadOnly = TRUE
  HasAttachments = FALSE
  StableDate = TRUE
  CleanSummaries = {"clean"}
  MaxFaults = 2
  MaxCrashes = 1
  MaxEscapes = 0
  MaxCommands = 0
CHECK_DEADLOCK FALSE
INVARIANTS
  TypeOK
  CheckpointHasOutput
  RunningIsMine
PROPERTIES
  Settles
