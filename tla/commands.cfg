SPECIFICATION Spec
CONSTANTS
  NoOutput = NoOutput
  MaxAttempts = 2
  PermanentErrorRetry = FALSE
  MarkRead = TRUE
  UnreadOnly = TRUE
  HasAttachments = FALSE
  StableDate = TRUE
  CleanSummaries = {"clean"}
  MaxFaults = 1
  MaxCrashes = 1
  MaxEscapes = 0
  MaxCommands = 2
CHECK_DEADLOCK FALSE
INVARIANTS
  DatedConflictIsOwn
  NothingUnearned
PROPERTIES
  StoredIsFinal
  KeepsPromise
  ConfirmedSkipsAnalysis
