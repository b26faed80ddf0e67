SPECIFICATION Spec
CONSTANTS
  w1 = w1
  w2 = w2
  Workers = {w1, w2}
  Assignments <- MCAssignments
  Budget = 8
  MaxRetries = 1
  MaxRequests = 1
  Threshold = 1
  Messages <- MCMessages
  MaxChunks = 3
  FinalAttempts = 2
  OwnWarnings = {0, 4}
CHECK_DEADLOCK FALSE
INVARIANTS
  TypeOK
  EvidenceIsWhole
  SampleIsEven
  NoticesReachTheSummary
PROPERTY
  AnalysisEnds
