SPECIFICATION FairCallSpec
CONSTANTS
  c1 = c1
  c2 = c2
  k1 = k1
  Wanted <- MCWanted
  Callers <- MCCallers
  Requests <- MCRequests
  Pdfs <- MCPdfs
  Keys = {k1, k2}
  Unknown = Unknown
  NoModel = NoModel
  Nobody = Nobody
  CacheSize = 1
  MaxInferences = 2
  MaxRetries = 1
  MaxRequests = 1
  MaxAccepted = 3
CHECK_DEADLOCK FALSE
INVARIANTS
  CallTypeOK
  LeasedIsOpen
  GuardsHold
  NothingLeftBehind
PROPERTY
  WorkEnds
