SPECIFICATION FairSpec
CONSTANTS
  Writers = {w1, w2}
  Puts <- MCPuts
  Files = {"a"}
  Months = {1, 2}
  MonthOf <- MCMonthOf
  NoRow = NoRow
  Nobody = Nobody
  CleanerAlone = TRUE
  MaxPuts = 3
  MaxFaults = 2
CHECK_DEADLOCK FALSE
INVARIANTS
  TypeOK
  PublishedObjectsExist
  AcknowledgedStays
  DetailIsOrdered
PROPERTIES
  PutsAreAtomic
  OrphansGo
