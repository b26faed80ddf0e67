SPECIFICATION Spec
CONSTANTS
  Writers = {w1, w2}
  Puts <- MCPuts
  Files = {"a"}
  Months = {1, 2}
  MonthOf <- MCMonthOf
  NoRow = NoRow
  Nobody = Nobody
  CleanerAlone = FALSE
  MaxPuts = 3
  MaxFaults = 1
CHECK_DEADLOCK FALSE
INVARIANTS
  PublishedObjectsExist
