SPECIFICATION FairSpec
CONSTANTS
  None = None
  Messages <- MCMessages
  Classes = {"a", "b"}
  Results <- MCResults
  MonthLength = 3
  Now = 7
  Limit = 2
  Horizon = 3
  Filters <- MCFilters
  Periods <- MCPeriods
CHECK_DEADLOCK FALSE
INVARIANTS
  TypeOK
  WalkIsComplete
  StatisticsAreBracketed
PROPERTIES
  WalkEnds
