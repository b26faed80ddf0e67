SPECIFICATION FairSpec
CONSTANTS
  Processes = {p1, p2}
  Tokens = {1, 2}
  Passwords = {"admin", "other"}
  AdminPassword = "admin"
  Ttl = 1
  Retention = 1
  NoUser = NoUser
  Nobody = Nobody
  MaxOperations = 4
  MaxTime = 1
CHECK_DEADLOCK FALSE
INVARIANTS
  TypeOK
  UsableIsCurrent
  CreatedOnce
PROPERTIES
  TokensNeverReturn
  OperationsEnd
