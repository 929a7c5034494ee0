SPECIFICATION UserActionsFairSpec
CONSTANTS
  User = {u1}
  u1 = u1
  MaxTime = 2
  MaxRows = 2
  CanCrash = TRUE
INVARIANT UserActionsTypeOK
PROPERTIES ExecutesOnTimeOnce SeenRowsExecuted EnableRowsExecuted
CHECK_DEADLOCK FALSE
