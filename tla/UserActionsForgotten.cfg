SPECIFICATION UserActionsFairSpec
CONSTANTS
  User = {u1}
  u1 = u1
  MaxTime = 2
  MaxRows = 2
  CanCrash = FALSE
PROPERTY DueRowsExecuted
CHECK_DEADLOCK FALSE
