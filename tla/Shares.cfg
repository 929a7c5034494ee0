SPECIFICATION MCSpec
CONSTANTS
  u1 = u1
  c1 = c1
  c2 = c2
  User = {u1}
  Caller = {c1, c2}
  Ops = {"create", "update", "delete"}
  MaxTime = 2
  MaxRows = 3
  CanCrash = TRUE
SYMMETRY Symmetry
INVARIANTS ShareTypeOK GuardedAccess TupleHasShare ExpiryReconciled
CHECK_DEADLOCK FALSE
