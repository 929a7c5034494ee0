SPECIFICATION DirectorySpec
CONSTANTS
  u1 = u1
  d1 = d1
  d2 = d2
  n1 = n1
  User = {u1}
  Dir = {d1, d2}
  Note = {n1}
  None = None
  MaxDepth = 2
  MaxStack = 3
  MaxOpen = 1
  MaxRequests = 4
  CanFail = FALSE
SYMMETRY Symmetry
INVARIANTS CascadeDescends
CHECK_DEADLOCK FALSE
