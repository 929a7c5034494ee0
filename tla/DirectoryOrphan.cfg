SPECIFICATION DirectorySpec
CONSTANTS
  u1 = u1
  d1 = d1
  d2 = d2
  n1 = n1
  n2 = n2
  User = {u1}
  Dir = {d1, d2}
  Note = {n1, n2}
  None = None
  MaxDepth = 2
  MaxStack = 3
  MaxOpen = 1
  MaxRequests = 4
  CanFail = FALSE
SYMMETRY Symmetry
INVARIANTS NotesKeepAParent
CHECK_DEADLOCK FALSE
