SPECIFICATION DirectorySpec
CONSTANTS
  u1 = u1
  u2 = u2
  d1 = d1
  d2 = d2
  d3 = d3
  n1 = n1
  n2 = n2
  User = {u1, u2}
  Dir = {d1, d2, d3}
  Note = {n1, n2}
  None = None
  MaxDepth = 2
  MaxStack = 3
  MaxOpen = 2
  MaxRequests = 4
  CanFail = TRUE
SYMMETRY Symmetry
INVARIANTS DirectoryTypeOK Acyclic StoresAgree NoDeadParents
PROPERTIES SharedNotesSurvive OnlyOwnersDelete
CHECK_DEADLOCK FALSE
