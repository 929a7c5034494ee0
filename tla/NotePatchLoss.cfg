SPECIFICATION NoteSpec
CONSTANTS
  c1 = c1
  Caller = {c1}
  Line = {1, 2, 3, 4}
  Word = {"a", "b"}
  Title = {"t", "u"}
  Drafts <- MCDrafts
  Keep = Keep
  NoChange = NoChange
  MaxDeltas = 2
  MaxVersions = 4
  CanFail = FALSE
INVARIANTS Reconstructs
CHECK_DEADLOCK FALSE
