SPECIFICATION NoteSpec
CONSTANTS
  c1 = c1
  c2 = c2
  Caller = {c1, c2}
  Line = {1, 2, 3}
  Word = {"a", "b"}
  Title = {"t", "u"}
  Drafts <- MCDrafts
  Keep = Keep
  NoChange = NoChange
  MaxDeltas = 2
  MaxVersions = 4
  CanFail = TRUE
SYMMETRY Symmetry
INVARIANTS NoteTypeOK HistoryComplete ReplayBounded HistoryIsFaithful
CHECK_DEADLOCK FALSE
