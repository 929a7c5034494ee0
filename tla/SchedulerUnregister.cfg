SPECIFICATION Spec
CONSTANTS
  p1 = p1
  p2 = p2
  Process = {p1, p2}
  MaxTime = 1
  MaxSeq = 2
  NoEntry = NoEntry
INVARIANT LoopSurvives
CHECK_DEADLOCK FALSE
