SPECIFICATION FairSpec
CONSTANTS
  p1 = p1
  p2 = p2
  Process = {p1, p2}
  MaxTime = 2
  MaxSeq = 3
  NoEntry = NoEntry
INVARIANTS TypeOK HeapMatchesTable SeqIdentifies 
PROPERTIES  StopReturns
CHECK_DEADLOCK FALSE
