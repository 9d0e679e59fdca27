SPECIFICATION Spec
CONSTANTS
  Cluster = {c1, c2}
  Query = {q1, q2}
  NumCalls = 1
  HistoryInt = 2
  Results <- MCResults
INVARIANTS
  TypeOK
  AllReceivedWritten
  NewestFirst
  RowsUnderHeader
  HandlesClosed
PROPERTY GrowsWithinCall
SYMMETRY MCSymmetry
CHECK_DEADLOCK FALSE
