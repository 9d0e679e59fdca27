SPECIFICATION Spec
CONSTANTS
  Cluster = {c1, c2}
  Query = {q1}
  NumCalls = 2
  HistoryInt = 2
  Results <- MCResults
PROPERTY ExistingFileKept
CHECK_DEADLOCK FALSE
