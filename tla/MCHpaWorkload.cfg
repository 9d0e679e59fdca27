SPECIFICATION Spec
CONSTANTS
  c1 = c1
  c2 = c2
  h1 = h1
  h2 = h2
  h3 = h3
  Hpa = {h1, h2, h3}
  Cluster = {c1, c2}
  ClusterOf <- MCClusterOf
  Classified = {h1, h3}
  FileOf <- MCFileOf
  MaxHistory = 2
INVARIANTS
  TypeOK
  NoForeignValues
  DefaultHistoryWritten
PROPERTY OnlyFoundRewritten
CHECK_DEADLOCK FALSE
