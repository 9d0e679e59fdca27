SPECIFICATION Spec
CONSTANTS
  c1 = c1
  c2 = c2
  None = None
  Address <- MCAddress
  Cluster = {c1, c2}
  Answers <- MCAnswers
  Failures <- MCFailures
CHECK_DEADLOCK FALSE
INVARIANTS
  TypeOK
  VersionsExtremal
  QueriesFitClusters
