SPECIFICATION Spec
CONSTANTS
  c1 = c1
  c2 = c2
  c3 = c3
  Cluster = {c1, c2, c3}
  None = None
  Groups <- MCGroups
INVARIANTS
  TypeOK
  NoWholesaleLoss
  ResultsComplete
  CountIsDelivered
  UntaggedReachAll
  TaggedReachOne
  ExportersOfAll
  RestartsOnce
PROPERTIES
  CollectionEnds
  CallSpec
CHECK_DEADLOCK FALSE
