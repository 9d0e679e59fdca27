SPECIFICATION Spec
CONSTANTS
  ClusterName = {c1, c2, c3}
  NoName = NoName
  NilFilter = NilFilter
  LabelName = {l1, l2}
  LabelValue = {v1, v2}
  MaxFilters = 3
  Configs <- MCConfigs
INVARIANTS
  TypeOK
  IdentifiersDisjoint
  UnidentifiedIsAlone
  GroupsPartitionClusters
  NamesListRegistered
SYMMETRY MCSymmetry
CHECK_DEADLOCK FALSE
