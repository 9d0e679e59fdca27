SPECIFICATION Spec
CONSTANTS
  karpenter = karpenter
  eks = eks
  eksctl = eksctl
  n1 = n1
  n10 = n10
  n2 = n2
  Cluster = {c1, c2}
  Label = {karpenter, eks, eksctl}
  MachineSet = machine_set
  Role = role
  ProviderType <- MCProviderType
  AllowedLower <- MCAllowedLower
  Node = {n1, n10, n2}
  PartOf <- MCPartOf
  Answers <- MCAnswers
INVARIANT SizeCountsNodes
CHECK_DEADLOCK FALSE
