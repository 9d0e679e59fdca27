---------------------------- MODULE MCNodeGroups ----------------------------
(* Two clusters; a node autoscaler's label, a cloud provider's and a        *)
(* provisioning tool's; a node whose name begins with another's.            *)
EXTENDS NodeGroups, TLC

CONSTANTS karpenter, eks, eksctl, n1, n10, n2

MCProviderType == [l \in Label |-> CASE l = karpenter -> 2 [] l = eks -> 3 [] l = eksctl -> 4]
MCAllowedLower == {<<2, 3>>}
MCPartOf == {<<n, n>> : n \in Node} \cup {<<n1, n10>>}

S(g, n) == [group |-> g, node |-> n]
MCAnswers ==
  [l \in AllLabels |->
     CASE l = karpenter -> {<<S("default", n1), S("default", n10), S("default", n1)>>}
       [] l = eks -> {<<S("default", n2)>>, <<S("spot", n10), S("spot", n1)>>}
       [] l = eksctl -> {<<S("spot", n2)>>}
       [] l = MachineSet -> {<< >>, <<S("worker", n1)>>}
       [] OTHER -> {<<S("worker", n10), S("master", n2)>>}]

MCSymmetry == Permutations(Cluster)
=============================================================================
