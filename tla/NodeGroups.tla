----------------------------- MODULE NodeGroups -----------------------------
(***************************************************************************)
(* Finding the node groups of each cluster and writing their files         *)
(* (internal/nodegroup).                                                   *)
(*                                                                         *)
(* How a cluster's nodes are grouped is its feature: by well-known node    *)
(* labels, by OpenShift machine sets, or by node roles.  The three kinds   *)
(* are tried in that order, each on all clusters at once and only while    *)
(* some cluster has no feature yet; any query may go unanswered in any     *)
(* cluster.  Then the clusters with a feature are visited one by one, in   *)
(* any order, and each visit writes the files of all clusters anew.        *)
(*                                                                         *)
(* A query's handler runs for one cluster after the other.  Where it looks *)
(* only at its own cluster, and only gives it what it lacks, one step      *)
(* stands for all of its calls; the detection of roles, which replaces     *)
(* features, is taken cluster by cluster.                                  *)
(***************************************************************************)
EXTENDS Naturals, Sequences, FiniteSets

CONSTANTS
  Cluster,
  Label,        \* node labels that may tell the group of a node
  MachineSet,   \* the label the OpenShift query makes from the node's name
  Role,
  ProviderType, \* of each node label, a number: the lowest takes precedence
  AllowedLower, \* pairs of types: the second is allowed beside the first
  Node,
  PartOf,       \* pairs of nodes: the name of the first is contained in the
                \* name of the second
  Answers       \* by label: what a query for groups may return, sequences of
                \* series, each with the name of a group and of a node

AllLabels == Label \cup {MachineSet, Role}
Series == UNION {{a[i] : i \in DOMAIN a} : a \in UNION {Answers[l] : l \in AllLabels}}
GroupName == {s.group : s \in Series}

ASSUME NodeGroupAssumption ==
  /\ IsFiniteSet(Cluster) /\ IsFiniteSet(Node)
  /\ MachineSet \notin Label /\ Role \notin Label /\ MachineSet # Role
  /\ ProviderType \in [Label -> Nat]
  /\ \A t \in AllowedLower : t[1] < t[2]
  /\ \A n \in Node : <<n, n>> \in PartOf
  /\ \A l \in AllLabels : Answers[l] \subseteq Seq(Series)
  /\ \A s \in Series : s.node \in Node

VARIABLES
  labels,          \* the node labels in use in each cluster
  machines,        \* the OpenShift clusters
  roles,           \* of the roles of each cluster: "none" exist, at most one is
                   \* missing from the configuration ("ordered"), or more are
  stage,
  clusterFeatures,
  labelsLeft,      \* labels found somewhere and yet to be queried everywhere
  rolesLeft,       \* clusters whose roles are yet to be looked at
  queryForRole,    \* of the role engine: the roles of some cluster can be ordered
  nodeGroups,      \* groups by name, for each cluster
  unvisited,       \* clusters the loop of Metrics has yet to visit
  files            \* the groups written to each cluster's files

world == <<labels, machines, roles>>
roleVars == <<rolesLeft, queryForRole>>
vars == <<world, stage, clusterFeatures, labelsLeft, roleVars, nodeGroups, unvisited, files>>

NoFeature == [type |-> "none", labels |-> {}]
NoGroups == [g \in {} |-> 0]

Init ==
  /\ labels \in [Cluster -> SUBSET Label]
  /\ machines \in SUBSET Cluster
  /\ roles \in [Cluster -> {"none", "ordered", "ambiguous"}]
  /\ stage = "labels"
  /\ clusterFeatures = [c \in Cluster |-> NoFeature]
  /\ labelsLeft = {}
  /\ rolesLeft = {}
  /\ queryForRole = FALSE
  /\ nodeGroups = [c \in Cluster |-> NoGroups]
  /\ unvisited = {}
  /\ files = [c \in Cluster |-> NoGroups]

Featured == {c \in Cluster : clusterFeatures[c] # NoFeature}

\* Mutant: the cluster's feature is not looked up.
EnsuredAnew(features, S, type, ls) ==
  [c \in Cluster |-> IF c \in S THEN [type |-> type, labels |-> ls] ELSE features[c]]

\* ensureFeature: every cluster of S without a feature gets one of that type.
Ensured(features, S, type, ls) ==
  [c \in Cluster |->
     IF c \in S /\ features[c] = NoFeature THEN [type |-> type, labels |-> ls]
     ELSE features[c]]

-----------------------------------------------------------------------------
(* The groups *)

\* Mutant: the node is added without looking.
ListedNever(ng, node) == FALSE

\* The list of a group's nodes contains the name of the node, as a string.
Listed(ng, node) == \E m \in ng.nodes : <<node, m>> \in PartOf

NewGroup == [nodes |-> {}, currentSize |-> 0, measured |-> FALSE, members |-> {}]

\* One series: its group is made if need be and its node added and counted.
\* members is no part of the program: the nodes that were answered.
AddNode(groups, s) ==
  LET ng == IF s.group \in DOMAIN groups THEN groups[s.group] ELSE NewGroup
      seen == [ng EXCEPT !.members = @ \cup {s.node}]
      new == IF Listed(ng, s.node) THEN seen
             ELSE [seen EXCEPT !.nodes = @ \cup {s.node}, !.currentSize = @ + 1]
  IN [g \in DOMAIN groups \cup {s.group} |-> IF g = s.group THEN new ELSE groups[g]]

\* The series of an answer in turn.
createNodeGroup(groups, series) ==
  LET upTo[i \in 0..Len(series)] ==
        IF i = 0 THEN groups ELSE AddNode(upTo[i - 1], series[i])
  IN upTo[Len(series)]

\* The answers for label l of the clusters in S whose feature has that type.
Grouped(features, S, type, answer) ==
  [c \in Cluster |->
     IF c \in S /\ features[c].type = type
     THEN createNodeGroup(nodeGroups[c], answer[c])
     ELSE nodeGroups[c]]

-----------------------------------------------------------------------------
(* Features *)

\* A label of the lowest type comes first; which one if several have it is up
\* to the iteration order of a map.
FirstLabels(c) ==
  {l \in labels[c] : \A m \in labels[c] : ProviderType[l] <= ProviderType[m]}

\* The first label, and those allowed beside some label of the cluster.
ChosenLabels(c, first) ==
  {first} \cup {l \in labels[c] : \E m \in labels[c] :
                  <<ProviderType[m], ProviderType[l]>> \in AllowedLower}

\* detectNameLabel, for the clusters in S that answer.
DetectLabels(S, first) ==
  /\ stage = "labels"
  /\ \A c \in S : first[c] \in FirstLabels(c)
  /\ clusterFeatures' =
       [c \in Cluster |->
          IF c \in S THEN [type |-> "label", labels |-> ChosenLabels(c, first[c])]
          ELSE NoFeature]
  /\ labelsLeft' = UNION {ChosenLabels(c, first[c]) : c \in S}
  /\ stage' = "labelGroups"
  /\ UNCHANGED <<world, roleVars, nodeGroups, unvisited, files>>

\* A label found in some cluster is queried in all; the clusters in S have
\* nodes with that label and answer.
CreateLabelGroups(l, S, answer) ==
  LET features == Ensured(clusterFeatures, S, "label", {})
  IN /\ stage = "labelGroups"
     /\ l \in labelsLeft
     /\ labelsLeft' = labelsLeft \ {l}
     /\ clusterFeatures' = features
     /\ nodeGroups' = Grouped(features, S, "label", answer)
     /\ UNCHANGED <<world, stage, roleVars, unvisited, files>>

\* Mutant: the features are not counted.
AlwaysLacking == TRUE

\* Some cluster has no feature yet: only then are OpenShift features or roles
\* looked for.
FeatureLacking == Cardinality(Featured) < Cardinality(Cluster)

LabelsDone ==
  /\ stage = "labelGroups"
  /\ labelsLeft = {}
  /\ stage' = IF FeatureLacking THEN "openshift" ELSE "visits"
  /\ unvisited' = Featured
  /\ UNCHANGED <<world, clusterFeatures, labelsLeft, roleVars, nodeGroups, files>>

\* determineOpenshiftFeatures.  The clusters in M report machines; only if some
\* do are machine sets, masters and nodes asked for, and those in S answer.
\* The query for the nodes is answered by any cluster, E are those.
DetermineOpenshift(M, S, E, answer) ==
  LET features == IF M = {} THEN clusterFeatures
                  ELSE Ensured(clusterFeatures, M \cup S \cup E, "openshift", {MachineSet})
  IN /\ stage = "openshift"
     /\ clusterFeatures' = features
     /\ nodeGroups' = IF M = {} THEN nodeGroups
                      ELSE Grouped(features, E, "openshift", answer)
     /\ stage' = "roles"
     /\ UNCHANGED <<world, labelsLeft, roleVars, unvisited, files>>

\* determineRoleFeatures, if need be: its first query asks for the roles in use,
\* and the clusters in S answer.
AskRoles(S) ==
  /\ stage = "roles"
  /\ stage' = IF FeatureLacking THEN "detectRoles" ELSE "visits"
  /\ rolesLeft' = IF FeatureLacking THEN S ELSE {}
  /\ unvisited' = Featured
  /\ UNCHANGED <<world, clusterFeatures, labelsLeft, queryForRole, nodeGroups, files>>

\* detectRoles, for one cluster: roles of a determined order become its feature,
\* whether it has one or not, and whatever the other clusters have by now.
DetectRoles(c) ==
  /\ stage = "detectRoles"
  /\ c \in rolesLeft
  /\ rolesLeft' = rolesLeft \ {c}
  /\ IF roles[c] = "ordered"
     THEN /\ clusterFeatures' = [clusterFeatures EXCEPT
                                   ![c] = [type |-> "role", labels |-> {Role}]]
          /\ queryForRole' = TRUE
     ELSE UNCHANGED <<clusterFeatures, queryForRole>>
  /\ UNCHANGED <<world, stage, labelsLeft, nodeGroups, unvisited, files>>

\* Unless no cluster's roles can be ordered the nodes of each role are asked for,
\* and the clusters in E answer.
CreateRoles(E, answer) ==
  LET features == Ensured(clusterFeatures, E, "role", {Role})
  IN /\ stage = "detectRoles"
     /\ rolesLeft = {}
     /\ IF queryForRole
        THEN /\ clusterFeatures' = features
             /\ nodeGroups' = Grouped(features, E, "role", answer)
        ELSE UNCHANGED <<clusterFeatures, nodeGroups>>
     /\ stage' = "visits"
     /\ unvisited' = {c \in Cluster : clusterFeatures'[c] # NoFeature}
     /\ UNCHANGED <<world, labelsLeft, roleVars, files>>

-----------------------------------------------------------------------------
(* The loop of Metrics over the clusters *)

\* The group names a label's answers mention.
NamesUnder(l) == UNION {{a[i].group : i \in DOMAIN a} : a \in Answers[l]}

\* The groups of c once the queries of its visit are answered.
Measured(c) ==
  [g \in DOMAIN nodeGroups[c] |->
     IF \E l \in clusterFeatures[c].labels : g \in NamesUnder(l)
     THEN [nodeGroups[c][g] EXCEPT !.measured = TRUE]
     ELSE nodeGroups[c][g]]

\* Mutant: the files are written before the queries of the visit.
WrittenBefore(groups) == nodeGroups

\* writeAttributes and writeConfig write the files of all clusters.
Written(groups) == groups

Visit(c, answered) ==
  LET groups == IF answered THEN [nodeGroups EXCEPT ![c] = Measured(c)] ELSE nodeGroups
  IN /\ stage = "visits"
     /\ c \in unvisited
     /\ unvisited' = unvisited \ {c}
     /\ nodeGroups' = groups
     /\ files' = Written(groups)
     /\ UNCHANGED <<world, stage, clusterFeatures, labelsLeft, roleVars>>

Done ==
  /\ stage = "visits"
  /\ unvisited = {}
  /\ stage' = "done"
  /\ UNCHANGED <<world, clusterFeatures, labelsLeft, roleVars, nodeGroups, unvisited, files>>

Labelled == {c \in Cluster : labels[c] # {}}
WithRoles == {c \in Cluster : roles[c] # "none"}

Next ==
  \/ \E S \in SUBSET Labelled : \E first \in [S -> Label] : DetectLabels(S, first)
  \/ \E l \in labelsLeft : \E S \in SUBSET {c \in Cluster : l \in labels[c]} :
       \E answer \in [S -> Answers[l]] : CreateLabelGroups(l, S, answer)
  \/ LabelsDone
  \/ \E M \in SUBSET machines, S \in SUBSET Cluster, E \in SUBSET Cluster :
       \E answer \in [E -> Answers[MachineSet]] : DetermineOpenshift(M, S, E, answer)
  \/ \E S \in SUBSET WithRoles : AskRoles(S)
  \/ \E c \in rolesLeft : DetectRoles(c)
  \/ \E E \in SUBSET WithRoles : \E answer \in [E -> Answers[Role]] : CreateRoles(E, answer)
  \/ \E c \in unvisited, answered \in BOOLEAN : Visit(c, answered)
  \/ Done

Spec == Init /\ [][Next]_vars

-----------------------------------------------------------------------------
Feature == [type : {"none", "label", "openshift", "role"}, labels : SUBSET AllLabels]
Group == [nodes : SUBSET Node, currentSize : 0..Cardinality(Node),
          measured : BOOLEAN, members : SUBSET Node]
GroupsOK(gs) == DOMAIN gs \subseteq GroupName /\ \A g \in DOMAIN gs : gs[g] \in Group

Stage == {"labels", "labelGroups", "openshift", "roles", "detectRoles", "visits", "done"}

TypeOK ==
  /\ labels \in [Cluster -> SUBSET Label]
  /\ machines \subseteq Cluster
  /\ stage \in Stage
  /\ clusterFeatures \in [Cluster -> Feature]
  /\ labelsLeft \subseteq Label
  /\ rolesLeft \subseteq WithRoles
  /\ queryForRole \in BOOLEAN
  /\ unvisited \subseteq Featured
  /\ \A c \in Cluster : GroupsOK(nodeGroups[c]) /\ GroupsOK(files[c])

\* Whatever the order of the visits, the files end up with what is known of
\* the groups at the end, also those of clusters visited early.
FilesFinal == stage = "done" => files = nodeGroups

\* A feature is replaced only by that of roles whose order is determined; no
\* other query, whichever clusters answer it, takes away a cluster's labels.
ReplacedOnlyByRoles ==
  [][\A c \in Featured :
       clusterFeatures'[c] # clusterFeatures[c] =>
         clusterFeatures'[c].type = "role" /\ roles[c] = "ordered"]_vars

\* A node that appears in several series of its group is counted once.
NoNodeCountedTwice ==
  \A c \in Cluster : \A g \in DOMAIN nodeGroups[c] :
    LET ng == nodeGroups[c][g]
    IN /\ ng.currentSize = Cardinality(ng.nodes)
       /\ ng.nodes \subseteq ng.members
       /\ ng.nodes # {}

\* Once every cluster has a feature none is looked for any more: no cluster's
\* groups are replaced by those of a kind of lower precedence, and no detection
\* begins that might do so.  Only roles whose detection began while a cluster had
\* no feature still take the place of other clusters' features, even after that
\* cluster has come to have one (role.go:103).
FeaturesSettled ==
  [][Featured = Cluster /\ stage # "detectRoles" =>
       clusterFeatures' = clusterFeatures /\ stage' # "detectRoles"]_vars

\* The attributes CurrentSize and CurrentNodes of a group give its nodes.
SizeCountsNodes ==
  \A c \in Cluster : \A g \in DOMAIN nodeGroups[c] :
    nodeGroups[c][g].currentSize = Cardinality(nodeGroups[c][g].members)

\* Only OpenShift clusters are taken for one: "This is the best query to detect
\* OpenShift machines" (openshift.go).
OpenshiftByMachines ==
  \A c \in Cluster : clusterFeatures[c].type = "openshift" => c \in machines
=============================================================================
