--------------------------- MODULE NodeGroupsProofs ---------------------------
(***************************************************************************)
(* What the detection of node groups guarantees, for any clusters, labels, *)
(* roles and answers.                                                      *)
(*                                                                         *)
(* That the files are final rests on where the groups of a cluster come    *)
(* from: only a cluster with a feature has any (GroupsNeedFeature), and    *)
(* the loop visits all clusters with features, so that if none is visited  *)
(* the empty files are those of no groups (Writing).                       *)
(*                                                                         *)
(* That no node is counted twice rests on each turn of the loop over an    *)
(* answer's series: a node that is listed under its own name is found by   *)
(* the search for its name (AddNodeCounts).                                *)
(***************************************************************************)
EXTENDS NodeGroups, Induction

NoneAtAll == [c \in Cluster |-> NoGroups]

\* Features and groups are kept by cluster, and none has a feature at the start.
Maps ==
  /\ clusterFeatures = [c \in Cluster |-> clusterFeatures[c]]
  /\ nodeGroups = [c \in Cluster |-> nodeGroups[c]]
  /\ stage = "labels" => \A c \in Cluster : clusterFeatures[c] = NoFeature

\* Only a cluster with a feature has groups.
GroupsNeedFeature ==
  \A c \in Cluster : clusterFeatures[c].type = "none" => nodeGroups[c] = NoGroups

\* A feature has a type if it is one.
FeaturesTyped ==
  \A c \in Cluster : clusterFeatures[c] = NoFeature <=> clusterFeatures[c].type = "none"

\* The files have no groups until the first visit, and all that are known after it.
Writing ==
  /\ stage \notin {"visits", "done"} => files = NoneAtAll
  /\ stage \in {"visits", "done"} =>
       files = nodeGroups \/ (files = NoneAtAll /\ unvisited = Featured)
  /\ stage = "visits" => unvisited \subseteq Featured
  /\ stage = "done" => unvisited = {}

IInv ==
  /\ Maps
  /\ FeaturesTyped
  /\ GroupsNeedFeature
  /\ Writing

-----------------------------------------------------------------------------
LEMMA InitIInv == Init => IInv
BY DEF Init, IInv, Maps, FeaturesTyped, GroupsNeedFeature, Writing, NoFeature, NoneAtAll

\* What a step that forms groups changes: each such step before the loop gives
\* features by Ensured and groups by Grouped.
LEMMA FormingIInv ==
  ASSUME IInv, stage \notin {"visits", "done"}, stage' \notin {"labels", "done"},
         clusterFeatures' = [c \in Cluster |-> clusterFeatures'[c]],
         \A c \in Cluster : clusterFeatures'[c] = NoFeature <=> clusterFeatures'[c].type = "none",
         nodeGroups' = [c \in Cluster |-> nodeGroups'[c]],
         \A c \in Cluster : clusterFeatures'[c].type = "none" => nodeGroups'[c] = NoGroups,
         files' = files,
         stage' = "visits" => unvisited' = {c \in Cluster : clusterFeatures'[c] # NoFeature}
  PROVE  IInv'
<1>1. Maps' /\ FeaturesTyped' /\ GroupsNeedFeature'
  BY DEF Maps, FeaturesTyped, GroupsNeedFeature
<1>2. Writing'
  BY DEF IInv, Writing, Featured, NoneAtAll
<1> QED BY <1>1, <1>2 DEF IInv

LEMMA DetectLabelsIInv ==
  ASSUME IInv, NEW S \in SUBSET Labelled, NEW first, DetectLabels(S, first)
  PROVE  IInv'
<1>1. /\ clusterFeatures' = [c \in Cluster |-> clusterFeatures'[c]]
      /\ \A c \in Cluster : clusterFeatures'[c] = NoFeature <=> clusterFeatures'[c].type = "none"
  BY DEF DetectLabels, NoFeature
<1>2. \A c \in Cluster : nodeGroups[c] = NoGroups
  BY DEF DetectLabels, IInv, Maps, FeaturesTyped, GroupsNeedFeature
<1> QED BY <1>1, <1>2, FormingIInv DEF DetectLabels, IInv, Maps

LEMMA CreateLabelGroupsIInv ==
  ASSUME IInv, NEW l \in labelsLeft, NEW S, NEW answer, CreateLabelGroups(l, S, answer)
  PROVE  IInv'
<1> DEFINE features == Ensured(clusterFeatures, S, "label", {})
<1>1. /\ stage = "labelGroups" /\ UNCHANGED <<stage, files>>
      /\ clusterFeatures' = features
      /\ nodeGroups' = Grouped(features, S, "label", answer)
  BY DEF CreateLabelGroups
<1>2. /\ features = [c \in Cluster |-> features[c]]
      /\ \A c \in Cluster : /\ clusterFeatures[c] # NoFeature => features[c] = clusterFeatures[c]
                            /\ features[c] = NoFeature <=> features[c].type = "none"
  BY DEF Ensured, NoFeature, IInv, FeaturesTyped
<1> HIDE DEF features
<1>3. \A c \in Cluster : features[c].type = "none" => nodeGroups[c] = NoGroups
  BY <1>2 DEF IInv, FeaturesTyped, GroupsNeedFeature
<1>4. /\ nodeGroups' = [c \in Cluster |-> nodeGroups'[c]]
      /\ \A c \in Cluster : features[c].type = "none" => nodeGroups'[c] = NoGroups
  BY <1>1, <1>3 DEF Grouped
<1> QED BY <1>1, <1>2, <1>4, FormingIInv

LEMMA LabelsDoneIInv ==
  ASSUME IInv, LabelsDone
  PROVE  IInv'
BY FormingIInv DEF LabelsDone, IInv, Maps, FeaturesTyped, GroupsNeedFeature, Featured

LEMMA DetermineOpenshiftIInv ==
  ASSUME IInv, NEW M, NEW S, NEW E, NEW answer, DetermineOpenshift(M, S, E, answer)
  PROVE  IInv'
<1> DEFINE features == IF M = {} THEN clusterFeatures
                       ELSE Ensured(clusterFeatures, M \cup S \cup E, "openshift", {MachineSet})
<1>1. /\ stage = "openshift" /\ stage' = "roles" /\ files' = files
      /\ clusterFeatures' = features
      /\ nodeGroups' = IF M = {} THEN nodeGroups ELSE Grouped(features, E, "openshift", answer)
  BY DEF DetermineOpenshift
<1>2. /\ features = [c \in Cluster |-> features[c]]
      /\ \A c \in Cluster : /\ clusterFeatures[c] # NoFeature => features[c] = clusterFeatures[c]
                            /\ features[c] = NoFeature <=> features[c].type = "none"
  <2>1. CASE M = {}
    BY <2>1 DEF IInv, FeaturesTyped, Maps
  <2>2. CASE M # {}
    BY <2>2 DEF Ensured, NoFeature, IInv, FeaturesTyped
  <2> QED BY <2>1, <2>2
<1> HIDE DEF features
<1>3. \A c \in Cluster : features[c].type = "none" => nodeGroups[c] = NoGroups
  BY <1>2 DEF IInv, FeaturesTyped, GroupsNeedFeature
<1>4. /\ nodeGroups' = [c \in Cluster |-> nodeGroups'[c]]
      /\ \A c \in Cluster : features[c].type = "none" => nodeGroups'[c] = NoGroups
  BY <1>1, <1>3 DEF Grouped, IInv, Maps
<1> QED BY <1>1, <1>2, <1>4, FormingIInv

LEMMA AskRolesIInv ==
  ASSUME IInv, NEW S, AskRoles(S)
  PROVE  IInv'
BY FormingIInv DEF AskRoles, IInv, Maps, FeaturesTyped, GroupsNeedFeature, Featured

\* Detection by roles gives the feature also to a cluster that has another one,
\* but takes none away.
LEMMA DetectRolesIInv ==
  ASSUME IInv, NEW c \in rolesLeft, DetectRoles(c)
  PROVE  IInv'
<1>1. /\ stage = "detectRoles" /\ UNCHANGED <<stage, nodeGroups, files>>
      /\ \/ clusterFeatures' = [clusterFeatures EXCEPT
                                  ![c] = [type |-> "role", labels |-> {Role}]]
         \/ UNCHANGED clusterFeatures
  BY DEF DetectRoles
<1>2. /\ clusterFeatures' = [d \in Cluster |-> clusterFeatures'[d]]
      /\ \A d \in Cluster : \/ clusterFeatures'[d] = clusterFeatures[d]
                            \/ clusterFeatures'[d] = [type |-> "role", labels |-> {Role}]
  BY <1>1 DEF IInv, Maps
<1>3. \A d \in Cluster : /\ clusterFeatures'[d] = NoFeature <=> clusterFeatures'[d].type = "none"
                         /\ clusterFeatures'[d].type = "none" => clusterFeatures[d].type = "none"
  BY <1>2 DEF IInv, FeaturesTyped, NoFeature
<1>4. \A d \in Cluster : clusterFeatures'[d].type = "none" => nodeGroups'[d] = NoGroups
  BY <1>1, <1>3 DEF IInv, GroupsNeedFeature
<1> QED BY <1>1, <1>2, <1>3, <1>4, FormingIInv DEF IInv, Maps

LEMMA CreateRolesIInv ==
  ASSUME IInv, NEW E, NEW answer, CreateRoles(E, answer)
  PROVE  IInv'
<1> DEFINE features == Ensured(clusterFeatures, E, "role", {Role})
<1>1. /\ stage = "detectRoles" /\ stage' = "visits" /\ files' = files
      /\ unvisited' = {c \in Cluster : clusterFeatures'[c] # NoFeature}
      /\ \/ UNCHANGED <<clusterFeatures, nodeGroups>>
         \/ /\ clusterFeatures' = features
            /\ nodeGroups' = Grouped(features, E, "role", answer)
  BY DEF CreateRoles
<1>2. /\ features = [c \in Cluster |-> features[c]]
      /\ \A c \in Cluster : /\ clusterFeatures[c] # NoFeature => features[c] = clusterFeatures[c]
                            /\ features[c] = NoFeature <=> features[c].type = "none"
  BY DEF Ensured, NoFeature, IInv, FeaturesTyped
<1> HIDE DEF features
<1>3. \A c \in Cluster : features[c].type = "none" => nodeGroups[c] = NoGroups
  BY <1>2 DEF IInv, FeaturesTyped, GroupsNeedFeature
<1>4. CASE UNCHANGED <<clusterFeatures, nodeGroups>>
  BY <1>1, <1>4, FormingIInv DEF IInv, Maps, FeaturesTyped, GroupsNeedFeature
<1>5. CASE /\ clusterFeatures' = features
           /\ nodeGroups' = Grouped(features, E, "role", answer)
  <2>1. /\ nodeGroups' = [c \in Cluster |-> nodeGroups'[c]]
        /\ \A c \in Cluster : features[c].type = "none" => nodeGroups'[c] = NoGroups
    BY <1>5, <1>3 DEF Grouped
  <2> QED BY <1>1, <1>2, <1>5, <2>1, FormingIInv
<1> QED BY <1>1, <1>4, <1>5

\* A visit writes what is known of all groups; the visited cluster has a feature.
LEMMA VisitIInv ==
  ASSUME IInv, NEW c \in unvisited, NEW answered \in BOOLEAN, Visit(c, answered)
  PROVE  IInv'
<1> DEFINE groups == IF answered THEN [nodeGroups EXCEPT ![c] = Measured(c)] ELSE nodeGroups
<1>1. /\ stage = "visits" /\ UNCHANGED <<stage, clusterFeatures>>
      /\ nodeGroups' = groups /\ files' = groups
  BY DEF Visit, Written
<1>2. groups = [d \in Cluster |-> groups[d]] /\ \A d \in Cluster : d # c => groups[d] = nodeGroups[d]
  BY DEF IInv, Maps
<1>3. c \in Cluster => clusterFeatures[c].type # "none"
  BY <1>1 DEF IInv, FeaturesTyped, Writing, Featured
<1> HIDE DEF groups
<1>4. Maps' /\ FeaturesTyped'
  BY <1>1, <1>2 DEF IInv, Maps, FeaturesTyped
<1>5. GroupsNeedFeature'
  BY <1>1, <1>2, <1>3 DEF IInv, GroupsNeedFeature
<1>6. Writing'
  BY <1>1 DEF Visit, IInv, Writing, Featured
<1> QED BY <1>4, <1>5, <1>6 DEF IInv

LEMMA StepIInv == IInv /\ [Next]_vars => IInv'
<1> SUFFICES ASSUME IInv, [Next]_vars PROVE IInv'
  OBVIOUS
<1>1. CASE UNCHANGED vars
  BY <1>1 DEF vars, IInv, Maps, FeaturesTyped, GroupsNeedFeature, Writing, Featured
<1>2. CASE Done
  BY <1>2 DEF Done, IInv, Maps, FeaturesTyped, GroupsNeedFeature, Writing, Featured
<1> QED BY <1>1, <1>2, DetectLabelsIInv, CreateLabelGroupsIInv, LabelsDoneIInv,
          DetermineOpenshiftIInv, AskRolesIInv, DetectRolesIInv, CreateRolesIInv, VisitIInv DEF Next

\* Every reachable state satisfies the inductive invariant.
THEOREM GroupsInvariant == Spec => []IInv
BY InitIInv, StepIInv, PTL DEF Spec

-----------------------------------------------------------------------------
\* The files end up with what is known of the groups, whatever the order of the
\* visits, also if there is nothing to visit.
THEOREM FilesAreFinal == Spec => []FilesFinal
<1>1. IInv => FilesFinal
  <2> SUFFICES ASSUME IInv, stage = "done" PROVE files = nodeGroups
    BY DEF FilesFinal
  <2>1. CASE Featured = {}
    <3>1. \A c \in Cluster : nodeGroups[c] = NoGroups
      BY <2>1 DEF Featured, IInv, FeaturesTyped, GroupsNeedFeature
    <3> QED BY <3>1 DEF IInv, Maps, Writing, NoneAtAll
  <2> QED BY <2>1 DEF IInv, Writing
<1> QED BY <1>1, GroupsInvariant, PTL

\* Whichever queries are answered, a feature is replaced only by that of roles.
THEOREM RolesReplace == Spec => ReplacedOnlyByRoles
<1> DEFINE Kept == \A c \in Featured : clusterFeatures'[c] # clusterFeatures[c] =>
                     clusterFeatures'[c].type = "role" /\ roles[c] = "ordered"
<1>1. ASSUME IInv, [Next]_vars PROVE Kept
  <2>1. CASE UNCHANGED clusterFeatures
    BY <2>1
  <2>2. ASSUME NEW S, NEW first, DetectLabels(S, first) PROVE Kept
    BY <1>1, <2>2 DEF DetectLabels, IInv, Maps, Featured
  <2>3. ASSUME NEW l, NEW S, NEW answer, CreateLabelGroups(l, S, answer) PROVE Kept
    BY <1>1, <2>3 DEF CreateLabelGroups, Ensured, Featured
  <2>4. ASSUME NEW M, NEW S, NEW E, NEW answer, DetermineOpenshift(M, S, E, answer) PROVE Kept
    BY <1>1, <2>4 DEF DetermineOpenshift, Ensured, Featured
  <2>5. ASSUME NEW c, DetectRoles(c) PROVE Kept
    BY <1>1, <2>5 DEF DetectRoles, IInv, Maps, Featured
  <2>6. ASSUME NEW E, NEW answer, CreateRoles(E, answer) PROVE Kept
    BY <1>1, <2>6 DEF CreateRoles, Ensured, Featured
  <2> HIDE DEF Kept
  <2> QED BY <1>1, <2>1, <2>2, <2>3, <2>4, <2>5, <2>6
          DEF Next, LabelsDone, AskRoles, Visit, Done, vars
<1>2. IInv /\ [Next]_vars => [Kept]_vars
  BY <1>1
<1> QED BY <1>2, GroupsInvariant, PTL DEF Spec, ReplacedOnlyByRoles

\* Once all clusters have a feature the detection changes none and no detection of
\* roles, which would replace features, begins; one that is under way may go on.
THEOREM SettledStays == Spec => FeaturesSettled
<1> DEFINE Kept == Featured = Cluster /\ stage # "detectRoles" =>
                     clusterFeatures' = clusterFeatures /\ stage' # "detectRoles"
<1>1. ASSUME IInv, [Next]_vars PROVE Kept
  <2> SUFFICES ASSUME Featured = Cluster, stage # "detectRoles"
               PROVE  clusterFeatures' = clusterFeatures /\ stage' # "detectRoles"
    OBVIOUS
  <2>1. CASE UNCHANGED vars
    BY <2>1 DEF vars
  <2>2. /\ \A c \in Cluster : clusterFeatures[c] # NoFeature
        /\ clusterFeatures = [c \in Cluster |-> clusterFeatures[c]]
    BY <1>1 DEF Featured, IInv, Maps
  <2>3. ~FeatureLacking
    <3>1. Cardinality(Cluster) \in Nat
      BY NodeGroupAssumption, FS_CardinalityType
    <3> QED BY <3>1 DEF FeatureLacking
  <2>4. ASSUME NEW S, NEW type, NEW ls
        PROVE  Ensured(clusterFeatures, S, type, ls) = clusterFeatures
    BY <2>2 DEF Ensured
  <2>5. ASSUME NEW S, NEW first, DetectLabels(S, first)
        PROVE  clusterFeatures' = clusterFeatures /\ stage' # "detectRoles"
    BY <1>1, <2>2, <2>5 DEF DetectLabels, IInv, Maps
  <2>6. ASSUME NEW S, AskRoles(S)
        PROVE  clusterFeatures' = clusterFeatures /\ stage' # "detectRoles"
    BY <2>3, <2>6 DEF AskRoles
  <2> QED BY <1>1, <2>1, <2>3, <2>4, <2>5, <2>6 DEF Next, CreateLabelGroups, DetermineOpenshift,
          DetectRoles, CreateRoles, LabelsDone, Visit, Done
<1>2. IInv /\ [Next]_vars => [Kept]_vars
  BY <1>1
<1> QED BY <1>2, GroupsInvariant, PTL DEF Spec, FeaturesSettled

-----------------------------------------------------------------------------
(* The groups' nodes *)

\* Groups that have nodes, those that were answered, and count each once.
Counted ==
  {ng \in Group : /\ ng.currentSize = Cardinality(ng.nodes)
                  /\ ng.nodes \subseteq ng.members
                  /\ ng.nodes # {}}

\* The groups of a cluster that may be known.
Known == UNION {[D -> Counted] : D \in SUBSET GroupName}

GroupsKnown == \A c \in Cluster : nodeGroups[c] \in Known /\ files[c] \in Known

LEMMA NoGroupsKnown == NoGroups \in Known
<1>1. NoGroups \in [{} -> Counted]
  BY DEF NoGroups
<1> QED BY <1>1 DEF Known

\* What one series of an answer makes of the groups.
LEMMA AddNodeCounts ==
  ASSUME NEW gs \in Known, NEW s \in Series
  PROVE  AddNode(gs, s) \in Known
<1> DEFINE ng == IF s.group \in DOMAIN gs THEN gs[s.group] ELSE NewGroup
           seen == [ng EXCEPT !.members = @ \cup {s.node}]
           new == IF Listed(ng, s.node) THEN seen
                  ELSE [seen EXCEPT !.nodes = @ \cup {s.node}, !.currentSize = @ + 1]
<1>1. s.node \in Node /\ <<s.node, s.node>> \in PartOf /\ IsFiniteSet(Node)
  BY NodeGroupAssumption
<1>2. PICK D \in SUBSET GroupName : gs \in [D -> Counted]
  BY DEF Known
<1>3. DOMAIN gs = D /\ \A g \in D : gs[g] \in Counted
  BY <1>2
<1>4. /\ ng \in [nodes : SUBSET Node, currentSize : Nat, measured : BOOLEAN, members : SUBSET Node]
      /\ ng.currentSize = Cardinality(ng.nodes) /\ ng.nodes \subseteq ng.members
  <2>1. CASE s.group \in D
    <3>1. ng \in Counted
      BY <1>3, <2>1
    <3>2. Cardinality(Node) \in Nat
      BY <1>1, FS_CardinalityType
    <3> QED BY <3>1, <3>2 DEF Counted, Group
  <2>2. CASE s.group \notin D
    BY <1>3, <2>2, FS_EmptySet DEF NewGroup
  <2> QED BY <2>1, <2>2
<1>5. IsFiniteSet(ng.nodes)
  BY <1>1, <1>4, FS_Subset
<1> HIDE DEF ng
<1>6. /\ seen \in [nodes : SUBSET Node, currentSize : Nat, measured : BOOLEAN, members : SUBSET Node]
      /\ seen.nodes = ng.nodes /\ seen.currentSize = ng.currentSize
      /\ seen.members = ng.members \cup {s.node}
  BY <1>1, <1>4
<1> HIDE DEF seen
<1>7. /\ new \in [nodes : SUBSET Node, currentSize : Nat, measured : BOOLEAN, members : SUBSET Node]
      /\ new.currentSize = Cardinality(new.nodes)
      /\ new.nodes \subseteq new.members /\ new.nodes # {}
  <2>1. CASE Listed(ng, s.node)
    <3>1. new = seen
      BY <2>1
    <3>2. ng.nodes # {}
      BY <2>1 DEF Listed
    <3> HIDE DEF new
    <3> QED BY <1>4, <1>6, <3>1, <3>2
  <2>2. CASE ~Listed(ng, s.node)
    <3>1. s.node \notin ng.nodes
      BY <1>1, <2>2 DEF Listed
    <3>2. Cardinality(ng.nodes \cup {s.node}) = Cardinality(ng.nodes) + 1
      BY <1>5, <3>1, FS_AddElement
    <3>3. new = [seen EXCEPT !.nodes = @ \cup {s.node}, !.currentSize = @ + 1]
      BY <2>2
    <3> HIDE DEF new
    <3>4. /\ new \in [nodes : SUBSET Node, currentSize : Nat, measured : BOOLEAN, members : SUBSET Node]
          /\ new.nodes = ng.nodes \cup {s.node} /\ new.currentSize = ng.currentSize + 1
          /\ new.members = ng.members \cup {s.node}
      <4> DEFINE nodes == ng.nodes \cup {s.node}
                 size == ng.currentSize + 1
      <4>1. nodes \in SUBSET Node /\ size \in Nat
        BY <1>1, <1>4
      <4>2. new = [seen EXCEPT !.nodes = nodes, !.currentSize = size]
        BY <1>6, <3>3
      <4> HIDE DEF nodes, size
      <4>3. /\ new \in [nodes : SUBSET Node, currentSize : Nat, measured : BOOLEAN, members : SUBSET Node]
            /\ new.nodes = nodes /\ new.currentSize = size /\ new.members = seen.members
        BY ONLY <1>6, <4>1, <4>2
      <4> QED BY <1>6, <4>3 DEF nodes, size
    <3> QED BY <1>4, <3>2, <3>4
  <2> QED BY <2>1, <2>2
<1>8. AddNode(gs, s) = [g \in D \cup {s.group} |-> IF g = s.group THEN new ELSE gs[g]]
  BY <1>3 DEF AddNode, ng, seen
<1> HIDE DEF new
<1>9. new \in Counted
  <2>1. Cardinality(new.nodes) <= Cardinality(Node) /\ Cardinality(Node) \in Nat
    BY <1>1, <1>7, FS_Subset, FS_CardinalityType
  <2> QED BY <1>7, <2>1 DEF Counted, Group
<1>10. s.group \in GroupName
  BY DEF GroupName
<1>11. AddNode(gs, s) \in [D \cup {s.group} -> Counted]
  BY <1>3, <1>8, <1>9
<1> QED BY <1>10, <1>11 DEF Known

\* What an answer makes of the groups, whatever the order of its series.
LEMMA CreateCounts ==
  ASSUME NEW gs \in Known, NEW series \in Seq(Series)
  PROVE  createNodeGroup(gs, series) \in Known
<1> DEFINE n == Len(series)
           turn == [i \in 1..n |-> [q \in Known |-> AddNode(q, series[i])]]
           Eq(f) == f = [i \in 0..Len(series) |->
                           IF i = 0 THEN gs ELSE AddNode(f[i - 1], series[i])]
           upTo == CHOOSE f : Eq(f)
<1>1. n \in Nat
  OBVIOUS
<1>2. ASSUME NEW i \in 1..n, NEW q \in Known PROVE AddNode(q, series[i]) \in Known
  <2>1. series[i] \in Series
    OBVIOUS
  <2> QED BY <2>1, AddNodeCounts
<1>3. turn \in [1..n -> [Known -> Known]]
  <2> HIDE DEF n
  <2> QED BY <1>2
<1>4. createNodeGroup(gs, series) = upTo[n]
  BY DEF createNodeGroup
<1>5. PICK f \in [0..n -> Known] : IsLoop(f, n, gs, turn)
  <2> HIDE DEF turn, n
  <2> QED BY <1>1, <1>3, LoopExists
<1>6. ASSUME NEW i \in 1..n PROVE f[i] = AddNode(f[i - 1], series[i])
  <2>1. i - 1 \in 0..n /\ f[i - 1] \in Known
    <3> HIDE DEF turn, n
    <3> QED BY <1>1, <1>5
  <2> HIDE DEF n
  <2> QED BY <1>5, <2>1 DEF IsLoop
<1>7. Eq(f)
  <2>1. f[0] = gs
    BY <1>5 DEF IsLoop
  <2> SUFFICES ASSUME NEW i \in 0..n
               PROVE  f[i] = IF i = 0 THEN gs ELSE AddNode(f[i - 1], series[i])
    BY <1>5
  <2>2. i = 0 \/ i \in 1..n
    BY <1>1
  <2> HIDE DEF n
  <2> QED BY <1>6, <2>1, <2>2
<1>8. Eq(upTo)
  <2> HIDE DEF Eq
  <2> QED BY <1>7
<1>9. \A i \in 0..n : upTo[i] \in Known
  <2> HIDE DEF upTo
  <2>1. upTo[0] \in Known
    BY <1>8
  <2>2. ASSUME NEW i \in 1..n, upTo[i - 1] \in Known PROVE upTo[i] \in Known
    <3>1. i \in 0..n /\ i # 0
      BY <1>1
    <3>2. upTo[i] = AddNode(upTo[i - 1], series[i])
      BY <1>8, <3>1
    <3> HIDE DEF Eq, n
    <3> QED BY <1>2, <2>2, <3>2
  <2> HIDE DEF Eq, n
  <2> QED BY <1>1, <2>1, <2>2, LoopInvariant
<1> HIDE DEF upTo
<1> QED BY <1>1, <1>4, <1>9

\* What the answers to a query make of the groups of all clusters.
LEMMA GroupedKnown ==
  ASSUME GroupsKnown, NEW features, NEW S, NEW type, NEW l \in AllLabels,
         NEW answer \in [S -> Answers[l]]
  PROVE  \A c \in Cluster : Grouped(features, S, type, answer)[c] \in Known
<1> TAKE c \in Cluster
<1>1. ASSUME c \in S PROVE createNodeGroup(nodeGroups[c], answer[c]) \in Known
  <2>1. answer[c] \in Seq(Series)
    BY <1>1, NodeGroupAssumption
  <2> QED BY <2>1, CreateCounts DEF GroupsKnown
<1>2. nodeGroups[c] \in Known
  BY DEF GroupsKnown
<1> QED BY <1>1, <1>2 DEF Grouped

\* Queries measure groups and change none of their nodes.
LEMMA MeasuredKnown ==
  ASSUME GroupsKnown, NEW c \in Cluster
  PROVE  Measured(c) \in Known
<1>1. PICK D \in SUBSET GroupName : nodeGroups[c] \in [D -> Counted]
  BY DEF GroupsKnown, Known
<1>2. \A ng \in Counted : [ng EXCEPT !.measured = TRUE] \in Counted
  <2> SUFFICES ASSUME NEW ng \in Counted PROVE [ng EXCEPT !.measured = TRUE] \in Counted
    OBVIOUS
  <2> DEFINE new == [ng EXCEPT !.measured = TRUE]
  <2>1. ng \in Group
    BY DEF Counted
  <2>2. /\ new \in Group /\ new.nodes = ng.nodes
        /\ new.currentSize = ng.currentSize /\ new.members = ng.members
    BY <2>1 DEF Group
  <2> HIDE DEF new
  <2>3. new \in Counted
    BY <2>2 DEF Counted
  <2> QED BY <2>3 DEF new
<1>3. \A g \in D : nodeGroups[c][g] \in Counted
  BY <1>1
<1>4. Measured(c) \in [D -> Counted]
  <2>1. DOMAIN nodeGroups[c] = D
    BY <1>1
  <2> QED BY <2>1, <1>2, <1>3 DEF Measured
<1> QED BY <1>4 DEF Known

-----------------------------------------------------------------------------
(* Features and labels *)

FeatureTypes ==
  /\ labels \in [Cluster -> SUBSET Label]
  /\ machines \subseteq Cluster
  /\ stage \in Stage
  /\ clusterFeatures \in [Cluster -> Feature]
  /\ labelsLeft \subseteq Label
  /\ rolesLeft \subseteq WithRoles
  /\ queryForRole \in BOOLEAN
  /\ unvisited \subseteq Featured

LEMMA EnsuredTyped ==
  ASSUME NEW features \in [Cluster -> Feature], NEW S, NEW ls \in SUBSET AllLabels,
         NEW type \in {"label", "openshift", "role"}
  PROVE  /\ Ensured(features, S, type, ls) \in [Cluster -> Feature]
         /\ \A c \in Cluster : features[c] # NoFeature =>
              Ensured(features, S, type, ls)[c] # NoFeature
BY DEF Ensured, Feature

LEMMA StepFeatureTypes == IInv /\ FeatureTypes /\ [Next]_vars => FeatureTypes'
<1> SUFFICES ASSUME IInv, FeatureTypes, [Next]_vars PROVE FeatureTypes'
  OBVIOUS
<1> USE DEF FeatureTypes, Stage, WithRoles
<1>1. CASE UNCHANGED vars
  BY <1>1 DEF vars, world, roleVars, Featured
<1>2. ASSUME NEW S \in SUBSET Labelled, NEW first \in [S -> Label], DetectLabels(S, first)
      PROVE  FeatureTypes'
  <2>1. Labelled \subseteq Cluster
    BY DEF Labelled
  <2>2. \A c \in S : ChosenLabels(c, first[c]) \subseteq Label
    BY <2>1 DEF ChosenLabels
  <2>3. clusterFeatures' \in [Cluster -> Feature]
    BY <1>2, <2>2 DEF DetectLabels, Feature, NoFeature, AllLabels
  <2>4. unvisited = {}
    BY <1>2 DEF DetectLabels, IInv, Maps, Featured
  <2> QED BY <1>2, <2>2, <2>3, <2>4 DEF DetectLabels, world, roleVars
<1>3. ASSUME NEW l \in labelsLeft, NEW S, NEW answer, CreateLabelGroups(l, S, answer)
      PROVE  FeatureTypes'
  <2>1. /\ clusterFeatures' = Ensured(clusterFeatures, S, "label", {})
        /\ labelsLeft' = labelsLeft \ {l} /\ UNCHANGED <<world, stage, roleVars, unvisited>>
    BY <1>3 DEF CreateLabelGroups
  <2> QED BY <2>1, EnsuredTyped DEF world, roleVars, Featured
<1>4. CASE LabelsDone
  BY <1>4 DEF LabelsDone, world, roleVars, Featured
<1>5. ASSUME NEW M, NEW S, NEW E, NEW answer, DetermineOpenshift(M, S, E, answer)
      PROVE  FeatureTypes'
  <2>1. /\ \/ clusterFeatures' = clusterFeatures
           \/ clusterFeatures' = Ensured(clusterFeatures, M \cup S \cup E, "openshift", {MachineSet})
        /\ stage' = "roles" /\ UNCHANGED <<world, labelsLeft, roleVars, unvisited>>
    BY <1>5 DEF DetermineOpenshift
  <2>2. {MachineSet} \in SUBSET AllLabels
    BY DEF AllLabels
  <2> QED BY <2>1, <2>2, EnsuredTyped DEF world, roleVars, Featured
<1>6. {Role} \in SUBSET AllLabels
  BY DEF AllLabels
<1>7. ASSUME NEW S \in SUBSET WithRoles, AskRoles(S) PROVE FeatureTypes'
  BY <1>7 DEF AskRoles, world, Featured
<1>8. ASSUME NEW c \in rolesLeft, DetectRoles(c) PROVE FeatureTypes'
  <2>1. \/ /\ clusterFeatures' = [clusterFeatures EXCEPT
                                    ![c] = [type |-> "role", labels |-> {Role}]]
           /\ queryForRole' = TRUE
        \/ UNCHANGED <<clusterFeatures, queryForRole>>
    BY <1>8 DEF DetectRoles
  <2>2. [type |-> "role", labels |-> {Role}] \in Feature
    BY <1>6 DEF Feature
  <2>3. clusterFeatures' \in [Cluster -> Feature] /\ queryForRole' \in BOOLEAN
    BY <2>1, <2>2
  <2>4. \A d \in Cluster : clusterFeatures[d] # NoFeature => clusterFeatures'[d] # NoFeature
    BY <2>1 DEF NoFeature
  <2>5. unvisited' \subseteq Featured'
    BY <1>8, <2>4 DEF DetectRoles, Featured
  <2> QED BY <1>8, <2>3, <2>5 DEF DetectRoles, world
<1>9. ASSUME NEW E, NEW answer, CreateRoles(E, answer) PROVE FeatureTypes'
  <2>1. /\ \/ clusterFeatures' = clusterFeatures
           \/ clusterFeatures' = Ensured(clusterFeatures, E, "role", {Role})
        /\ stage' = "visits" /\ UNCHANGED <<world, labelsLeft, roleVars>>
        /\ unvisited' = {c \in Cluster : clusterFeatures'[c] # NoFeature}
    BY <1>9 DEF CreateRoles
  <2>2. clusterFeatures' \in [Cluster -> Feature]
    BY <1>6, <2>1, EnsuredTyped
  <2> QED BY <2>1, <2>2 DEF world, roleVars, Featured
<1>10. ASSUME NEW c, NEW answered, Visit(c, answered) PROVE FeatureTypes'
  BY <1>10 DEF Visit, world, roleVars, Featured
<1>11. CASE Done
  BY <1>11 DEF Done, world, roleVars, Featured
<1> HIDE DEF FeatureTypes
<1> QED BY <1>1, <1>2, <1>3, <1>4, <1>5, <1>7, <1>8, <1>9, <1>10, <1>11 DEF Next

\* A visit writes known groups; the other steps write none.
LEMMA StepGroupsKnown == FeatureTypes /\ GroupsKnown /\ [Next]_vars => GroupsKnown'
<1> SUFFICES ASSUME FeatureTypes, GroupsKnown, [Next]_vars PROVE GroupsKnown'
  OBVIOUS
<1>1. CASE UNCHANGED <<nodeGroups, files>>
  BY <1>1 DEF GroupsKnown
<1>2. ASSUME NEW l \in AllLabels, NEW S, NEW type, NEW features, NEW answer \in [S -> Answers[l]],
             nodeGroups' = Grouped(features, S, type, answer), files' = files
      PROVE  GroupsKnown'
  BY <1>2, GroupedKnown DEF GroupsKnown
<1>3. ASSUME NEW l \in labelsLeft, NEW S, NEW answer \in [S -> Answers[l]],
             CreateLabelGroups(l, S, answer)
      PROVE  GroupsKnown'
  <2>1. l \in AllLabels
    BY DEF FeatureTypes, AllLabels
  <2> QED BY <1>2, <1>3, <2>1 DEF CreateLabelGroups
<1>4. ASSUME NEW M, NEW S, NEW E, NEW answer \in [E -> Answers[MachineSet]],
             DetermineOpenshift(M, S, E, answer)
      PROVE  GroupsKnown'
  <2>1. MachineSet \in AllLabels
    BY DEF AllLabels
  <2> QED BY <1>1, <1>2, <1>4, <2>1 DEF DetermineOpenshift
<1>5. ASSUME NEW E, NEW answer \in [E -> Answers[Role]], CreateRoles(E, answer)
      PROVE  GroupsKnown'
  <2>1. Role \in AllLabels
    BY DEF AllLabels
  <2> QED BY <1>1, <1>2, <1>5, <2>1 DEF CreateRoles
<1>6. ASSUME NEW c \in unvisited, NEW answered, Visit(c, answered) PROVE GroupsKnown'
  <2>1. c \in Cluster
    BY DEF FeatureTypes, Featured
  <2>2. /\ nodeGroups' = IF answered THEN [nodeGroups EXCEPT ![c] = Measured(c)] ELSE nodeGroups
        /\ files' = nodeGroups'
    BY <1>6 DEF Visit, Written
  <2>3. \A d \in Cluster : nodeGroups'[d] \in Known
    BY <2>1, <2>2, MeasuredKnown DEF GroupsKnown
  <2> QED BY <2>2, <2>3 DEF GroupsKnown
<1> QED BY <1>1, <1>3, <1>4, <1>5, <1>6
        DEF Next, DetectLabels, LabelsDone, AskRoles, DetectRoles, Done, vars

\* Every reachable state has known groups and typed features.
THEOREM CountingInvariant == Spec => [](IInv /\ FeatureTypes /\ GroupsKnown)
<1>1. Init => FeatureTypes
  <2>1. NoFeature \in Feature
    BY DEF NoFeature, Feature
  <2> QED BY <2>1 DEF Init, FeatureTypes, Stage, Featured
<1>2. Init => GroupsKnown
  BY NoGroupsKnown DEF Init, GroupsKnown
<1> QED BY <1>1, <1>2, StepFeatureTypes, StepGroupsKnown, GroupsInvariant, PTL DEF Spec

\* The types of the variables.
THEOREM TypesHold == Spec => []TypeOK
<1>1. FeatureTypes /\ GroupsKnown => TypeOK
  <2>1. \A gs \in Known : GroupsOK(gs)
    BY DEF Known, GroupsOK, Counted
  <2> QED BY <2>1 DEF FeatureTypes, GroupsKnown, TypeOK
<1> QED BY <1>1, CountingInvariant, PTL

\* No node is counted twice in its group, in whatever order and however often
\* the series of the answers name it.
THEOREM NodesCountedOnce == Spec => []NoNodeCountedTwice
<1>1. GroupsKnown => NoNodeCountedTwice
  <2> SUFFICES ASSUME GroupsKnown, NEW c \in Cluster, NEW g \in DOMAIN nodeGroups[c]
               PROVE  nodeGroups[c][g] \in Counted
    BY DEF NoNodeCountedTwice, Counted
  <2> QED BY DEF GroupsKnown, Known
<1> QED BY <1>1, CountingInvariant, PTL
=============================================================================
