-------------------------- MODULE ContainerObjects --------------------------
(***************************************************************************)
(* The metrics of what holds containers: objects (getObjectMetric and its  *)
(* variants), namespaces, and autoscalers (getHpa, getHpaMetricString), of *)
(* internal/container/collection.go.                                       *)
(***************************************************************************)
EXTENDS ContainerMetrics

VARIABLE hpas  \* by <<cluster, namespace, name>>, the autoscalers

\* The labels of a series and the namespace they name are known.
InNamespace(c, s, labels) ==
  HasLabels(s, labels \cup {"namespace"}) /\ s.namespace \in DOMAIN namespaces[c]

\* The objects a series of an object of this kind is about: its owner, or (same)
\* only itself.
ObjectOf(kind, label, same, c, s) ==
  IF InNamespace(c, s, {label})
  THEN getObject(c, <<kind, s[label]>>, s.namespace, same) ELSE {}

metricRequireSameObject(metric) == metric \in {"createTime", "currentSize"}

qosClassRank(class) ==
  CASE class = "Guaranteed" -> 3 [] class = "Burstable" -> 2 [] class = "BestEffort" -> 1
    [] OTHER -> 0

HigherQosClass(class, other) ==
  IF qosClassRank(other) > qosClassRank(class) THEN other ELSE class

UpdatedObject(obj, metric, s) ==
  CASE metric = "currentSize" -> [obj EXCEPT !.currentSize = s.value]
    [] metric = "createTime" -> [obj EXCEPT !.createTime = s.value]
    [] metric = "qosClass" ->
         [obj EXCEPT !.qosClass = IF HasLabels(s, {"qos_class"})
                                  THEN HigherQosClass(@, s.qos_class) ELSE @]
    [] OTHER -> [obj EXCEPT !.labelMap = @ \cup {<<metric, s.value>>}]

SetObjectMetric(metric, keys, c, s) ==
  /\ objects' = [objects EXCEPT
       ![c] = [k \in DOMAIN @ |-> IF k \in keys THEN UpdatedObject(@[k], metric, s) ELSE @[k]]]
  /\ IF metric = "currentSize" /\ keys # {}
     THEN WriteWorkload("currentSize", c,
                        {cid \in DOMAIN containers[c] : cid[1] \in keys}, TRUE, s)
     ELSE UNCHANGED <<writers, written, rows>>
  /\ UNCHANGED <<ownerships, detectedOwners, detectedOwnershipTypes, namespaces,
                 containers, walk, clusterLabelHolders, detectedHolders, exporters,
                 unwritable, hpas>>

GetObjectMetric(kind, metric, c, s) ==
  SetObjectMetric(metric,
    ObjectOf(kind, TypeLabelName(kind), metricRequireSameObject(metric), c, s), c, s)

\* The owners of objects of this kind: one holder for each kind of owner that
\* was detected in the cluster.
GetOwnedObjectMetric(kind, metric, c, s) ==
  SetObjectMetric(metric,
    UNION {ObjectOf(t[3], "owner_name", metricRequireSameObject(metric), c, s) :
             t \in {t \in detectedOwnershipTypes : t[1] = kind /\ t[2] = c}}, c, s)

Described(obj, labels) == [obj EXCEPT !.labelMap = @ \cup labels]

\* getObjectMetricString, with the node label for the pods' own information.
GetObjectLabels(kind, all, c, s) ==
  LET keys == ObjectOf(kind, TypeLabelName(kind), FALSE, c, s)
      labels == IF all THEN Labels(s) ELSE LabelsButNode(s)
  IN /\ objects' = [objects EXCEPT
          ![c] = [k \in DOMAIN @ |-> IF k \in keys THEN Described(@[k], labels) ELSE @[k]]]
     /\ UNCHANGED <<ownerships, detectedOwners, detectedOwnershipTypes, namespaces,
                    containers, walk, metricVars, hpas>>

-----------------------------------------------------------------------------
(* Namespaces *)

getNamespaceMetricString(c, s) ==
  IF InNamespace(c, s, {})
  THEN [namespaces EXCEPT ![c][s.namespace].labelMap = @ \cup Labels(s)]
  ELSE namespaces

LimitOf(resource) ==
  CASE resource \in {"requests.cpu", "cpu"} -> {"cpuRequest"}
    [] resource = "limits.cpu" -> {"cpuLimit"}
    [] resource \in {"requests.memory", "memory"} -> {"memRequest"}
    [] resource = "limits.memory" -> {"memLimit"}
    [] resource \in {"count/pods", "pods"} -> {"podsLimit"}
    [] OTHER -> {}

getNamespaceLimits(c, s) ==
  IF InNamespace(c, s, {"resource"})
  THEN [namespaces EXCEPT ![c][s.namespace].limits =
          [l \in DOMAIN @ |-> IF l \in LimitOf(s.resource) THEN s.value ELSE @[l]]]
  ELSE namespaces

GetNamespaceMetric(metric, c, s) ==
  /\ namespaces' = IF metric = "limits" THEN getNamespaceLimits(c, s)
                   ELSE getNamespaceMetricString(c, s)
  /\ UNCHANGED <<ownerships, detectedOwners, detectedOwnershipTypes, objects,
                 containers, walk, metricVars, hpas>>

-----------------------------------------------------------------------------
(* Autoscalers *)

\* The map of classified autoscalers holds those with an object, the other map
\* the rest; a name is added to one only if it is in neither.
newHpa(obj, targets) ==
  [obj |-> obj,
   metricNames |-> <<IF targets = <<>> THEN "" ELSE targets[1].name>>,
   metricTarget |-> IF targets = <<>> THEN [type |-> "", value |-> UnknownValue]
                    ELSE [type |-> targets[1].type, value |-> targets[1].value],
   targetMetrics |-> IF targets = <<>> THEN <<[name |-> "", type |-> "", value |-> UnknownValue]>>
                     ELSE targets,
   labels |-> {}]

isClassified(h) == h.obj # None

\* A metric of another name joins the names, and its own target no longer is the
\* autoscaler's only one.
merge(h, target) ==
  LET known == \E i \in DOMAIN h.targetMetrics : h.targetMetrics[i].name = target.name
      all == [h EXCEPT !.targetMetrics = Append(@, target)]
  IN IF known THEN all
     ELSE [all EXCEPT !.metricNames = Append(@, target.name),
                      !.metricTarget = [type |-> "", value |-> UnknownValue]]

SetHpa(c, id, h) ==
  /\ hpas' = Assigned(hpas, id, h)
  /\ IF id \notin DOMAIN hpas /\ isClassified(h)
     THEN objects' = [objects EXCEPT ![c][h.obj].hpa = id]
     ELSE UNCHANGED objects

UnchangedButHpas ==
  UNCHANGED <<ownerships, detectedOwners, detectedOwnershipTypes, namespaces,
              containers, walk, metricVars>>

WithLabels(h, s) == [h EXCEPT !.labels = @ \cup LabelsButNode(s)]

\* One series of getHpa: a metric the autoscaler scales its target by.  The
\* target must be an object with containers.
GetHpa(kind, c, s) ==
  LET label == TypeLabelName(kind)
      target == Key(<<ToLower(s.scaletargetref_kind), s.scaletargetref_name>>, s.namespace)
      id == <<c, s.namespace, s[label]>>
      metric == [name |-> s.metric_name, type |-> s.metric_target_type, value |-> s.value]
  IN /\ IF /\ InNamespace(c, s, {"scaletargetref_kind", "scaletargetref_name", label,
                                 "metric_name", "metric_target_type"})
           /\ target \in DOMAIN objects[c]
        THEN SetHpa(c, id, WithLabels(IF id \in DOMAIN hpas THEN merge(hpas[id], metric)
                                      ELSE newHpa(target, <<metric>>), s))
        ELSE UNCHANGED <<hpas, objects>>
     /\ UnchangedButHpas

hpaTargets == <<"deployment", "statefulset", "replicaset", "replicationcontroller", "rollout">>

\* The object of the autoscaler's name, of the first kind that has one.
GuessedTarget(c, name, ns) ==
  LET found == {i \in DOMAIN hpaTargets : Key(<<hpaTargets[i], name>>, ns) \in DOMAIN objects[c]}
  IN IF found = {} THEN None
     ELSE Key(<<hpaTargets[CHOOSE i \in found : \A j \in found : i <= j], name>>, ns)

\* One series of getHpaMetricString: labels, of an autoscaler known or not.
GetHpaLabels(kind, c, s) ==
  LET label == TypeLabelName(kind)
      id == <<c, s.namespace, s[label]>>
  IN /\ IF InNamespace(c, s, {label})
        THEN SetHpa(c, id, WithLabels(IF id \in DOMAIN hpas THEN hpas[id]
                                      ELSE newHpa(GuessedTarget(c, s[label], s.namespace), <<>>), s))
        ELSE UNCHANGED <<hpas, objects>>
     /\ UnchangedButHpas
=============================================================================
