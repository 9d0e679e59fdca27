-------------------------- MODULE ContainerMetrics --------------------------
(***************************************************************************)
(* The metrics of containers (getContainerMetric and getContainer of       *)
(* internal/container/collection.go) and the write-through workload files  *)
(* some of them go to (WriteWorkload of internal/common/workload.go).      *)
(*                                                                         *)
(* A container is found by the labels of a series, whose names differ      *)
(* between versions of the kubelet: the first series recognised in a       *)
(* cluster decides which names count there.                                *)
(***************************************************************************)
EXTENDS ContainerOwners

VARIABLES
  clusterLabelHolders,  \* by cluster, the names of labels that count, or None
  detectedHolders,      \* the ones some cluster has decided on
  exporters,            \* <<exporter, cluster>> (determined once, see Nodes)
  unwritable,           \* <<cluster, file>> the file system refuses to create
  writers,              \* by registered file, the clusters it is open in
  written,              \* <<file, cluster, container>> already written
  rows                  \* by <<cluster, file, container>>, the values in its rows

metricVars == <<clusterLabelHolders, detectedHolders, exporters, unwritable,
                writers, written, rows>>

-----------------------------------------------------------------------------
(* Finding the container *)

LabelHolder == {"std", "name"}
ASSUME HoldersAssumption == None \notin LabelHolder

PodLabel(h) == IF h = "std" THEN "pod" ELSE "pod_name"
ContainerLabel(h) == IF h = "std" THEN "container" ELSE "container_name"
LabelNames(h) == {"namespace", PodLabel(h), ContainerLabel(h)}

\* Whose labels a series of this cluster is read by; std is tried first.
HolderOf(c, s) ==
  LET fitting == {h \in LabelHolder : HasLabels(s, LabelNames(h))}
      allowed == IF clusterLabelHolders[c] = None THEN LabelHolder
                 ELSE {clusterLabelHolders[c]}
  IN IF "std" \in fitting \cap allowed THEN "std"
     ELSE IF "name" \in fitting \cap allowed THEN "name" ELSE None

DetectHolder(c, s) ==
  IF HolderOf(c, s) # None
  THEN /\ clusterLabelHolders' = [clusterLabelHolders EXCEPT ![c] = HolderOf(c, s)]
       /\ detectedHolders' = detectedHolders \cup {HolderOf(c, s)}
  ELSE UNCHANGED <<clusterLabelHolders, detectedHolders>>

\* The container, if there is one, a series is about.
getContainer(c, s) ==
  LET h == HolderOf(c, s)
  IN IF h = None THEN {}
     ELSE {<<k, s[ContainerLabel(h)]>> : k \in getOwner(c, <<"pod", s[PodLabel(h)]>>, s.namespace)}
            \cap DOMAIN containers[c]

\* Beyla names the owner itself.
getOTelContainer(c, s) ==
  IF HasLabels(s, {"k8s_namespace_name", "k8s_kind", "k8s_owner_name", "k8s_container_name"})
  THEN {<< <<ToLower(s.k8s_kind), s.k8s_owner_name, s.k8s_namespace_name>>,
           s.k8s_container_name>>} \cap DOMAIN containers[c]
  ELSE {}

-----------------------------------------------------------------------------
(* Exporters *)

HasExporter(e) == \E c \in Cluster : <<e, c>> \in exporters

\* Kubex comes before DCGM where both are.
GetGpuExporterType(c) ==
  IF <<"kubexGpu", c>> \in exporters THEN "kubexGpu"
  ELSE IF <<"dcgm", c>> \in exporters THEN "dcgm" ELSE None

-----------------------------------------------------------------------------
(* Write-through workload files *)

WorkloadMetric == {"currentSize", "cpuLimits", "cpuRequests", "memoryLimits",
  "memoryRequests", "gpuLimits", "gpuRequests", "ephemeralStorageRequests",
  "ephemeralStorageLimits"}

AddMetricWorkloadWriters == writers' = [f \in WorkloadMetric |-> {}]

CloseAndClearWorkloadWriters == writers' = <<>> /\ written' = {}

\* Mutant: every series of a container is written.
WriteAlways(f, c, cid) == TRUE

\* A container's rows come from the first series about it.
ShouldWrite(f, c, cid) == <<f, c, cid>> \notin written

\* WriteWorkload for one container, or (all) for those of an object.  A file that
\* can't be created costs the rows, and is tried again at the next series.
WriteWorkload(f, c, cids, all, s) ==
  LET due == {cid \in cids : all \/ ShouldWrite(f, c, cid)}
      fails == c \notin writers[f] /\ <<c, f>> \in unwritable
      keys == {<<c, f, cid>> : cid \in due}
  IN /\ written' = IF all THEN written ELSE written \cup {<<f, c, cid>> : cid \in cids}
     /\ IF fails \/ due = {} THEN UNCHANGED <<writers, rows>>
        ELSE /\ writers' = [writers EXCEPT ![f] = @ \cup {c}]
             /\ rows' = [r \in DOMAIN rows \cup keys |->
                  IF r \notin keys THEN rows[r]
                  ELSE IF r \in DOMAIN rows THEN Append(rows[r], s.value) ELSE <<s.value>>]

-----------------------------------------------------------------------------
(* What a metric does to the container it is about *)

Effect(metric, resource, attribute, file, exporter) ==
  [metric |-> metric, resource |-> resource, attribute |-> attribute,
   file |-> file, exporter |-> exporter]

\* The attributes that are set to the last value, and the files it goes to.  GPU
\* limits and requests count only from the exporter that is used in the cluster.
\* The legacy memory requests go to the file of CPU requests.
Effects == {
  Effect("limits", "memory", "memLimit", "memoryLimits", None),
  Effect("limits", "cpu", "cpuLimit", "cpuLimits", None),
  Effect("limits", "nvidia_com_gpu", "gpuLimit", "gpuLimits", "dcgm"),
  Effect("limits", "ephemeral_storage", "ephemeralStorageLimit", "ephemeralStorageLimits", None),
  Effect("requests", "memory", "memRequest", "memoryRequests", None),
  Effect("requests", "cpu", "cpuRequest", "cpuRequests", None),
  Effect("requests", "nvidia_com_gpu", "gpuRequest", "gpuRequests", "dcgm"),
  Effect("requests", "ephemeral_storage", "ephemeralStorageRequest", "ephemeralStorageRequests", None),
  Effect("gpuRequest", None, "gpuRequest", "gpuRequests", "kubexGpu"),
  Effect("gpuLimit", None, "gpuLimit", "gpuLimits", "kubexGpu"),
  Effect("cpuLimit", None, "cpuLimit", "cpuLimits", None),
  Effect("cpuRequest", None, "cpuRequest", "cpuRequests", None),
  Effect("memLimit", None, "memLimit", "memoryLimits", None),
  Effect("memRequest", None, "memRequest", "cpuRequests", None),
  Effect("memory", None, "memory", None, None),
  Effect("powerState", None, "powerState", None, None)}

EffectsOf(metric, c, s) ==
  {e \in Effects : /\ e.metric = metric
                   /\ e.resource # None => HasLabels(s, {"resource"}) /\ s.resource = e.resource
                   /\ e.exporter \in {None, GetGpuExporterType(c)}}

\* The labels of a series; true node names come with kube_pod_info only.
Labels(s) == {<<l, s[l]>> : l \in DOMAIN s \ {"value"}}
LabelsButNode(s) == {<<l, s[l]>> : l \in DOMAIN s \ {"value", "node"}}

AddGpuMemory(v, n) ==
  [v EXCEPT !["gpuMemCount"] = IF @ = UnknownValue THEN 1 ELSE @ + 1,
            !["gpuMemTotal"] = IF v["gpuMemCount"] = UnknownValue THEN n ELSE @ + n]

\* The container after a series of this metric.
Updated(container, metric, c, s) ==
  [container EXCEPT
     !.value = IF metric = "gpuMemoryTotal" THEN AddGpuMemory(@, s.value)
               ELSE [a \in DOMAIN @ |->
                       IF \E e \in EffectsOf(metric, c, s) : e.attribute = a
                       THEN s.value ELSE @[a]],
     !.restarts = IF metric = "restarts" THEN @ + s.value ELSE @,
     !.labelMap = CASE metric \in {"memory", "containerLabels"} -> @ \cup LabelsButNode(s)
                    [] metric = "runtime" /\ HasLabels(s, {"telemetry_sdk_language"}) ->
                         @ \cup {<<"runtime", s.telemetry_sdk_language>>}
                    [] OTHER -> @]

\* One series of getContainerMetric (getContainerMetricString, for the labels).
GetContainerMetric(metric, c, s) ==
  LET found == IF metric = "runtime" THEN getOTelContainer(c, s) ELSE getContainer(c, s)
      files == {e.file : e \in EffectsOf(metric, c, s)} \ {None}
  IN /\ IF metric = "runtime" THEN UNCHANGED <<clusterLabelHolders, detectedHolders>>
        ELSE DetectHolder(c, s)
     /\ containers' = [containers EXCEPT
          ![c] = [cid \in DOMAIN @ |->
                    IF cid \in found THEN Updated(@[cid], metric, c, s) ELSE @[cid]]]
     /\ IF found = {} \/ files = {} THEN UNCHANGED <<writers, written, rows>>
        ELSE WriteWorkload(CHOOSE f \in files : TRUE, c, found, FALSE, s)
     /\ UNCHANGED <<ownerships, detectedOwners, detectedOwnershipTypes, namespaces,
                    objects, walk, exporters, unwritable>>

MetricsInit ==
  /\ clusterLabelHolders = [c \in Cluster |-> None]
  /\ detectedHolders = {}
  /\ writers = <<>>
  /\ written = {}
  /\ rows = <<>>
=============================================================================
