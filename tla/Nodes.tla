------------------------------- MODULE Nodes -------------------------------
(***************************************************************************)
(* What a cluster's answers say about its nodes and about the exporters    *)
(* that run on them (internal/node).  Each handler takes what is known of  *)
(* a cluster, a record, and one series of the answer.                      *)
(*                                                                         *)
(* A series is a record of its labels and its last value; a label it lacks *)
(* is a field it lacks.  A node's values are named after the columns they  *)
(* are printed in and counted in the unit printed; an unknown one is left  *)
(* out.                                                                    *)
(***************************************************************************)
EXTENDS KubeVersions, AttributeFiles

CONSTANT Address  \* the values of the label instance that are network addresses

NewCluster(unwritable) ==
  [versions |-> NewClusterVersions,
   exporters |-> {},       \* those determined for the cluster
   nodes |-> <<>>,         \* by name
   roles |-> {},           \* ClusterNodeRoles
   unwritable |-> unwritable,
   open |-> {},            \* the write-through workload files that are open
   rows |-> <<>>,          \* by file, the nodes and values written
   totals |-> <<>>,        \* the cluster's own values
   crqs |-> <<>>,          \* cluster resource quotas by name
   rqs |-> <<>>]           \* resource quotas by <<namespace, name>>

Label(s, label) == IF label \in DOMAIN s THEN s[label] ELSE ""
LabelPairs(s) == {<<l, s[l]>> : l \in DOMAIN s \ {"value"}}

\* The values of f, and those of g for what f has no value for.
Over(f, g) == [x \in DOMAIN f \cup DOMAIN g |-> IF x \in DOMAIN f THEN f[x] ELSE g[x]]

-----------------------------------------------------------------------------
(* Exporters (DetermineExporters) *)

Wrappers == <<"nodeLabel", "podIp", "other">>

\* How the node of a series of the node exporter is told: by a label, by the
\* address of its pod, or by an instance taken for the node's name.
NodeIndicator(s) ==
  IF "node" \in DOMAIN s THEN {"nodeLabel"}
  ELSE IF "instance" \notin DOMAIN s THEN {}
  ELSE IF s.instance \in Address THEN {"podIp"} ELSE {"other"}

\* The last series of the answer decides for the cluster.
DetermineExporter(exporter, cl, answer) ==
  IF answer = <<>> THEN cl
  ELSE [cl EXCEPT !.exporters = @ \cup
          (IF exporter = "node" THEN NodeIndicator(answer[Len(answer)]) ELSE {exporter})]

-----------------------------------------------------------------------------
(* Nodes *)

NoProvider == [provider |-> "", id |-> ""]

\* The version is the one of the registry, or else the kubelet's.
createNode(cl, s) ==
  LET name == Label(s, "node")
      version == GetNodeVersion(cl.versions, name)
      n == IF name \in DOMAIN cl.nodes THEN cl.nodes[name]
           ELSE [providerId |-> IF "provider_id" \in DOMAIN s THEN s.provider_id ELSE NoProvider,
                 k8sVersion |-> IF version # "" THEN version ELSE Label(s, "kubelet_version"),
                 labels |-> {}, gpuLabels |-> {}, taints |-> <<>>, values |-> <<>>]
  IN [cl EXCEPT !.nodes = Over([x \in {name} |-> [n EXCEPT !.labels = @ \cup LabelPairs(s)]], @)]

\* The node a series is about: at most one.
getNode(cl, s, label) == {Label(s, label)} \cap DOMAIN cl.nodes

\* Where the cloud provider is AWS or Oracle, names are reused: the instance's
\* unique id is part of the name printed.
overrideNodeName(cl, name) ==
  IF /\ name \in DOMAIN cl.nodes
     /\ cl.nodes[name].providerId.provider \in {"eks", "oke"}
  THEN <<name, cl.nodes[name].providerId.id>> ELSE <<name>>

NvidiaLabels ==
  [GpuModel |-> "nvidia_gpu_product", GpuTotal |-> "nvidia_gpu_count",
   GpuReplicas |-> "nvidia_gpu_replicas", GpuMemoryTotal |-> "nvidia_gpu_memory",
   GpuSharingStrategy |-> "nvidia_gpu_sharing_strategy",
   GpuMigCapable |-> "nvidia_mig_capable", GpuMpsCapable |-> "nvidia_mps_capable",
   GpuVgpuPresent |-> "nvidia_vgpu_present"]
MigLabels == [GpuMigStrategy |-> "nvidia_mig_strategy"]
GkeLabels ==
  [GpuModel |-> "gke_accelerator", GpuSharingStrategy |-> "gke_gpu_sharing_strategy",
   GpuReplicas |-> "gke_max_shared_clients_per_gpu"]

LabelNamesOf(labels) == {labels[a] : a \in DOMAIN labels}

isGpuLabel(l) ==
  l \in LabelNamesOf(NvidiaLabels) \cup LabelNamesOf(MigLabels) \cup LabelNamesOf(GkeLabels)
          \cup {"nvidia_gpu_present"}

\* The values of these labels that the series has.
ValuesOf(labels, s) ==
  [a \in {a \in DOMAIN labels : labels[a] \in DOMAIN s} |-> s[labels[a]]]

\* Labels of GKE count where NVIDIA's don't say a GPU is present; what they lack
\* is cleared.
applyGpuLabels(values, s) ==
  LET gke == ValuesOf(GkeLabels, s)
      nvidia == Over([GpuVendor |-> "Nvidia"], Over(ValuesOf(NvidiaLabels, s), values))
      cleared == [GpuVendor |-> "Nvidia", GpuModel |-> "", GpuSharingStrategy |-> "", GpuReplicas |-> 0]
      mps == IF Label(s, "gke_gpu_sharing_strategy") = "mps" THEN [GpuMpsCapable |-> "true"] ELSE <<>>
  IN IF Label(s, "nvidia_gpu_present") = "true"
     THEN IF "GpuMigCapable" \in DOMAIN nvidia /\ nvidia.GpuMigCapable = "true"
          THEN Over(ValuesOf(MigLabels, s), nvidia) ELSE nvidia
     ELSE IF gke = <<>> THEN values
     ELSE Over(gke, Over(cleared, Over(mps, values)))

\* One series of getNodeMetricString.  Roles are noted for the cluster too, since
\* node groups are made of them.
getNodeMetricString(cl, s) ==
  LET found == getNode(cl, s, "node")
      Described(n) ==
        [n EXCEPT !.values = applyGpuLabels(@, s),
                  !.labels = @ \cup {p \in LabelPairs(s) : ~isGpuLabel(p[1])},
                  !.gpuLabels = @ \cup {p \in LabelPairs(s) : isGpuLabel(p[1])}]
  IN IF found = {} THEN cl
     ELSE [cl EXCEPT !.nodes = Over([n \in found |-> Described(@[n])], @),
                     !.roles = @ \cup {s[l] : l \in DOMAIN s \cap {"role"}}]

getNodeTaints(cl, s) ==
  LET taint == <<Label(s, "key"), Label(s, "value"), Label(s, "effect")>>
      Tainted(n) == [n EXCEPT !.taints = Append(@, taint)]
  IN [cl EXCEPT !.nodes = Over([n \in getNode(cl, s, "node") |-> Tainted(@[n])], @)]

NodeEffect(metric, resource, attribute, file) ==
  [metric |-> metric, resource |-> resource, attribute |-> attribute, file |-> file]

\* The value a metric of a resource sets, and the workload file it goes to.
NodeEffects ==
  {NodeEffect("capacity", "cpu", "CapacityCpu", None),
   NodeEffect("capacity", "memory", "CapacityMemory", None),
   NodeEffect("capacity", "nvidia_com_gpu", "CapacityGpu", None),
   NodeEffect("capacity", "pods", "CapacityPods", None),
   NodeEffect("capacity", "ephemeral_storage", "CapacityEphemeralStorage", None),
   NodeEffect("capacity", "hugepages_2Mi", "CapacityHugePages", None),
   NodeEffect("allocatable", "cpu", "AllocatableCpu", None),
   NodeEffect("allocatable", "memory", "AllocatableMemory", None),
   NodeEffect("allocatable", "nvidia_com_gpu", "AllocatableGpu", None),
   NodeEffect("allocatable", "pods", "AllocatablePods", None),
   NodeEffect("allocatable", "ephemeral_storage", "AllocatableEphemeralStorage", None),
   NodeEffect("allocatable", "hugepages_2Mi", "AllocatableHugePages", None),
   NodeEffect("limits", "cpu", "CpuLimit", "cpuLimits"),
   NodeEffect("limits", "memory", "MemoryLimit", "memoryLimits"),
   NodeEffect("limits", "nvidia_com_gpu", "GpuLimit", "gpuLimits"),
   NodeEffect("limits", "ephemeral_storage", None, "ephemeralStorageLimits"),
   NodeEffect("requests", "cpu", "CpuRequest", "cpuRequests"),
   NodeEffect("requests", "memory", "MemoryRequest", "memoryRequests"),
   NodeEffect("requests", "nvidia_com_gpu", "GpuRequest", "gpuRequests"),
   NodeEffect("requests", "ephemeral_storage", None, "ephemeralStorageRequests"),
   NodeEffect("cpuLimit", None, "CpuLimit", "cpuLimits"),
   NodeEffect("cpuRequest", None, "CpuRequest", "cpuRequests"),
   NodeEffect("memLimit", None, "MemoryLimit", "memoryLimits"),
   NodeEffect("memRequest", None, "MemoryRequest", "memoryRequests"),
   NodeEffect("cpuCapacity", None, "CapacityCpu", None),
   NodeEffect("memCapacity", None, "CapacityMemory", None),
   NodeEffect("podsCapacity", None, "CapacityPods", None),
   NodeEffect("cpuAllocatable", None, "AllocatableCpu", None),
   NodeEffect("memAllocatable", None, "AllocatableMemory", None),
   NodeEffect("podsAllocatable", None, "AllocatablePods", None),
   NodeEffect("netSpeed", None, "NetworkSpeed", None),
   NodeEffect("memTotal", None, "MemoryTotalBytes", None)}

NodeEffectsOf(metric, s) ==
  {e \in NodeEffects : e.metric = metric /\ e.resource \in {None, Label(s, "resource")}}

\* The values after a series of this metric.  Those the labels gave stay, but for
\* the GPU's model.
NodeValuesAfter(values, metric, s) ==
  LET attributes == {e.attribute : e \in NodeEffectsOf(metric, s)} \ {None}
      ifUnknown == CASE "AllocatableGpu" \in attributes -> {"GpuTotal", "GpuReplicas"}
                     [] metric = "gpuMemoryTotal" -> {"GpuMemoryTotal"}
                     [] OTHER -> {}
      model == IF metric = "modelName" THEN ValuesOf([GpuModel |-> "modelName"], s) ELSE <<>>
  IN Over(model, Over([a \in attributes |-> s.value], Over(values, [a \in ifUnknown |-> s.value])))

\* WriteWorkload for a node: every series is written.  A file that can't be
\* created costs the rows, and is tried again at the next series.
WriteNodeWorkload(cl, file, name, value) ==
  IF file \notin cl.open /\ file \in cl.unwritable THEN cl
  ELSE LET row == <<overrideNodeName(cl, name), value>>
           before == IF file \in cl.open THEN cl.rows[file] ELSE <<>>
       IN [cl EXCEPT !.open = @ \cup {file}, !.rows = Over([x \in {file} |-> Append(before, row)], @)]

\* One series of getNodeMetric; the node is named by this label.
getNodeMetric(metric, label, cl, s) ==
  LET found == getNode(cl, s, label)
      due == {e.file : e \in NodeEffectsOf(metric, s)} \ {None}
      Measured(n) == [n EXCEPT !.values = NodeValuesAfter(@, metric, s)]
      measured == [cl EXCEPT !.nodes = Over([n \in found |-> Measured(@[n])], @)]
  IN IF found = {} \/ due = {} THEN measured
     ELSE WriteNodeWorkload(measured, CHOOSE f \in due : TRUE, CHOOSE n \in found : TRUE, s.value)
=============================================================================
