--------------------------- MODULE ClusterTotals ---------------------------
(***************************************************************************)
(* The totals of a cluster (internal/cluster/cluster.go), and the calls    *)
(* for time series that are made in one form or another, depending on what *)
(* the clusters were found to answer (internal/node/node.go,               *)
(* internal/cluster/cluster.go, internal/common/workload.go).              *)
(***************************************************************************)
EXTENDS Nodes

ClusterEffect(metric, resource, attribute) ==
  [metric |-> metric, resource |-> resource, attribute |-> attribute]

ClusterEffects == {
  ClusterEffect("limits", "memory", "MemoryLimit"),
  ClusterEffect("limits", "cpu", "CpuLimit"),
  ClusterEffect("requests", "memory", "MemoryRequest"),
  ClusterEffect("requests", "cpu", "CpuRequest"),
  ClusterEffect("cpuLimit", None, "CpuLimit"),
  ClusterEffect("cpuRequest", None, "CpuRequest"),
  ClusterEffect("memLimit", None, "MemoryLimit"),
  ClusterEffect("memRequest", None, "MemoryRequest")}

\* One series of getClusterMetric.
getClusterMetric(metric, cl, s) ==
  LET set == {e.attribute : e \in {e \in ClusterEffects :
                e.metric = metric /\ e.resource \in {None, Label(s, "resource")}}}
  IN [cl EXCEPT !.totals = Over([a \in set |-> s.value], @)]

-----------------------------------------------------------------------------
(* Calls for time series: a form is the wrapper of the query, whether it is *)
(* generic (TRUE) or legacy (FALSE), or None.                               *)

CallsOf(part, metrics, form) ==
  [part : {part}, metric : metrics, form : {form}]

\* The legacy form has no query for ephemeral storage.
reservationMetrics(f) ==
  {"cpuReservationPercent", "memoryReservationPercent"}
    \cup (IF f THEN {"ephemeralStorageReservationPercent"} ELSE {})

\* conditionalQueries: the legacy form has none for GPUs.
conditionalMetrics(f) ==
  {"cpuRequests", "cpuReservationPercent", "memoryRequests", "memoryReservationPercent"}
    \cup (IF f THEN {"gpuRequests", "gpuReservationPercent"} ELSE {})

ephemeralMetrics == {"ephemeralStorageUsageBytes", "ephemeralStorageUsageUtilization"}

dcgmMetrics == {"gpuUtilizationAvg", "gpuUtilizationGpusAvg", "gpuMemUtilizationAvg",
  "gpuMemUsedAvg", "gpuPowerUsageAvg"}

\* What the node exporter measures, of nodes and of clusters.
ioMetrics == {"diskReadBytes", "diskWriteBytes", "diskTotalBytes", "diskReadOps",
  "diskWriteOps", "diskTotalOps", "netReceivedBytes", "netSentBytes", "netTotalBytes",
  "netReceivedPackets", "netSentPackets", "netTotalPackets"}

nodeMetrics ==
  {"cpuUtilization", "memoryBytes", "memoryUtilization", "memoryActualWorkload",
   "memoryActualUtilization", "memoryWs", "memoryWsUtilization", "oomKillEvents",
   "cpuThrottlingEvents"} \cup ioMetrics

clusterMetrics == {"cpuUtilization", "memoryBytes", "memoryActualWorkload"} \cup ioMetrics

quotaMetrics == {"cpuLimits", "cpuRequests", "memLimits", "memRequests", "podsLimits"}
=============================================================================
