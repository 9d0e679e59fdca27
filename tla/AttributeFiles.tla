--------------------------- MODULE AttributeFiles ---------------------------
(***************************************************************************)
(* Configuration and attribute files: a file per cluster and kind with a   *)
(* header and a row per entity, written in the order of a map.  The first  *)
(* error ends the file: it keeps the rows written so far.                  *)
(*                                                                         *)
(* A cell is named after what is printed into it, a header is the list of  *)
(* the columns it announces; "" is an empty cell.                          *)
(***************************************************************************)
EXTENDS Integers, Sequences, FiniteSets, TLC

VARIABLES
  files,        \* by <<cluster, name>>, the header and the entities' rows
  interrupted   \* the files an error cuts short

\* Creates the file, if that can be done, and writes its header and a row for
\* each entity; an interrupted file keeps some of them.
WriteFile(id, creatable, header, rows) ==
  IF ~creatable THEN UNCHANGED files
  ELSE \E kept \in IF id \in interrupted THEN SUBSET DOMAIN rows ELSE {DOMAIN rows} :
         files' = [f \in DOMAIN files \cup {id} |->
                     IF f = id THEN [header |-> header, rows |-> [e \in kept |-> rows[e]]]
                     ELSE files[f]]

Blank(n) == [i \in 1 .. n |-> ""]

Aligned(row, header) ==
  /\ Len(row) = Len(header)
  /\ \A i \in DOMAIN row : row[i] \in {"", header[i]}

\* The row has an empty cell too many, the n-th: what follows it is printed under
\* the wrong columns.
Shifted(row, header, n) ==
  Aligned(row, [i \in 1 .. Len(header) + 1 |->
                  IF i < n THEN header[i] ELSE IF i = n THEN "" ELSE header[i - 1]])

-----------------------------------------------------------------------------
(* Containers (internal/container/output.go) *)

ContainerConfigHeader == <<"AuditTime", "ClusterName", "Namespace", "EntityName",
  "EntityType", "ContainerName", "HwTotalMemory", "GpuMemoryTotal", "OsName",
  "HwManufacturer">>

\* Memory sizes are printed if they are positive.
ContainerConfigRow(memory, gpuMemTotal, gpuMemCount) ==
  <<"AuditTime", "ClusterName", "Namespace", "EntityName", "EntityType", "ContainerName">>
    \o <<IF memory > 0 THEN "HwTotalMemory" ELSE "">>
    \o <<IF gpuMemCount > 0 /\ gpuMemTotal \div gpuMemCount > 0 THEN "GpuMemoryTotal" ELSE "">>
    \o <<"OsName", "HwManufacturer">>

HpaConfigHeader == <<"AuditTime", "ClusterName", "Namespace", "EntityName",
  "EntityType", "ContainerName", "HpaName", "OsName", "HwManufacturer">>
HpaConfigRow ==
  <<"AuditTime", "ClusterName", "Namespace">> \o Blank(3) \o <<"HpaName", "OsName", "HwManufacturer">>

AttributeHeader == <<"ClusterName", "Namespace", "EntityName", "EntityType",
  "ContainerName", "ContainerType", "VirtualTechnology", "VirtualDomain",
  "VirtualDatacenter", "VirtualCluster", "ContainerLabels", "PodLabels", "CpuLimit",
  "CpuRequest", "MemoryLimit", "MemoryRequest", "GpuLimit", "GpuRequest",
  "GpuLimitFloat", "GpuRequestFloat", "CurrentNodes", "PowerState", "CreatedByKind",
  "CreatedByName", "CurrentSize", "CreateTime", "ContainerRestarts",
  "NamespaceLabels", "NamespaceCpuRequest", "NamespaceCpuLimit",
  "NamespaceMemoryRequest", "NamespaceMemoryLimit", "NamespacePodsLimit", "HpaName",
  "HpaLabels", "HpaTargetMetricName", "HpaTargetMetricType", "HpaTargetMetricValue",
  "HpaTargetMetrics", "QosClass", "GpuModel", "GpuSharingStrategy",
  "EphemeralStorageRequest", "EphemeralStorageLimit", "Runtimes">>

HpaColumns == <<"HpaName", "HpaLabels", "HpaTargetMetricName", "HpaTargetMetricType",
  "HpaTargetMetricValue", "HpaTargetMetrics">>

\* Mutant: one comma is missing where there is no autoscaler.
ShortHpaCells(scaled) == IF scaled THEN HpaColumns ELSE Blank(5)

\* An object without an autoscaler gets the cells' commas only.
HpaCells(scaled) == IF scaled THEN HpaColumns ELSE Blank(6)

ContainerAttributeRow(scaled) ==
  <<"ClusterName", "Namespace", "EntityName", "EntityType", "ContainerName",
    "ContainerType", "VirtualTechnology", "VirtualDomain", "VirtualDatacenter",
    "VirtualCluster", "ContainerLabels", "PodLabels", "CpuLimit", "CpuRequest",
    "MemoryLimit", "MemoryRequest", "GpuLimit", "GpuRequest", "GpuLimitFloat",
    "GpuRequestFloat", "CurrentNodes", "PowerState", "CreatedByKind", "CreatedByName",
    "CurrentSize", "CreateTime", "ContainerRestarts", "NamespaceLabels",
    "NamespaceCpuRequest", "NamespaceCpuLimit", "NamespaceMemoryRequest",
    "NamespaceMemoryLimit", "NamespacePodsLimit">>
    \o HpaCells(scaled)
    \o <<"QosClass", "GpuModel", "GpuSharingStrategy", "EphemeralStorageRequest",
         "EphemeralStorageLimit", "Runtimes">>

HpaAttributeHeader == <<"ClusterName", "Namespace", "EntityName", "EntityType",
  "ContainerName">> \o HpaColumns

\* The four commas after the namespace leave three cells empty, and a fourth one
\* because the first cell of writeAttributes begins with a comma of its own.
HpaAttributeRow == <<"ClusterName", "Namespace">> \o Blank(4) \o HpaCells(TRUE)

-----------------------------------------------------------------------------
(* Nodes (internal/node/output.go).  known are the columns that have values. *)

Known(columns, known) == [i \in DOMAIN columns |-> IF columns[i] \in known THEN columns[i] ELSE ""]

NodeConfigHeader == <<"AuditTime", "ClusterName", "NodeName", "HwModel", "OsName",
  "HwTotalCpus", "HwTotalPhysicalCpus", "HwCoresPerCpu", "HwThreadsPerCore",
  "HwTotalMemory", "HwMaxNetworkIoBps">>

\* The CPUs count as physical ones with a core and a thread each.
NodeConfigRow(known) ==
  <<"AuditTime", "ClusterName", "NodeName", "HwModel", "OsName">>
    \o (IF "CapacityCpu" \in known THEN <<"HwTotalCpus", "HwTotalPhysicalCpus">> ELSE Blank(2))
    \o <<"HwCoresPerCpu", "HwThreadsPerCore",
         IF "CapacityMemory" \in known THEN "HwTotalMemory" ELSE "",
         IF "NetworkSpeed" \in known THEN "HwMaxNetworkIoBps" ELSE "">>

NodeAttributeHeader == <<"ClusterName", "NodeName", "VirtualTechnology",
  "VirtualDomain", "VirtualDatacenter", "VirtualCluster", "OsArchitecture",
  "NetworkSpeed", "CpuLimit", "CpuRequest", "MemoryLimit", "MemoryRequest", "GpuLimit",
  "GpuRequest", "CapacityPods", "CapacityCpu", "CapacityMemory", "CapacityGpu",
  "CapacityEphemeralStorage", "CapacityHugePages", "AllocatablePods",
  "AllocatableCpu", "AllocatableMemory", "AllocatableGpu",
  "AllocatableEphemeralStorage", "AllocatableHugePages", "MemoryTotalBytes",
  "GpuTotal", "GpuMemoryTotal", "GpuReplicas", "ProviderId", "K8sVersion",
  "NodeLabels", "GpuLabels", "NodeTaints", "GpuVendor", "GpuModel",
  "GpuSharingStrategy", "GpuMpsCapable", "GpuVgpuPresent", "GpuMigCapable",
  "GpuMigStrategy">>

\* The order the values are printed in.
NodeValues == <<"NetworkSpeed", "CpuLimit", "CpuRequest", "MemoryLimit",
  "MemoryRequest", "GpuLimit", "GpuRequest", "CapacityPods", "CapacityCpu",
  "CapacityMemory", "CapacityGpu", "CapacityEphemeralStorage", "CapacityHugePages",
  "AllocatablePods", "AllocatableCpu", "AllocatableMemory", "AllocatableGpu",
  "AllocatableEphemeralStorage", "AllocatableHugePages", "MemoryTotalBytes",
  "GpuTotal", "GpuMemoryTotal", "GpuReplicas">>

NodeAttributeRow(known) ==
  <<"ClusterName", "NodeName", "VirtualTechnology", "VirtualDomain",
    "VirtualDatacenter", "VirtualCluster", "OsArchitecture">>
    \o Known(NodeValues, known)
    \o <<"ProviderId", "K8sVersion">> \o <<"NodeLabels">> \o <<"GpuLabels">>
    \o <<"NodeTaints", "GpuVendor", "GpuModel", "GpuSharingStrategy", "GpuMpsCapable",
         "GpuVgpuPresent", "GpuMigCapable", "GpuMigStrategy">>

-----------------------------------------------------------------------------
(* Clusters (internal/cluster/cluster.go) *)

ClusterConfigHeader == <<"AuditTime", "Name">>
ClusterConfigRow == <<"AuditTime", "Name">>
ClusterAttributeHeader == <<"Name", "VirtualTechnology", "VirtualDomain", "CpuLimit",
  "CpuRequest", "MemoryLimit", "MemoryRequest", "K8sVersion">>
ClusterAttributeRow(known) ==
  <<"Name", "VirtualTechnology", "VirtualDomain">>
    \o Known(<<"CpuLimit", "CpuRequest", "MemoryLimit", "MemoryRequest">>, known)
    \o <<"K8sVersion">>

-----------------------------------------------------------------------------
(* Quotas (internal/crq/crq.go, internal/rq/rq.go) *)

CrqConfigHeader == <<"AuditTime", "ClusterName", "CrqName">>
CrqConfigRow == <<"AuditTime", "ClusterName", "CrqName">>
RqConfigHeader == <<"AuditTime", "ClusterName", "Namespace", "RqName">>
RqConfigRow == <<"AuditTime", "ClusterName", "Namespace", "RqName">>

\* Usage has the columns of limits and requests; the quota itself those of the
\* namespace.
QuotaColumns == <<"CpuLimit", "CpuRequest", "MemoryLimit", "MemoryRequest",
  "CurrentSize", "NamespaceCpuLimit", "NamespaceCpuRequest", "NamespaceMemoryLimit",
  "NamespaceMemoryRequest", "NamespacePodsLimit">>

CrqAttributeHeader == <<"ClusterName", "CrqName", "VirtualTechnology",
  "VirtualDomain", "VirtualDatacenter", "VirtualCluster", "SelectorType",
  "SelectorKey", "SelectorValue", "CreateTime", "NamespaceLabels",
  "ResourceMetadata">> \o QuotaColumns \o <<"Namespaces">>

\* The order the values are printed in, usage first.
QuotaValues == <<"CpuLimit", "CpuRequest", "MemoryLimit", "MemoryRequest", "CurrentSize">>
  \o <<"NamespaceCpuLimit", "NamespaceCpuRequest", "NamespaceMemoryLimit",
       "NamespaceMemoryRequest", "NamespacePodsLimit">>

\* Mutant: no comma is printed before the labels.
CrqRowWithoutLabels(known) ==
  <<"ClusterName", "CrqName", "VirtualTechnology", "VirtualDomain",
    "VirtualDatacenter", "VirtualCluster", "SelectorType", "SelectorKey",
    "SelectorValue", "CreateTime", "ResourceMetadata">>
    \o Known(QuotaValues, known) \o <<"Namespaces">>

CrqAttributeRow(known) ==
  <<"ClusterName", "CrqName", "VirtualTechnology", "VirtualDomain",
    "VirtualDatacenter", "VirtualCluster", "SelectorType", "SelectorKey",
    "SelectorValue", "CreateTime", "NamespaceLabels", "ResourceMetadata">>
    \o Known(QuotaValues, known) \o <<"Namespaces">>

RqAttributeHeader == <<"ClusterName", "Namespace", "RqName", "VirtualTechnology",
  "VirtualDomain", "VirtualDatacenter", "CreateTime", "ResourceMetadata">> \o QuotaColumns
RqAttributeRow(known) ==
  <<"ClusterName", "Namespace", "RqName", "VirtualTechnology", "VirtualDomain",
    "VirtualDatacenter", "CreateTime", "ResourceMetadata">> \o Known(QuotaValues, known)
=============================================================================
