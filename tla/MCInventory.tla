---------------------------- MODULE MCInventory ----------------------------
(***************************************************************************)
(* Two clusters that differ in the age of their exporters, in the names    *)
(* their node exporters use, and in their GPUs and quotas.                 *)
(***************************************************************************)
EXTENDS Inventory

CONSTANTS c1, c2

Value(v) == [value |-> v]
Node(n, v) == [node |-> n, value |-> v]
Resource(n, r, v) == Node(n, v) @@ [resource |-> r]
Build(job, instance, minor) ==
  [job |-> job, instance |-> instance, major |-> 1, minor |-> minor, value |-> 1,
   git_version |-> "v1." \o ToString(minor)]

\* Versions reported highest first, and a node under its API servers' version.
Versions(order) ==
  "buildInfo" :>
    CASE order = "falling" -> << Build("apiservers", "a1", 29), Build("api-servers", "a2", 27),
                                 Build("kubelet", "n1", 28), Build("nodes", "n2", 26),
                                 Build("kubelet", "n3", 28), Build("other", "x", 20) >>
      [] order = "nodes" -> << Build("kubelet", "n1", 30), Build("kubelet", "n2", 28) >>
      [] OTHER -> << [job |-> "kubelet", value |-> 1] >>

TwoNodes ==
  "nodeInfo" :> << Node("n1", 1) @@ [provider_id |-> [provider |-> "eks", id |-> "i1"]],
                   Node("n2", 1) @@ [kubelet_version |-> "v1"] >> @@
  "nodeRole" :> << Node("n1", 1) @@ [role |-> "worker"], Node("n3", 1) @@ [role |-> "lost"] >> @@
  "nodeTaint" :> << Node("n1", 1) @@ [key |-> "k", value_of |-> "v", effect |-> "NoSchedule"] >>

NvidiaNode ==
  "nodeLabels" :> << Node("n1", 1) @@ [nvidia_gpu_present |-> "true", nvidia_gpu_count |-> 2,
                       nvidia_mig_capable |-> "true", nvidia_mig_strategy |-> "mixed"] >>
GkeNode ==
  "nodeLabels" :> << Node("n1", 1) @@ [gke_accelerator |-> "t4", gke_gpu_sharing_strategy |-> "mps"] >>

Generic ==
  "capacity" :> << Resource("n1", "cpu", 4), Resource("n2", "memory", 8) >> @@
  "allocatable" :> << Resource("n1", "nvidia_com_gpu", 1), Resource("n1", "pods", 9) >> @@
  "limits" :> << Resource("n1", "cpu", 1), Resource("n1", "ephemeral_storage", 2) >> @@
  "requests" :> << Resource("n1", "cpu", 1), Resource("n2", "memory", 3) >> @@
  "clusterlimits" :> << [resource |-> "cpu", value |-> 1], [resource |-> "memory", value |-> 2] >> @@
  "clusterrequests" :> << [resource |-> "cpu", value |-> 1] >>

LegacyAnswers ==
  "cpuCapacity" :> << Node("n1", 4), Node("n2", 4) >> @@ "memCapacity" :> << Node("n1", 8) >> @@
  "podsCapacity" :> << Node("n1", 9) >> @@ "cpuAllocatable" :> << Node("n2", 3) >> @@
  "memAllocatable" :> << Node("n1", 7) >> @@ "podsAllocatable" :> << Node("n1", 9) >> @@
  "cpuLimit" :> << Node("n1", 1) >> @@ "memLimit" :> << Node("n1", 2) >> @@
  "cpuRequest" :> << Node("n1", 1) >> @@ "memRequest" :> << Node("n1", 2) >> @@
  "clustercpuLimit" :> << Value(1) >> @@ "clustermemLimit" :> << Value(2) >> @@
  "clustercpuRequest" :> << Value(1) >> @@ "clustermemRequest" :> << Value(2) >>

MCAddress == {"10.0.0.1:9100", "10.0.0.2:9100"}

\* The node exporter under each kind of name; the last series decides.
NodeExporter(names) ==
  CASE names = "nodeLabel" ->
         "nodeExporter" :> << [instance |-> "10.0.0.1:9100", value |-> 1],
                              Node("n1", 1) @@ [instance |-> "10.0.0.2:9100"] >> @@
         "netSpeed" :> << Node("n1", 10) @@ [instance |-> "10.0.0.2:9100"] >>
    [] names = "podIp" ->
         "nodeExporter" :> << [instance |-> "10.0.0.1:9100", value |-> 1] >> @@
         "netSpeed" :> << [instance |-> "10.0.0.1:9100", value |-> 10] >> @@
         "netSpeedByPodIp" :> << Node("n1", 10) >>
    [] OTHER ->
         "nodeExporter" :> << [instance |-> "n1", value |-> 1] >> @@
         "netSpeed" :> << [instance |-> "n1", value |-> 10] >>

Gpus ==
  "dcgmExporter" :> << Node("n1", 1) >> @@
  "dcgmModel" :> << Node("n1", 1) @@ [modelName |-> "A100"] >> @@
  "dcgmMemory" :> << Node("n1", 80) >>
Ephemeral == "ephemeralExporter" :> << Node("n1", 1) >>

Crq(labels, v) == [name |-> "q"] @@ labels @@ Value(v)
CrqAnswers ==
  "crqCreated" :> << Crq(<<>>, 5) >> @@
  "crqSelector" :> << Crq([type |-> "annotation", key |-> "k"], 1), [name |-> "lost", value |-> 1] >> @@
  "crqLabels" :> << Crq([team |-> "x"], 1) >> @@
  "crqUsage" :> << Crq([resource |-> "limits.cpu", type |-> "hard"], 8),
                   Crq([resource |-> "pods", type |-> "used"], 3) >> @@
  "crqNamespaceUsage" :> << Crq([namespace |-> "n"], 1) >>

Rq(labels, v) == [namespace |-> "n", resourcequota |-> "q"] @@ labels @@ Value(v)
RqAnswers ==
  "resourceQuota" :> << Rq([resource |-> "count/pods", type |-> "hard"], 8),
                        Rq([resource |-> "requests.memory", type |-> "used"], 3),
                        Rq([resource |-> "other", type |-> "hard"], 1) >> @@
  "resourceQuotaCreated" :> << Rq(<<>>, 5), [resourcequota |-> "q", value |-> 5] >>

First == {
  Versions("falling") @@ TwoNodes @@ NvidiaNode @@ Generic @@ NodeExporter("nodeLabel") @@ Gpus @@ CrqAnswers,
  Versions("nodes") @@ TwoNodes @@ GkeNode @@ Generic @@ LegacyAnswers @@ NodeExporter("podIp") @@ RqAnswers,
  Versions("none") @@ TwoNodes @@ LegacyAnswers @@ Ephemeral @@ RqAnswers}

Second == {
  <<>>,
  Versions("nodes") @@ TwoNodes @@ LegacyAnswers @@ NodeExporter("other") @@ CrqAnswers,
  Versions("falling") @@ TwoNodes @@ Generic @@ NodeExporter("podIp") @@ Gpus @@ RqAnswers}

MCAnswers == {c1 :> a @@ c2 :> b : a \in First, b \in Second}
MCFailures == {
  [unwritable |-> {}, interrupted |-> {}],
  [unwritable |-> {<<c1, "cpuLimits">>, <<c2, "node_config">>},
   interrupted |-> {<<c1, "node_attributes">>, <<c2, "crq_config">>}]}
=============================================================================
