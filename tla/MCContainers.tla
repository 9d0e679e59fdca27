---------------------------- MODULE MCContainers ----------------------------
(***************************************************************************)
(* Small installations: two clusters, each with a few owned pods, that     *)
(* differ in the queries they answer and in the labels they use.           *)
(***************************************************************************)
EXTENDS ContainerWorkloads

CONSTANTS c1, c2

Ns == [namespace |-> "n"]
Pod(p) == Ns @@ [pod |-> p]
Ctr(p, n) == Pod(p) @@ [container |-> n]
Value(v) == [value |-> v]
Owner(kind, name) == [owner_kind |-> kind, owner_name |-> name, value |-> 1]

\* A deployment of two replicas, and a pod of its own with two containers.
\* Two autoscalers' worth of metrics scale the deployment.
WebOwners ==
  "podOwner" :> {Pod("p1") @@ Owner("ReplicaSet", "rs"), Pod("p2") @@ Owner("ReplicaSet", "rs")} @@
  "replicasetOwner" :> {Ns @@ [replicaset |-> "rs"] @@ Owner("Deployment", "web")} @@
  "containerInfo" :> {Ctr("p1", "a") @@ Value(1), Ctr("p2", "a") @@ Value(1),
                      Ctr("p3", "a") @@ Value(1), Ctr("p3", "b") @@ Value(1)}

WebMetrics ==
  "restarts" :> {Ctr("p1", "a") @@ Value(1), Ctr("p2", "a") @@ Value(2)} @@
  "podInfo" :> {Pod("p1") @@ [node |-> "n1"] @@ Value(1)} @@
  "podLabels" :> {Pod("p1") @@ [node |-> "other"] @@ Value(1)} @@
  "podQosClass" :> {Pod("p1") @@ [qos_class |-> "Guaranteed"] @@ Value(1),
                    Pod("p2") @@ [qos_class |-> "Burstable"] @@ Value(1)} @@
  "podCreated" :> {Pod("p1") @@ Value(5), Pod("p3") @@ Value(6)} @@
  "namespaceLabels" :> {Ns @@ [team |-> "x"] @@ Value(1)} @@
  "resourceQuota" :> {Ns @@ [resource |-> "pods"] @@ Value(9), Ns @@ [resource |-> "limits.cpu"] @@ Value(8)} @@
  "deploymentCreated" :> {Ns @@ [deployment |-> "web"] @@ Value(4)} @@
  "deploymentMaxSurge" :> {Ns @@ [deployment |-> "web"] @@ Value(2)} @@
  "replicasetCreated" :> {Ns @@ [replicaset |-> "rs"] @@ Value(5)} @@
  "replicasetReplicas" :> {Ns @@ [replicaset |-> "rs"] @@ Value(2)} @@
  "replicasetOwnerReplicas" :> {Ns @@ [owner_name |-> "web"] @@ Value(2)}

\* A job of a cron job, a replica set of a rollout, a replication controller and
\* a static pod of a node.
BatchOwners ==
  "podOwner" :> {Pod("p1") @@ Owner("Job", "j"), Pod("p2") @@ Owner("ReplicaSet", "rs"),
                 Pod("p3") @@ Owner("ReplicationController", "rc"), Pod("p4") @@ Owner("Node", "n1")} @@
  "replicasetOwner" :> {Ns @@ [replicaset |-> "rs"] @@ Owner("Rollout", "web")} @@
  "jobOwner" :> {Ns @@ [job_name |-> "j"] @@ Owner("CronJob", "cj")} @@
  "containerInfo" :> {Ctr(p, "a") @@ Value(1) : p \in {"p1", "p2", "p3"}}
                       \cup {Ctr("p4", "a") @@ [restart_policy |-> "Always"] @@ Value(1)}

BatchMetrics ==
  "jobCompletions" :> {Ns @@ [job_name |-> "j"] @@ Value(3)} @@
  "cronjobCreated" :> {Ns @@ [cronjob |-> "cj"] @@ Value(4)} @@
  "replicationcontrollerCreated" :> {Ns @@ [replicationcontroller |-> "rc"] @@ Value(7)} @@
  "replicationcontrollerReplicas" :> {Ns @@ [replicationcontroller |-> "rc"] @@ Value(1)} @@
  "jobOwnerSize" :> {Ns @@ [owner_name |-> "cj"] @@ Value(1)} @@
  "replicasetOwnerReplicas" :> {Ns @@ [owner_name |-> "web"] @@ Value(2)}

\* One pod of its own; its series, like those of old kubelets, may use other names.
OldMetrics(naming) ==
  "podOwner" :> {Pod("p2") @@ Owner("DaemonSet", "ds")} @@
  "containerInfo" :> {Ctr("p1", "a") @@ Value(1)} @@
  "specMemory" :> {IF naming = "std" THEN Ctr("p1", "a") @@ Value(7)
                   ELSE Ns @@ [pod_name |-> "p1", container_name |-> "a", value |-> 7]}

\* Jobs of a cron job, and daemons, in a cluster without replica sets.
CronMetrics ==
  "podOwner" :> {Pod("p1") @@ Owner("Job", "j"), Pod("p2") @@ Owner("DaemonSet", "ds")} @@
  "jobOwner" :> {Ns @@ [job_name |-> "j"] @@ Owner("CronJob", "cj")} @@
  "containerInfo" :> {Ctr("p1", "a") @@ Value(1), Ctr("p2", "a") @@ Value(1)} @@
  "specMemory" :> {Ctr("p1", "a") @@ Value(7)} @@
  "daemonsetCreated" :> {Ns @@ [daemonset |-> "ds"] @@ Value(2)}

Resource(p, n, r, v) == Ctr(p, n) @@ [resource |-> r, value |-> v]

\* The limits and requests of all containers, generic or legacy.
Generic(p, q) ==
  "limits" :> {Resource(p, "a", "cpu", 1), Resource(q, "a", "cpu", 2), Resource(p, "a", "memory", 3),
               Resource(p, "a", "nvidia_com_gpu", 1)} @@
  "requests" :> {Resource(p, "a", "cpu", 1), Resource(p, "a", "memory", 2)}

Legacy(p, q) ==
  "cpuLimit" :> {Ctr(p, "a") @@ Value(1), Ctr(q, "a") @@ Value(2)} @@
  "memLimit" :> {Ctr(p, "a") @@ Value(3)} @@
  "cpuRequest" :> {Ctr(p, "a") @@ Value(1)} @@
  "memRequest" :> {Ctr(p, "a") @@ Value(2)}

GpuOf(p) ==
  "dcgmMemory" :> {Ctr(p, "a") @@ Value(16)} @@
  "kubexLimits" :> {Ctr(p, "a") @@ Value(2)}

Target(h, metric, label) ==
  Ns @@ (label :> h) @@ [scaletargetref_kind |-> "Deployment", scaletargetref_name |-> "web",
                         metric_name |-> metric, metric_target_type |-> "average", value |-> 5]

\* An autoscaler of two metrics, and one that isn't named after its target, under
\* the newer or the older name of the label.
Scalers(label) ==
  LET q == IF label = "horizontalpodautoscaler" THEN "newhpa" ELSE "hpa"
  IN (q \o "Targets") :> {Target("scaler", "cpu", label), Target("scaler", "memory", label)} @@
     (q \o "Labels") :> {Ns @@ (label :> "scaler") @@ Value(1), Ns @@ (label :> "lost") @@ Value(1)}

Named(label) ==
  (IF label = "hpa" THEN "hpaLabels" ELSE "newhpaLabels") :> {Ns @@ (label :> "web") @@ Value(1)}

First == {
  WebOwners @@ WebMetrics @@ Generic("p1", "p2")
    @@ Scalers("horizontalpodautoscaler") @@ Scalers("hpa"),
  WebOwners @@ WebMetrics @@ Legacy("p1", "p2") @@ GpuOf("p1") @@ Scalers("hpa"),
  WebOwners @@ WebMetrics @@ Generic("p1", "p2") @@ Legacy("p1", "p2") @@ Named("hpa"),
  BatchOwners @@ BatchMetrics @@ Generic("p1", "p2") @@ GpuOf("p2"),
  "podOwner" :> {Pod("p1") @@ Owner("ReplicaSet", "rs")}}

\* The other cluster may fail to answer about owners.
Second == {
  "containerInfo" :> {Ctr("p1", "a") @@ Value(1)} @@ "specMemory" :> {Ctr("p1", "a") @@ Value(7)},
  OldMetrics("std") @@ Generic("p1", "p1") @@ Named("horizontalpodautoscaler"),
  OldMetrics("name") @@ Legacy("p1", "p1"),
  CronMetrics @@ Legacy("p1", "p1")}

MCAnswers == {c1 :> a @@ c2 :> b : a \in First, b \in Second}
MCExporters == {{<<"dcgm", c1>>, <<"ephemeral", c1>>},
                {<<"dcgm", c1>>, <<"kubexGpu", c2>>, <<"beyla", c2>>}}
MCFailures == {
  [unwritable |-> {}, interrupted |-> {}],
  [unwritable |-> {<<c1, "cpuLimits">>, <<c2, "container_config">>},
   interrupted |-> {<<c1, "container_attributes">>}]}
=============================================================================
