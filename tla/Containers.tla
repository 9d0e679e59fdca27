----------------------------- MODULE Containers -----------------------------
(***************************************************************************)
(* The collector of containers (Metrics of internal/container/container.go)*)
(* up to the files it writes (see ContainerWorkloads): its queries in      *)
(* their order, each with the handler its answers go to, the conditions    *)
(* some of them are asked under, and the points where it gives up.         *)
(*                                                                         *)
(* What the clusters answer is chosen at the start: answers[c][q] is the   *)
(* set of series cluster c answers query q with, empty if it has none; a   *)
(* query that fails in c (MetricCollection is about that) is no key of     *)
(* answers[c].  Handlers see one cluster's series after the other, in any  *)
(* order.                                                                  *)
(***************************************************************************)
EXTENDS ContainerObjects

CONSTANTS
  Answers,    \* what the clusters may answer: a set of functions as above
  Exporters,  \* what DetermineExporters may have found: sets of <<exporter, cluster>>
  Failures    \* records of the files that can't be created (unwritable) and of
              \* those that are cut short (interrupted), sets of <<cluster, file>>

Stage(query, handler, kind, metric, given) ==
  [query |-> query, handler |-> handler, kind |-> kind, metric |-> metric, given |-> given]

\* Ownership first, then the containers.  Without pods' owners or containers
\* anywhere there is nothing to do ("needed").
OwnerStages == <<
  Stage("podOwner", "owner", "pod", "", "needed"),
  Stage("replicasetOwner", "owner", "replicaset", "", "always"),
  Stage("jobOwner", "owner", "job", "", "always"),
  Stage("containerInfo", "container", "", "", "needed"),
  Stage("", "addWriters", "", "", "always") >>

\* Limits and requests are asked for by resource, and in their legacy form if
\* some cluster doesn't answer that.
ContainerStages == <<
  Stage("surveyInfo", "metric", "", "runtime", "beyla"),
  Stage("specMemory", "metric", "", "memory", "always"),
  Stage("dcgmMemory", "metric", "", "gpuMemoryTotal", "dcgm"),
  Stage("powerState", "metric", "", "powerState", "always"),
  Stage("limits", "metric", "", "limits", "always"),
  Stage("cpuLimit", "metric", "", "cpuLimit", "limitsMissing"),
  Stage("memLimit", "metric", "", "memLimit", "limitsMissing"),
  Stage("requests", "metric", "", "requests", "always"),
  Stage("cpuRequest", "metric", "", "cpuRequest", "requestsMissing"),
  Stage("memRequest", "metric", "", "memRequest", "requestsMissing"),
  Stage("kubexMemory", "metric", "", "gpuMemoryTotal", "kubexGpu"),
  Stage("kubexRequests", "metric", "", "gpuRequest", "kubexGpu"),
  Stage("kubexLimits", "metric", "", "gpuLimit", "kubexGpu"),
  Stage("containerLabels", "metric", "", "containerLabels", "always") >>

PodStages == <<
  Stage("podInfo", "allLabels", "pod", "", "always"),
  Stage("podLabels", "labels", "pod", "", "always"),
  Stage("restarts", "metric", "", "restarts", "always"),
  Stage("podCreated", "object", "pod", "createTime", "always"),
  Stage("podQosClass", "object", "pod", "qosClass", "always"),
  Stage("namespaceLabels", "namespace", "", "labels", "always"),
  Stage("namespaceAnnotations", "namespace", "", "labels", "always"),
  Stage("resourceQuota", "namespace", "", "limits", "always") >>

\* The replication controllers' creation times go to a handler of replica sets.
ObjectStages == <<
  Stage("deploymentLabels", "labels", "deployment", "", "always"),
  Stage("deploymentMaxSurge", "object", "deployment", "maxSurge", "always"),
  Stage("deploymentMaxUnavailable", "object", "deployment", "maxUnavailable", "always"),
  Stage("deploymentGeneration", "object", "deployment", "metadataGeneration", "always"),
  Stage("deploymentCreated", "object", "deployment", "createTime", "always"),
  Stage("replicasetLabels", "labels", "replicaset", "", "always"),
  Stage("replicasetCreated", "object", "replicaset", "createTime", "always"),
  Stage("replicationcontrollerCreated", "object", "replicaset", "createTime", "always"),
  Stage("daemonsetLabels", "labels", "daemonset", "", "always"),
  Stage("daemonsetCreated", "object", "daemonset", "createTime", "always"),
  Stage("statefulsetLabels", "labels", "statefulset", "", "always"),
  Stage("statefulsetCreated", "object", "statefulset", "createTime", "always") >>

JobStages == <<
  Stage("jobInfo", "labels", "job", "", "always"),
  Stage("jobLabels", "labels", "job", "", "always"),
  Stage("jobCompletions", "object", "job", "specCompletions", "always"),
  Stage("jobParallelism", "object", "job", "specParallelism", "always"),
  Stage("jobCompletionTime", "object", "job", "statusCompletionTime", "always"),
  Stage("jobStartTime", "object", "job", "statusStartTime", "always"),
  Stage("jobCreated", "object", "job", "createTime", "always"),
  Stage("cronjobLabels", "labels", "cronjob", "", "always"),
  Stage("cronjobInfo", "labels", "cronjob", "", "always"),
  Stage("cronjobNextSchedule", "object", "cronjob", "nextScheduleTime", "always"),
  Stage("cronjobLastSchedule", "object", "cronjob", "lastScheduleTime", "always"),
  Stage("cronjobActive", "object", "cronjob", "statusActive", "always"),
  Stage("cronjobCreated", "object", "cronjob", "createTime", "always") >>

\* Mutant: the labels come before the metrics that name the targets.
LabelsFirst == <<
  Stage("newhpaLabels", "hpaLabels", "newhpa", "", "always"),
  Stage("newhpaTargets", "hpa", "newhpa", "", "always"),
  Stage("hpaTargets", "hpa", "hpa", "", "olderHpas"),
  Stage("hpaLabels", "hpaLabels", "hpa", "", "olderHpas") >>

\* The older metrics of autoscalers are asked for unless all clusters have labels
\* under the newer name.
HpaStages == <<
  Stage("newhpaTargets", "hpa", "newhpa", "", "always"),
  Stage("newhpaLabels", "hpaLabels", "newhpa", "", "always"),
  Stage("hpaTargets", "hpa", "hpa", "", "olderHpas"),
  Stage("hpaLabels", "hpaLabels", "hpa", "", "olderHpas") >>

SizeStages == <<
  Stage("replicasetReplicas", "object", "replicaset", "currentSize", "always"),
  Stage("replicasetOwnerReplicas", "owned", "replicaset", "currentSize", "always"),
  Stage("replicationcontrollerReplicas", "object", "replicationcontroller", "currentSize", "always"),
  Stage("daemonsetAvailable", "object", "daemonset", "currentSize", "always"),
  Stage("statefulsetReplicas", "object", "statefulset", "currentSize", "always"),
  Stage("jobSize", "object", "job", "currentSize", "always"),
  Stage("jobOwnerSize", "owned", "job", "currentSize", "always"),
  Stage("", "closeWriters", "", "", "always") >>

Stages == OwnerStages \o ContainerStages \o PodStages \o ObjectStages \o JobStages
            \o HpaStages \o SizeStages

VARIABLES
  answers,   \* what the clusters answer
  position,  \* the stage, an index of Stages; past the last when all are done,
             \* 0 when the collector has given up
  asked,     \* the stage's query has been put to the clusters
  pending,   \* <<cluster, series>> the stage's handler has yet to see
  serving    \* the cluster whose series it is seeing, or None

stageVars == <<position, asked, pending, serving>>
dataVars == <<ownerVars, metricVars, hpas>>
collectorVars == <<answers, stageVars, dataVars>>

CollectorInit ==
  /\ answers \in Answers
  /\ exporters \in Exporters
  /\ OwnersInit
  /\ MetricsInit
  /\ hpas = <<>>
  /\ position = 1
  /\ asked = FALSE
  /\ pending = {}
  /\ serving = None

Done == position \notin DOMAIN Stages
Current == Stages[position]

AnswersTo(c, q) == IF q \in DOMAIN answers[c] THEN answers[c][q] ELSE {}

\* The number of clusters CollectAndProcessMetric has data of.
Answering(q) == Cardinality({c \in Cluster : AnswersTo(c, q) # {}})

\* Mutant: the legacy queries are asked only if no cluster answers the others.
AllMissing(q) == Answering(q) = 0

SomeMissing(q) == Answering(q) < Cardinality(Cluster)

\* Whether the stage's query is issued.
Given(given) ==
  CASE given \in {"beyla", "dcgm", "kubexGpu"} -> HasExporter(given)
    [] given = "limitsMissing" -> SomeMissing("limits")
    [] given = "requestsMissing" -> SomeMissing("requests")
    [] given = "olderHpas" -> SomeMissing("newhpaLabels")
    [] OTHER -> TRUE

\* The query of the stage is put to the clusters, or skipped.
Ask ==
  /\ ~Done
  /\ Current.handler \notin {"addWriters", "closeWriters"}
  /\ ~asked
  /\ asked' = TRUE
  /\ pending' = IF Given(Current.given)
                THEN UNION {{c} \X AnswersTo(c, Current.query) : c \in Cluster} ELSE {}
  /\ UNCHANGED <<answers, position, serving, dataVars>>

\* The next series of the cluster whose turn it is.
TakeSeries(c, s) ==
  /\ asked /\ <<c, s>> \in pending
  /\ walk = NoWalk
  /\ serving \in {None, c}
  /\ pending' = pending \ {<<c, s>>}
  /\ serving' = IF \E t \in pending' : t[1] = c THEN c ELSE None
  /\ UNCHANGED <<answers, position, asked>>

Own(c, s) ==
  /\ Current.handler = "owner"
  /\ GetOwner(Current.kind, c, s)
  /\ UNCHANGED <<metricVars, hpas>>

\* Whether getOwners has been called for the cluster, with any series or none.
HasOwnerships(c) ==
  {"podOwner", "replicasetOwner", "jobOwner"} \cap DOMAIN answers[c] # {}

\* addContainerAndOwners drops the containers of a cluster without ownerships.
Contain(c, s) ==
  /\ Current.handler = "container"
  /\ IF HasOwnerships(c) THEN AddContainer(c, s) ELSE UNCHANGED ownerVars
  /\ UNCHANGED <<metricVars, hpas>>

Measure(c, s) ==
  /\ Current.handler = "metric"
  /\ GetContainerMetric(Current.metric, c, s)
  /\ UNCHANGED hpas

Describe(c, s) ==
  \/ Current.handler = "labels" /\ GetObjectLabels(Current.kind, FALSE, c, s)
  \/ Current.handler = "allLabels" /\ GetObjectLabels(Current.kind, TRUE, c, s)
  \/ Current.handler = "object" /\ GetObjectMetric(Current.kind, Current.metric, c, s)
  \/ Current.handler = "owned" /\ GetOwnedObjectMetric(Current.kind, Current.metric, c, s)
  \/ Current.handler = "namespace" /\ GetNamespaceMetric(Current.metric, c, s)

Scale(c, s) ==
  \/ Current.handler = "hpa" /\ GetHpa(Current.kind, c, s)
  \/ Current.handler = "hpaLabels" /\ GetHpaLabels(Current.kind, c, s)

Series ==
  /\ ~Done
  /\ \E t \in pending :
       /\ TakeSeries(t[1], t[2])
       /\ \/ Own(t[1], t[2])
          \/ Contain(t[1], t[2])
          \/ Measure(t[1], t[2])
          \/ Describe(t[1], t[2])
          \/ Scale(t[1], t[2])

Walking ==
  /\ Climb \/ ReachTop
  /\ UNCHANGED <<answers, stageVars, metricVars, hpas>>

\* The last series of a stage is done with.  Without an answer to a query that
\* is needed the collector returns.
EndStage ==
  /\ asked /\ pending = {} /\ walk = NoWalk
  /\ asked' = FALSE
  /\ position' = IF Current.given = "needed" /\ Answering(Current.query) = 0
                 THEN 0 ELSE position + 1
  /\ UNCHANGED <<answers, pending, serving, dataVars>>

SetUpWriters ==
  /\ ~Done
  /\ \/ Current.handler = "addWriters" /\ AddMetricWorkloadWriters /\ UNCHANGED written
     \/ Current.handler = "closeWriters" /\ CloseAndClearWorkloadWriters
  /\ position' = position + 1
  /\ UNCHANGED <<answers, asked, pending, serving, ownerVars, clusterLabelHolders,
                 detectedHolders, exporters, unwritable, rows, hpas>>

Collecting == Ask \/ Series \/ Walking \/ EndStage \/ SetUpWriters
=============================================================================
