------------------------- MODULE ContainerWorkloads -------------------------
(***************************************************************************)
(* What the collector of containers writes once it has asked everything:   *)
(* the configuration and attribute files (internal/container/output.go),   *)
(* and the time series of the containers (from container.go:740).          *)
(*                                                                         *)
(* One record, wq, describes the next time series to get.  It is changed   *)
(* from one metric to the next, so each metric depends on what the ones    *)
(* before have left in it.  A call stands for one query per group clause;  *)
(* WorkloadFiles is about what becomes of it.                              *)
(***************************************************************************)
EXTENDS Containers, AttributeFiles

VARIABLES
  phase,  \* 1 and 2 for the files, 3 and 4 for separate queries, then single ones
  due,    \* the files, or the metrics by aggregator, left of the phase
  wq,     \* the workload query
  calls   \* the calls of GetWorkloadQueryVariants made

outputVars == <<files, interrupted, phase, due, wq, calls>>
vars == <<collectorVars, outputVars>>

-----------------------------------------------------------------------------
(* Files *)

\* Autoscalers that belong to no object have files of their own.
unclassifiedHpas(c) == {id \in DOMAIN hpas : id[1] = c /\ ~isClassified(hpas[id])}

FilesOf(kind) ==
  {<<c, "container_" \o kind>> : c \in {c \in Cluster : namespaces[c] # <<>>}}
    \cup {<<c, "hpa_extra_" \o kind>> : c \in {c \in Cluster : unclassifiedHpas(c) # {}}}

ConfigRows(c) ==
  [cid \in DOMAIN containers[c] |->
     LET v == containers[c][cid].value
     IN ContainerConfigRow(v["memory"], v["gpuMemTotal"], v["gpuMemCount"])]

AttributeRows(c) ==
  [cid \in DOMAIN containers[c] |-> ContainerAttributeRow(objects[c][cid[1]].hpa # None)]

\* First all clusters' files of containers, then those of autoscalers.
InTurn(id) == id[2] \in {"container_config", "container_attributes"}
              \/ \A other \in due : other[2] \in {"hpa_extra_config", "hpa_extra_attributes"}

WriteOne(id) ==
  LET c == id[1]
      creatable == id \notin unwritable
  IN \/ /\ id[2] = "container_config"
        /\ WriteFile(id, creatable, ContainerConfigHeader, ConfigRows(c))
     \/ /\ id[2] = "container_attributes"
        /\ WriteFile(id, creatable, AttributeHeader, AttributeRows(c))
     \/ /\ id[2] = "hpa_extra_config"
        /\ WriteFile(id, creatable, HpaConfigHeader, [h \in unclassifiedHpas(c) |-> HpaConfigRow])
     \/ /\ id[2] = "hpa_extra_attributes"
        /\ WriteFile(id, creatable, HpaAttributeHeader, [h \in unclassifiedHpas(c) |-> HpaAttributeRow])

Finished == position > Len(Stages)
Writing == Finished /\ phase \in {1, 2}

WriteFiles ==
  /\ Writing
  /\ \E id \in due : InTurn(id) /\ WriteOne(id) /\ due' = due \ {id}
  /\ UNCHANGED <<collectorVars, interrupted, phase, wq, calls>>

-----------------------------------------------------------------------------
(* Time series *)

\* The pods that own themselves, those with an owner, and, if some replica sets
\* or jobs of pods have owners themselves, the pods of those.
buildGroupClauses ==
  {"unowned", "owned"} \cup ({t[1] : t \in detectedOwnershipTypes} \cap {"replicaset", "job"})

\* getWorkload: for each aggregator, and the labels' names of each kind that some
\* cluster uses, one call.
getWorkload(q) ==
  calls' = calls \cup
    {[metric |-> q.metricName,
      aggregator |-> IF agg \in DOMAIN q.aggregatorNames THEN q.aggregatorNames[agg] ELSE agg,
      file |-> <<q.metricName, q.aggregatorAsSuffix, q.hasSuffix>>,
      query |-> q.baseQuery,
      unit |-> q.aggregators[agg],
      holder |-> h,
      groups |-> buildGroupClauses] : agg \in DOMAIN q.aggregators, h \in detectedHolders}

NewQuery == [metricName |-> "", baseQuery |-> <<>>, hasSuffix |-> TRUE, aggregatorAsSuffix |-> FALSE,
             aggregators |-> [a \in {"max", "avg"} |-> ""], aggregatorNames |-> <<>>]

cpuQueryMap == [a \in {"max", "avg"} |-> {"cpuMCores"}]
memQueryMap == [a \in {"max", "avg"} |-> {"mem", "rss", "workingSet"}]

\* The suffix that turns an average of bytes into MiB.
AggSuffix(metric, agg) == IF metric \in memQueryMap["avg"] /\ agg = "avg" THEN "MiB" ELSE ""

\* The map of one entry.
Only(agg, v) == [a \in {agg} |-> v]

\* getAvgMaxSeparateQueries: the metrics of one aggregator, then of the other, in
\* whatever order the maps have.
SeparateQuery(all) ==
  \E agg \in {"max", "avg"} : \E m \in due[agg] :
    /\ \A other \in {"max", "avg"} \ {agg} : due[other] \in {{}, all[other]}
    /\ wq' = [wq EXCEPT !.metricName = m, !.baseQuery = <<m>>, !.aggregators = Only(agg, AggSuffix(m, agg))]
    /\ getWorkload(wq')
    /\ due' = [due EXCEPT ![agg] = @ \ {m}]

Separate ==
  /\ Finished
  /\ \/ phase = 3 /\ SeparateQuery(cpuQueryMap)
     \/ phase = 4 /\ SeparateQuery(memQueryMap)
  /\ UNCHANGED <<collectorVars, files, interrupted, phase>>

\* Mutant: the aggregators of the last separate query stay as they are.
KeepAggregators(q) == q

\* Both aggregators again, without a suffix, in the map the last separate query
\* has left.
ResetAggregators(q) ==
  [q EXCEPT !.aggregators =
     [a \in {"max", "avg"} \cup DOMAIN @ |-> IF a \in {"max", "avg"} THEN "" ELSE @[a]]]

\* Nothing is left of the phase: the next one begins.
NextPhase ==
  /\ Finished
  /\ phase \in 0 .. 4
  /\ IF phase <= 2 THEN due = {} ELSE \A agg \in DOMAIN due : due[agg] = {}
  /\ phase' = phase + 1
  /\ due' = CASE phase = 0 -> FilesOf("config")
              [] phase = 1 -> FilesOf("attributes")
              [] phase = 2 -> cpuQueryMap
              [] phase = 3 -> memQueryMap
              [] OTHER -> {}
  /\ wq' = IF phase = 4 THEN ResetAggregators(wq) ELSE wq
  /\ UNCHANGED <<collectorVars, files, interrupted, calls>>

\* The exporter whose GPU metrics are asked for, in all clusters.
DetermineGpuExporter ==
  IF HasExporter("kubexGpu") THEN "kubexGpu" ELSE IF HasExporter("dcgm") THEN "dcgm" ELSE None

\* A query that keeps the aggregators and file name of the one before.
Single(metric, given) ==
  [metric |-> metric, given |-> given, change |-> <<>>, append |-> FALSE]

\* The queries of one aggregator for GPUs, named by the metric first.
Gpu(agg) ==
  LET Query(metric, given, append) ==
        [metric |-> metric, given |-> given, append |-> append,
         change |-> [aggregatorAsSuffix |-> TRUE, aggregators |-> Only(agg, "")]]
  IN << Query("gpuUtilization", "gpu", FALSE), Query("gpuUtilizationGpus", "gpu", TRUE),
        Query("gpuMemUtilization", "gpu", FALSE), Query("gpuMemUsed", "gpu", FALSE),
        Query("gpuPowerUsage", "dcgmUsed", FALSE) >>

OtherQueries == <<
  [Single("ephemeralStorageUsageBytes", "ephemeral") EXCEPT
     !.change = [aggregatorAsSuffix |-> TRUE]],
  [Single("disk", "always") EXCEPT !.change = [aggregatorAsSuffix |-> FALSE]],
  Single("cpuThrottlingPercent", "always"),
  [Single("cpuThrottlingSeconds", "always") EXCEPT
     !.change = [aggregators |-> Only("sum", "")]] >>

RestartQueries == <<
  [Single("restarts", "always") EXCEPT
     !.change = [aggregatorAsSuffix |-> FALSE, hasSuffix |-> FALSE,
                 aggregators |-> Only("sum", ""), aggregatorNames |-> Only("sum", "max")]] >>

SingleQueries == OtherQueries \o Gpu("avg") \o Gpu("max") \o RestartQueries

\* The query with some of its fields changed.
Changed(q, change) == [f \in DOMAIN q |-> IF f \in DOMAIN change THEN change[f] ELSE q[f]]

Wanted(given) ==
  CASE given = "ephemeral" -> HasExporter("ephemeral")
    [] given = "gpu" -> DetermineGpuExporter # None
    [] given = "dcgmUsed" -> DetermineGpuExporter = "dcgm"
    [] OTHER -> TRUE

\* The next single query, if its exporter is there.
SingleQuery ==
  /\ Finished
  /\ phase - 4 \in DOMAIN SingleQueries
  /\ LET q == SingleQueries[phase - 4]
     IN IF Wanted(q.given)
        THEN /\ wq' = Changed([wq EXCEPT !.metricName = q.metric,
                                !.baseQuery = IF q.append THEN Append(@, q.metric) ELSE <<q.metric>>],
                              q.change)
             /\ getWorkload(wq')
        ELSE UNCHANGED <<wq, calls>>
  /\ phase' = phase + 1
  /\ UNCHANGED <<collectorVars, files, interrupted, due>>

-----------------------------------------------------------------------------

Init ==
  /\ CollectorInit
  /\ \E f \in Failures : unwritable = f.unwritable /\ interrupted = f.interrupted
  /\ files = <<>>
  /\ phase = 0
  /\ due = {}
  /\ wq = NewQuery
  /\ calls = {}

Next ==
  \/ Collecting /\ UNCHANGED outputVars
  \/ WriteFiles
  \/ Separate
  \/ NextPhase
  \/ SingleQuery

Spec == Init /\ [][Next]_vars

-----------------------------------------------------------------------------
(* Properties *)

StageOf(query) == CHOOSE i \in DOMAIN Stages : Stages[i].query = query
Past(query) == position > StageOf(query)

\* Pods may have owners, and so may the replica sets and jobs that own pods.
Rank(kind) == IF kind = "pod" THEN 0 ELSE IF kind \in {"replicaset", "job"} THEN 1 ELSE 2

\* No cluster reports an owner below what it owns, such as a job of a job: the code
\* would follow a cycle of owners forever.
ASSUME OwnersOutrank ==
  \A a \in Answers, c \in Cluster, i \in DOMAIN Stages :
    Stages[i].handler = "owner" /\ Stages[i].query \in DOMAIN a[c] =>
      \A s \in a[c][Stages[i].query] :
        HasLabels(s, {"namespace", "owner_kind", "owner_name"}) =>
          Rank(ToLower(s.owner_kind)) > Rank(Stages[i].kind)

\* None is no owner's name.
ASSUME OwnersNamed ==
  \A a \in Answers, c \in Cluster, i \in DOMAIN Stages :
    Stages[i].handler = "owner" /\ Stages[i].query \in DOMAIN a[c] =>
      \A s \in a[c][Stages[i].query] :
        HasLabels(s, {"namespace", "owner_kind", "owner_name"}) =>
          <<ToLower(s.owner_kind), s.owner_name>> # None

\* Limits and requests are quantities, which are never negative.
ASSUME LimitsReported ==
  \A a \in Answers, c \in Cluster :
    \A q \in {"limits", "cpuLimit", "memLimit", "requests", "cpuRequest", "memRequest"} \cap DOMAIN a[c] :
      \A s \in a[c][q] : s.value # UnknownValue

\* The queries for the metrics and for the labels of autoscalers, under the newer and
\* the older name; which autoscaler a series is about, and the target it names.
TargetsQuery == [newhpa |-> "newhpaTargets", hpa |-> "hpaTargets"]
LabelsQuery == [newhpa |-> "newhpaLabels", hpa |-> "hpaLabels"]
ScalerOf(c, kind, s) == <<c, s.namespace, s[TypeLabelName(kind)]>>
TargetOf(s) == Key(<<ToLower(s.scaletargetref_kind), s.scaletargetref_name>>, s.namespace)

\* An autoscaler has one target, and a metric of it comes with all its labels.  None is
\* neither an autoscaler nor a target.  A cluster that has the labels of an autoscaler
\* under the newer name has its metrics under that name, too, if it has any.
Reported(a, c, q) == IF q \in DOMAIN a[c] THEN a[c][q] ELSE {}
ASSUME ScalersReported ==
  \A a \in Answers, c \in Cluster :
    /\ \A kind \in DOMAIN TargetsQuery :
         /\ \A s \in Reported(a, c, TargetsQuery[kind]) :
              /\ HasLabels(s, {"namespace", "scaletargetref_kind", "scaletargetref_name",
                              TypeLabelName(kind), "metric_name", "metric_target_type"})
              /\ TargetOf(s) # None
              /\ \A k \in DOMAIN TargetsQuery : \A r \in Reported(a, c, TargetsQuery[k]) :
                   ScalerOf(c, k, r) = ScalerOf(c, kind, s) => TargetOf(r) = TargetOf(s)
         /\ \A s \in Reported(a, c, TargetsQuery[kind]) \cup Reported(a, c, LabelsQuery[kind]) :
              HasLabels(s, {"namespace", TypeLabelName(kind)}) => ScalerOf(c, kind, s) # None
    /\ \A s \in Reported(a, c, "newhpaLabels"), r \in Reported(a, c, "hpaTargets") :
         /\ HasLabels(s, {"namespace", TypeLabelName("newhpa")})
         /\ ScalerOf(c, "newhpa", s) = ScalerOf(c, "hpa", r)
         => \E t \in Reported(a, c, "newhpaTargets") : ScalerOf(c, "newhpa", t) = ScalerOf(c, "newhpa", s)

\* The rows of autoscalers that scale no known object don't fit their header.
RowFits(id, row, header) ==
  IF id[2] = "hpa_extra_attributes" THEN Shifted(row, header, 6) ELSE Aligned(row, header)

\* What is registered refers to what is registered: containers to objects, walks
\* to ownerships, autoscalers to objects; and each row of the files (output.go)
\* has the columns of the header it is written under, whether the container's
\* object is scaled or not, but for those of one file, which are shifted by an
\* empty sixth cell (output.go:256).
TypeOK ==
  /\ position \in 0 .. Len(Stages) + 1
  /\ phase \in 0 .. 4 + Len(SingleQueries) + 1
  /\ \A c \in Cluster : \A cid \in DOMAIN containers[c] :
       /\ cid[1] \in DOMAIN objects[c]
       /\ cid[1][3] \in DOMAIN namespaces[c]
       /\ DOMAIN containers[c][cid].value = Attribute
  /\ walk # NoWalk => \A i \in DOMAIN walk.path : walk.path[i] \in DOMAIN ownerships[walk.cluster]
  /\ \A id \in DOMAIN hpas : isClassified(hpas[id]) => hpas[id].obj \in DOMAIN objects[id[1]]
  /\ \A id \in DOMAIN files : \A e \in DOMAIN files[id].rows :
       RowFits(id, files[id].rows[e], files[id].header)

\* A walk to the top-level owner (container.go:390) never comes back to an
\* ownership it has passed, so it ends, also where pods own themselves.
WalkNeverRevisits ==
  walk # NoWalk => \A i, j \in DOMAIN walk.path : i # j => walk.path[i] # walk.path[j]

\* The container every reported pod container was placed in, where any query for
\* owners was answered, is the one that later series about the pod find: the walk
\* of addContainerAndOwners and the lookup of getOwner agree on the top-level
\* owner, however long the path to it was.
HomeFound ==
  Past("containerInfo") =>
    \A c \in Cluster : \A s \in AnswersTo(c, "containerInfo") :
      HasOwnerships(c) /\ HasLabels(s, {"namespace", "pod", "container"}) =>
        \E k \in getOwner(c, <<"pod", s.pod>>, s.namespace) :
          /\ <<k, s.container>> \in DOMAIN containers[c]
          /\ isRelevant(c, Id(k), s.namespace)

\* A container has at most one row per write-through workload file, however many
\* pods, resources or legacy queries report it (ShouldWrite, collection.go:925);
\* only the size of an object is written whenever it is reported.
RowsOnce ==
  \A r \in DOMAIN rows : r[2] # "currentSize" => Len(rows[r]) <= 1

\* A cluster that answers only the legacy queries for limits or requests gets
\* them recorded, whatever the other clusters answer (container.go:539, 551).
LimitsKnown ==
  Past("memRequest") =>
    \A c \in Cluster :
      clusterLabelHolders[c] = "std" =>
        \A q \in {<<"limits", "cpuLimit">>, <<"limits", "memLimit">>,
                  <<"requests", "cpuRequest">>, <<"requests", "memRequest">>} :
          AnswersTo(c, q[1]) = {} =>
            \A s \in AnswersTo(c, q[2]) : \A cid \in getContainer(c, s) :
              containers[c][cid].value[q[2]] # UnknownValue

\* An autoscaler whose metrics name a target that has containers belongs to that
\* target, and the target to an autoscaler, also if labels of the autoscaler
\* are reported that name none (getHpa and getHpaMetricString share the maps).
ScalersAttached ==
  Past("hpaLabels") =>
    \A c \in Cluster : \A kind \in DOMAIN TargetsQuery :
      Given(Stages[StageOf(TargetsQuery[kind])].given) =>
        \A s \in AnswersTo(c, TargetsQuery[kind]) :
          TargetOf(s) \in DOMAIN objects[c] =>
            /\ hpas[ScalerOf(c, kind, s)].obj = TargetOf(s)
            /\ objects[c][TargetOf(s)].hpa # None

\* The pods of the container's object are joined with it by this clause.
Grouped(c, cid, group) ==
  \E k \in DOMAIN ownerships[c] :
    LET owner == Key(ownerships[c][k].direct, k[3])
        isParent == owner \in DOMAIN ownerships[c] /\ owner # k
    IN /\ k[1] = "pod"
       /\ CASE group = "unowned" -> cid[1] = k /\ owner = k
            [] group = "owned" -> cid[1] = owner
            [] OTHER -> /\ owner[1] = group /\ isParent
                        /\ cid[1] = Key(ownerships[c][owner].direct, k[3])

\* The time series every container of a cluster should have, and their units.
Expected ==
  ({"cpuMCores", "mem", "rss", "workingSet", "disk", "cpuThrottlingPercent"} \X {"avg", "max"})
    \cup {<<"cpuThrottlingSeconds", "sum">>, <<"restarts", "max">>}
    \cup (IF HasExporter("ephemeral") THEN {"ephemeralStorageUsageBytes"} \X {"avg", "max"} ELSE {})
    \cup (IF DetermineGpuExporter # None
          THEN {"gpuUtilization", "gpuUtilizationGpus", "gpuMemUsed"} \X {"avg", "max"} ELSE {})

\* Each container is reached by the queries for all its time series: under the
\* names its cluster uses, with a clause that joins its pods with its top-level
\* owner, in the metric's unit (MiB where bytes are averaged), although one
\* record is passed through all the queries and the clauses were chosen by what
\* kinds of owners were detected (container.go:742-811, 1046).
WorkloadCovered ==
  phase > 4 + Len(SingleQueries) =>
    \A c \in Cluster : clusterLabelHolders[c] # None =>
      \A cid \in DOMAIN containers[c], e \in Expected :
        \E call \in calls :
          /\ call.metric = e[1] /\ call.aggregator = e[2]
          /\ call.holder = clusterLabelHolders[c]
          /\ call.unit = AggSuffix(e[1], e[2])
          /\ \E group \in call.groups : Grouped(c, cid, group)

\* Every object that was created at a reported time has that time recorded.  It
\* has not for replication controllers: their series go to the handler of replica
\* sets (container.go:628), which doesn't find its label in them.
CreationTimesRecorded ==
  Past("cronjobCreated") =>
    \A c \in Cluster : \A kind \in {"pod", "deployment", "replicaset", "replicationcontroller",
                                  "daemonset", "statefulset", "job", "cronjob"} :
      \A s \in AnswersTo(c, kind \o "Created") :
        \A k \in getObject(c, <<kind, s[TypeLabelName(kind)]>>, s.namespace, TRUE) :
          objects[c][k].createTime = s.value
=============================================================================
