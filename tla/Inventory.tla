----------------------------- MODULE Inventory -----------------------------
(***************************************************************************)
(* The collectors of main that take inventory of the clusters: versions,   *)
(* nodes, the clusters' totals, cluster resource quotas and resource       *)
(* quotas, in this order (those of node groups and of containers, between  *)
(* them, share no state but the exporters; see NodeGroups and Containers). *)
(*                                                                         *)
(* What the clusters answer is chosen at the start: answers[c][q] is the   *)
(* sequence of series cluster c answers query q with.  A handler is given  *)
(* one cluster's answer after the other's, in any order.                   *)
(***************************************************************************)
EXTENDS ClusterTotals, Quotas

CONSTANTS
  Cluster,  \* common.ClusterNames
  Answers,  \* what the clusters may answer: a set of functions as above
  Failures  \* records of the files that can't be created (unwritable) and of
            \* those that are cut short (interrupted), sets of <<cluster, file>>

ASSUME InventoryAssumption ==
  /\ Cluster # {} /\ IsFiniteSet(Cluster) /\ None \notin Cluster
  /\ \A i \in DOMAIN NodeAttributeHeader : NodeAttributeHeader[i] # None

\* An answer is a sequence.
ASSUME AnswersAssumption ==
  \A a \in Answers : \A c \in Cluster : \A q \in DOMAIN a[c] :
    a[c][q] \in Seq({a[c][q][i] : i \in DOMAIN a[c][q]})

\* The numbers of a version are numbers, and its name says what they are.
ASSUME VersionsAssumption ==
  \A a \in Answers : \A c \in {c \in Cluster : "buildInfo" \in DOMAIN a[c]} :
    LET Versioned == {s \in {a[c]["buildInfo"][i] : i \in DOMAIN a[c]["buildInfo"]} :
                        VersionLabels \subseteq DOMAIN s}
    IN \A s \in Versioned :
         /\ VersionOf(s) # None /\ s.major \in Int /\ s.minor \in Int
         /\ \A t \in Versioned : s.git_version = t.git_version => VersionOf(s) = VersionOf(t)

Stage(part, query, handler, arg, given) ==
  [part |-> part, query |-> query, handler |-> handler, arg |-> arg, given |-> given]

\* A query all clusters are asked, one of the legacy ones, and a block of calls.
Asked(part, query, handler, arg) == Stage(part, query, handler, arg, <<"always">>)
Legacy(part, query, indicator) == Stage(part, query, "metric", query, <<"missing", indicator>>)
Calls(part, block, given) == Stage(part, "", "calls", block, given)
Files(part, kind) == Stage(part, "", "files", kind, <<"always">>)

VersionStages == <<
  Asked("version", "buildInfo", "version", ""),
  Asked("version", "", "log", "") >>

ExporterStages == <<
  Asked("node", "nodeExporter", "exporter", "node"),
  Asked("node", "dcgmExporter", "exporter", "dcgm"),
  Asked("node", "ephemeralExporter", "exporter", "ephemeral"),
  Asked("node", "kubexExporter", "exporter", "kubexGpu"),
  Asked("node", "beylaExporter", "exporter", "beyla") >>

\* The values the node exporter has, under each wrapper in turn (only that of pod
\* addresses changes the query), and those of the GPUs' exporter.
Wrapped(query, metric, wrapper) == Stage("node", query, "metric", metric, <<"wrapper", wrapper>>)

MeasureStages == <<
  Wrapped("netSpeed", "netSpeed", "nodeLabel"), Wrapped("memTotal", "memTotal", "nodeLabel"),
  Wrapped("netSpeedByPodIp", "netSpeed", "podIp"), Wrapped("memTotalByPodIp", "memTotal", "podIp"),
  Wrapped("netSpeed", "netSpeed", "other"), Wrapped("memTotal", "memTotal", "other"),
  Stage("node", "dcgmModel", "metric", "modelName", <<"exporter", "dcgm">>),
  Stage("node", "dcgmMemory", "metric", "gpuMemoryTotal", <<"exporter", "dcgm">>) >>

NodeStages == <<
  Asked("node", "nodeInfo", "create", ""),
  Asked("node", "nodeLabels", "labels", ""),
  Asked("node", "nodeRole", "labels", ""),
  Asked("node", "nodeTaint", "taints", "") >>

ResourceStages == <<
  Asked("node", "capacity", "metric", "capacity"),
  Legacy("node", "cpuCapacity", "capacity"),
  Legacy("node", "memCapacity", "capacity"),
  Legacy("node", "podsCapacity", "capacity"),
  Asked("node", "allocatable", "metric", "allocatable"),
  Legacy("node", "cpuAllocatable", "allocatable"),
  Legacy("node", "memAllocatable", "allocatable"),
  Legacy("node", "podsAllocatable", "allocatable"),
  Asked("node", "", "resetWriters", ""),
  Asked("node", "limits", "metric", "limits"),
  Legacy("node", "cpuLimit", "limits"),
  Legacy("node", "memLimit", "limits"),
  Asked("node", "requests", "metric", "requests"),
  Legacy("node", "cpuRequest", "requests"),
  Legacy("node", "memRequest", "requests"),
  Asked("node", "", "resetWriters", "") >>

NodeOutputStages == <<
  Files("node", "config"),
  Files("node", "attributes"),
  Calls("node", "reservation", <<"always">>),
  Calls("node", "podCount", <<"always">>),
  Calls("node", "ephemeral", <<"exporter", "ephemeral">>),
  Calls("node", "dcgm", <<"exporter", "dcgm">>),
  Calls("node", "wrappers", <<"exporter", "node">>) >>

ClusterStages == <<
  Asked("cluster", "limits", "total", "limits"),
  Stage("cluster", "cpuLimit", "total", "cpuLimit", <<"missing", "limits">>),
  Stage("cluster", "memLimit", "total", "memLimit", <<"missing", "limits">>),
  Asked("cluster", "requests", "total", "requests"),
  Stage("cluster", "cpuRequest", "total", "cpuRequest", <<"missing", "requests">>),
  Stage("cluster", "memRequest", "total", "memRequest", <<"missing", "requests">>),
  Files("cluster", "config"),
  Files("cluster", "attributes"),
  Calls("cluster", "conditional", <<"always">>),
  Calls("cluster", "wrappers", <<"exporter", "node">>) >>

\* Without quotas anywhere the collector returns ("needed").
CrqStages == <<
  Stage("crq", "crqCreated", "createCrq", "", <<"needed">>),
  Asked("crq", "crqSelector", "crqAttributes", ""),
  Asked("crq", "crqLabels", "crqLabels", ""),
  Asked("crq", "crqUsage", "crqQuotas", ""),
  Asked("crq", "crqNamespaceUsage", "crqAttributes", ""),
  Files("crq", "config"),
  Files("crq", "attributes"),
  Calls("crq", "quotas", <<"always">>) >>

RqStages == <<
  Stage("rq", "resourceQuota", "rqQuotas", "", <<"needed">>),
  Asked("rq", "resourceQuotaCreated", "rqCreated", ""),
  Files("rq", "attributes"),
  Files("rq", "config"),
  Calls("rq", "quotas", <<"always">>) >>

Stages ==
  VersionStages \o NodeStages \o ExporterStages \o MeasureStages \o ResourceStages
    \o NodeOutputStages \o ClusterStages \o CrqStages \o RqStages

VARIABLES
  answers,     \* what the clusters answer
  position,    \* the stage, an index of Stages, or past the last
  pending,     \* the clusters the stage has yet to serve or to write
  started,     \* the stage has been entered
  data,        \* by cluster, what is known of it
  indicators,  \* by <<collector, metric>>, how many clusters had an answer
  calls        \* the calls for time series

vars == <<answers, position, pending, started, data, indicators, calls, files, interrupted>>

Done == position > Len(Stages)
Current == Stages[position]

AnswerTo(c, q) == IF q \in DOMAIN answers[c] THEN answers[c][q] ELSE <<>>

AllSeries(c, q) == {AnswerTo(c, q)[i] : i \in 1 .. Len(AnswerTo(c, q))}

\* The number of clusters with an answer, as CollectAndProcessMetric returns it.
Answering(q) == Cardinality({c \in Cluster : AnswerTo(c, q) # <<>>})

\* Mutant: the legacy form is wanted only if no cluster answers the generic one.
FoundAll(part, metric, eval) ==
  IF eval THEN indicators[<<part, metric>>] > 0 ELSE indicators[<<part, metric>>] = 0

\* Some cluster has answered (eval), or some has not.
Found(part, metric, eval) ==
  (IF eval THEN indicators[<<part, metric>>]
   ELSE Cardinality(Cluster) - indicators[<<part, metric>>]) > 0

FoundIndicatorCounter(part, metric) == {f \in BOOLEAN : Found(part, metric, f)}

\* The wrappers that fit some cluster's node exporter.
GetQueryWrappers ==
  {Wrappers[i] : i \in DOMAIN Wrappers} \cap UNION {data[c].exporters : c \in Cluster}

HasExporter(e) ==
  IF e = "node" THEN GetQueryWrappers # {} ELSE \E c \in Cluster : e \in data[c].exporters

Wanted(given) ==
  CASE given[1] = "missing" -> Found(Current.part, given[2], FALSE)
    [] given[1] = "exporter" -> HasExporter(given[2])
    [] given[1] = "wrapper" -> given[2] \in GetQueryWrappers
    [] OTHER -> TRUE

Init ==
  /\ answers \in Answers
  /\ \E f \in Failures :
       /\ data = [c \in Cluster |-> NewCluster({u[2] : u \in {u \in f.unwritable : u[1] = c}})]
       /\ interrupted = f.interrupted
  /\ position = 1
  /\ pending = {}
  /\ started = FALSE
  /\ indicators = [m \in {"node", "cluster"} \X {"capacity", "allocatable", "limits", "requests"} |-> 0]
  /\ calls = {}
  /\ files = <<>>

-----------------------------------------------------------------------------
(* Queries *)

\* The clusters whose entities a file stage writes.
ClustersToWrite(part) ==
  CASE part = "node" -> {c \in Cluster : AnswerTo(c, "nodeInfo") # <<>>}
    [] part = "cluster" -> Cluster
    [] part = "crq" -> {c \in Cluster : data[c].crqs # <<>>}
    [] OTHER -> {c \in Cluster : data[c].rqs # <<>>}

\* A query is put to the clusters, or files are to be written, or not.
Ask ==
  /\ ~Done /\ ~started
  /\ Current.handler \notin {"calls", "log", "resetWriters"}
  /\ started' = TRUE
  /\ pending' = IF ~Wanted(Current.given) THEN {}
                ELSE IF Current.handler = "files" THEN ClustersToWrite(Current.part) ELSE Cluster
  /\ UNCHANGED <<answers, position, data, indicators, calls, files, interrupted>>

\* The versions are logged with their minimum, for which they are sorted.
LogVersions ==
  /\ ~Done /\ Current.handler = "log"
  /\ data' = [c \in Cluster |-> [data[c] EXCEPT !.versions =
                 [apiServers |-> Sorted(@.apiServers), nodes |-> Sorted(@.nodes)]]]
  /\ position' = position + 1
  /\ UNCHANGED <<answers, pending, started, indicators, calls, files, interrupted>>

\* Writers are registered, or closed and cleared: no file is open.
ResetWriters ==
  /\ ~Done /\ Current.handler = "resetWriters"
  /\ data' = [c \in Cluster |-> [data[c] EXCEPT !.open = {}]]
  /\ position' = position + 1
  /\ UNCHANGED <<answers, pending, started, indicators, calls, files, interrupted>>

\* The label that names the node in a query under a wrapper.
NodeLabel(given) == IF given = <<"wrapper", "other">> THEN "instance" ELSE "node"

\* What a series of the stage's query does to what is known of its cluster.
Handle(stage, cl, s) ==
  CASE stage.handler = "version" -> [cl EXCEPT !.versions = GetVersion(@, s)]
    [] stage.handler = "create" -> createNode(cl, s)
    [] stage.handler = "labels" -> getNodeMetricString(cl, s)
    [] stage.handler = "taints" -> getNodeTaints(cl, s)
    [] stage.handler = "metric" -> getNodeMetric(stage.arg, NodeLabel(stage.given), cl, s)
    [] stage.handler = "total" -> getClusterMetric(stage.arg, cl, s)
    [] stage.handler = "createCrq" -> createCRQ(cl, s)
    [] stage.handler = "crqAttributes" -> extractCRQAttributes(cl, s)
    [] stage.handler = "crqLabels" -> populateLabelMap(cl, s)
    [] stage.handler = "crqQuotas" -> getExistingCrqQuotas(cl, s)
    [] stage.handler = "rqQuotas" -> getExistingQuotas(cl, s)
    [] stage.handler = "rqCreated" -> getCreationTime(cl, s)

\* What is known of a cluster after the last series of an answer, one being handled
\* after the other.
HandleAll(stage, cl, answer) ==
  LET known[i \in 0 .. Len(answer)] ==
        IF i = 0 THEN cl ELSE Handle(stage, known[i - 1], answer[i])
  IN known[Len(answer)]

\* The cluster's queries have names of their own.
ClusterQuery(query) == "cluster" \o query

Query == IF Current.part = "cluster" THEN ClusterQuery(Current.query) ELSE Current.query

\* The stage's handler is given this cluster's answer.
Serve(c) ==
  /\ started /\ c \in pending
  /\ Current.handler # "files"
  /\ LET answer == AnswerTo(c, Query)
         id == <<Current.part, Current.arg>>
     IN /\ data' = [data EXCEPT ![c] = IF Current.handler = "exporter"
                                       THEN DetermineExporter(Current.arg, @, answer)
                                       ELSE HandleAll(Current, @, answer)]
        /\ indicators' = IF id \in DOMAIN indicators /\ answer # <<>>
                         THEN [indicators EXCEPT ![id] = @ + 1] ELSE indicators
  /\ pending' = pending \ {c}
  /\ UNCHANGED <<answers, position, started, calls, files, interrupted>>

-----------------------------------------------------------------------------
(* Files *)

Header(part, kind) ==
  CASE part = "node" -> IF kind = "config" THEN NodeConfigHeader ELSE NodeAttributeHeader
    [] part = "cluster" -> IF kind = "config" THEN ClusterConfigHeader ELSE ClusterAttributeHeader
    [] part = "crq" -> IF kind = "config" THEN CrqConfigHeader ELSE CrqAttributeHeader
    [] OTHER -> IF kind = "config" THEN RqConfigHeader ELSE RqAttributeHeader

\* The rows, by entity.
FileRows(part, kind, cl) ==
  LET Valued(map, e) == DOMAIN map[e].values
  IN CASE part = "node" ->
            [n \in DOMAIN cl.nodes |-> IF kind = "config" THEN NodeConfigRow(Valued(cl.nodes, n))
                                       ELSE NodeAttributeRow(Valued(cl.nodes, n))]
       [] part = "cluster" ->
            [e \in {""} |-> IF kind = "config" THEN ClusterConfigRow
                            ELSE ClusterAttributeRow(DOMAIN cl.totals)]
       [] part = "crq" ->
            [q \in DOMAIN cl.crqs |-> IF kind = "config" THEN CrqConfigRow
                                      ELSE CrqAttributeRow(Valued(cl.crqs, q))]
       [] OTHER ->
            [q \in DOMAIN cl.rqs |-> IF kind = "config" THEN RqConfigRow
                                     ELSE RqAttributeRow(Valued(cl.rqs, q))]

Write(c) ==
  /\ started /\ c \in pending
  /\ Current.handler = "files"
  /\ LET file == Current.part \o "_" \o Current.arg
     IN WriteFile(<<c, file>>, file \notin data[c].unwritable,
                  Header(Current.part, Current.arg), FileRows(Current.part, Current.arg, data[c]))
  /\ pending' = pending \ {c}
  /\ UNCHANGED <<answers, position, started, data, indicators, calls, interrupted>>

-----------------------------------------------------------------------------
(* Calls for time series *)

\* The calls of a block, in each form that some cluster needs.
CallsOfBlock(part, block) ==
  CASE block = "reservation" ->
         UNION {CallsOf(part, reservationMetrics(f), f) : f \in FoundIndicatorCounter(part, "requests")}
    [] block = "conditional" ->
         UNION {CallsOf(part, conditionalMetrics(f), f) : f \in FoundIndicatorCounter(part, "requests")}
    [] block = "wrappers" ->
         UNION {CallsOf(part, IF part = "node" THEN nodeMetrics ELSE clusterMetrics, w) :
                  w \in GetQueryWrappers}
    [] block = "podCount" -> CallsOf(part, {"podCount"}, None)
    [] block = "ephemeral" -> CallsOf(part, ephemeralMetrics, None)
    [] block = "dcgm" -> CallsOf(part, dcgmMetrics, None)
    [] OTHER -> CallsOf(part, quotaMetrics, None)

Call ==
  /\ ~Done /\ Current.handler = "calls"
  /\ calls' = IF Wanted(Current.given) THEN calls \cup CallsOfBlock(Current.part, Current.arg)
              ELSE calls
  /\ position' = position + 1
  /\ UNCHANGED <<answers, pending, started, data, indicators, files, interrupted>>

-----------------------------------------------------------------------------

\* The first stage of the collector after this stage's.
NextPart ==
  LET later == {i \in position .. Len(Stages) : Stages[i].part # Current.part}
  IN IF later = {} THEN Len(Stages) + 1 ELSE CHOOSE i \in later : \A j \in later : i <= j

Leave ==
  /\ started /\ pending = {}
  /\ position' = IF Current.given[1] = "needed" /\ Answering(Current.query) = 0
                 THEN NextPart ELSE position + 1
  /\ started' = FALSE
  /\ UNCHANGED <<answers, pending, data, indicators, calls, files, interrupted>>

Next ==
  \/ Ask
  \/ LogVersions
  \/ ResetWriters
  \/ Call
  \/ Leave
  \/ \E c \in Cluster : Serve(c) \/ Write(c)

Spec == Init /\ [][Next]_vars

-----------------------------------------------------------------------------
(* Properties *)

\* What is known of a cluster refers to what it has reported, values have columns,
\* and each row of the files of nodes, clusters and quotas (output.go, cluster.go,
\* crq.go, rq.go) has the columns of the header it is written under.
TypeOK ==
  /\ position \in 1 .. Len(Stages) + 1
  /\ \A m \in DOMAIN indicators : indicators[m] \in 0 .. Cardinality(Cluster)
  /\ \A c \in Cluster :
       /\ data[c].open \subseteq DOMAIN data[c].rows
       /\ DOMAIN data[c].totals \subseteq {"CpuLimit", "CpuRequest", "MemoryLimit", "MemoryRequest"}
       /\ \A n \in DOMAIN data[c].nodes :
            DOMAIN data[c].nodes[n].values \subseteq {NodeAttributeHeader[i] : i \in DOMAIN NodeAttributeHeader}
       /\ \A q \in DOMAIN data[c].crqs :
            DOMAIN data[c].crqs[q].values \subseteq {QuotaColumns[i] : i \in DOMAIN QuotaColumns}
  /\ \A id \in DOMAIN files : \A e \in DOMAIN files[id].rows :
       Aligned(files[id].rows[e], files[id].header)

\* The versions of a cluster's instances reported under these jobs.
Reported(c, jobs) ==
  {[major |-> s.major, minor |-> s.minor] :
     s \in {s \in AllSeries(c, "buildInfo") :
              VersionLabels \subseteq DOMAIN s /\ s.job \in jobs /\ s.instance # "" /\ s.git_version # ""}}

\* The version of a cluster is the lowest of its API servers, or without them the
\* highest of its nodes, and it has a minimum version if all its nodes do, although
\* the lists are sorted but once (kubernetes.go:112), in whatever order the
\* versions were reported.
VersionsExtremal ==
  position > Len(VersionStages) =>
    \A c \in Cluster :
      LET apiServers == Reported(c, ApiServerJobs)
          ofNodes == Reported(c, NodeJobs)
          version == GetClusterVersion(data[c].versions)
      IN /\ \A v \in apiServers : Compare(version, v) <= 0
         /\ apiServers = {} => \A v \in ofNodes : Compare(version, v) >= 0
         /\ \A m \in 20 .. 30 :
              HasMinimumVersion(data[c].versions, 1, m)
                <=> ofNodes # {} /\ \A v \in ofNodes : Compare([major |-> 1, minor |-> m], v) <= 0

\* The legacy queries, by the generic one whose answer they stand in for.
LegacyOf ==
  [capacity |-> {"cpuCapacity", "memCapacity", "podsCapacity"},
   allocatable |-> {"cpuAllocatable", "memAllocatable", "podsAllocatable"},
   limits |-> {"cpuLimit", "memLimit"},
   requests |-> {"cpuRequest", "memRequest"}]

\* A cluster that answers only the legacy form of a query gets the values of that
\* answer recorded, for its nodes and in total, and its time series are asked for
\* in the form it answers and under the wrapper that fits its node exporter,
\* whatever forms and exporters other clusters have (the indicators of
\* node.go:84 to 146 and cluster.go:172 to 183 only count clusters).
QueriesFitClusters ==
  Done =>
    \A c \in Cluster :
      /\ \A q \in DOMAIN LegacyOf : AnswerTo(c, q) = <<>> =>
           \A m \in LegacyOf[q] : \A s \in AllSeries(c, m) :
             \A n \in getNode(data[c], s, "node") : \A e \in NodeEffectsOf(m, s) :
               e.attribute \in DOMAIN data[c].nodes[n].values
      /\ \A q \in {"limits", "requests"} : AnswerTo(c, ClusterQuery(q)) = <<>> =>
           \A m \in LegacyOf[q] : AnswerTo(c, ClusterQuery(m)) # <<>> =>
             \A e \in ClusterEffects : e.metric = m => e.attribute \in DOMAIN data[c].totals
      /\ CallsOf("node", reservationMetrics(AnswerTo(c, "requests") # <<>>),
                 AnswerTo(c, "requests") # <<>>) \subseteq calls
      /\ CallsOf("cluster", conditionalMetrics(AnswerTo(c, ClusterQuery("requests")) # <<>>),
                 AnswerTo(c, ClusterQuery("requests")) # <<>>) \subseteq calls
      /\ \A s \in {AnswerTo(c, "nodeExporter")[i] : i \in {Len(AnswerTo(c, "nodeExporter"))} \ {0}} :
           \A w \in NodeIndicator(s) :
             CallsOf("node", nodeMetrics, w) \cup CallsOf("cluster", clusterMetrics, w) \subseteq calls
=============================================================================
