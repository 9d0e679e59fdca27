-------------------------- MODULE MetricCollection --------------------------
(***************************************************************************)
(* Putting a query to all clusters, and the order in which the collectors  *)
(* do so (internal/common/prometheus.go and result.go, cmd/main.go, the    *)
(* registries of internal/nodegroup and internal/container).               *)
(*                                                                         *)
(* The program is one thread.  What it can't rely on is the order in which *)
(* Go iterates over its maps (the groups of cluster filters, the clusters  *)
(* of a group, the results, the queries of a stage), the answers of the    *)
(* server, and the state earlier stages leave behind: the registry of      *)
(* query exclusions, the exporters (determined once and remembered) and    *)
(* the metrics found present.                                              *)
(***************************************************************************)
EXTENDS Naturals, FiniteSets

CONSTANTS
  Cluster,  \* the registered clusters
  Groups,   \* labelFilters: a partition of them (see ClusterFilters)
  None      \* no cluster, no query

ASSUME ClusterAssumption ==
  /\ IsFiniteSet(Cluster) /\ Cluster # {}
  /\ None \notin Cluster
  /\ Groups \subseteq SUBSET Cluster
  /\ UNION Groups = Cluster
  /\ \A g, h \in Groups : g # h => g \cap h = {}

\* The queries, by what the exclusions and the stages tell apart.  comment is
\* the cluster of the trailing "# cluster=..." comment, if there is one.
Kind == {"plain", "exporters", "resolve", "restarts", "restartTimes", "oomKills"}
Query == [kind : Kind, comment : Cluster \cup {None}]
Untagged(kind) == [kind |-> kind, comment |-> None]

Stage == {"connect", "nodes", "nodeGroups", "containers", "resolve", "events",
          "quotas", "done", "fatal"}
Exclusion == {"excComment", "noHiddenOomKills", "noLastTerminated"}
Optional == {"nodeGroups", "containers", "quotas"}

\* What filterValue makes of a server's answer: a matrix with series, or an
\* error (no data, a value of another type, a failed or cancelled query).
Result == {"data", "error"}

VARIABLES
  reachable,      \* a client can be made and the server answers the first query
  include,        \* the optional stages the configuration includes
  modern,         \* clusters of Kubernetes 1.28 or later (kubernetes package)
  detected,       \* some series names containers by labels that are recognised
  stage,
  todo,           \* the queries this stage has yet to issue
  exclusions,     \* clusterQueryExclusions: the registered ones
  phase,          \* of the current call: "idle", "collecting", "processing"
  query,          \* its query
  groupsLeft,     \* label filter groups it has yet to visit
  clustersLeft,   \* clusters of the visited group it has yet to visit
  crm,            \* results by cluster
  err,            \* the error CollectMetric returns
  n,              \* the number of clusters with data it returns
  unprocessed,    \* results the caller has yet to look at
  exporters,      \* None until determined, then the clusters that were asked
  presentMetrics, \* clusters whose last-terminated timestamp metric is present
  asked           \* history: kinds of queries put to each cluster since events

callVars == <<phase, query, groupsLeft, clustersLeft, crm, err, n, unprocessed>>
planVars == <<stage, todo, exclusions>>
vars == <<reachable, include, modern, detected, stage, todo, exclusions, phase, query,
          groupsLeft, clustersLeft, crm, err, n, unprocessed, exporters,
          presentMetrics, asked>>

NoResults == [c \in {} |-> "error"]

Init ==
  /\ reachable \in BOOLEAN
  /\ include \in SUBSET Optional
  /\ modern \in SUBSET Cluster
  /\ detected \in BOOLEAN
  /\ stage = "connect"
  /\ todo = {}
  /\ exclusions = {}
  /\ phase = "idle"
  /\ query = Untagged("plain")
  /\ groupsLeft = {}
  /\ clustersLeft = {}
  /\ crm = NoResults
  /\ err = FALSE
  /\ n = 0
  /\ unprocessed = {}
  /\ exporters = None
  /\ presentMetrics = {}
  /\ asked = [c \in Cluster |-> {}]

-----------------------------------------------------------------------------
(* Query exclusions *)

\* Mutant: the comparison is inverted.
ExcludeOwnComment(c, q) == q.comment = c

\* The query is commented for another cluster, or for none.
ExcludeQueryByClusterComment(c, q) == q.comment # c

\* OOM kills inside a container are not hidden from Kubernetes 1.28 on.
excludeHiddenOomKills(c, q) == q.kind = "oomKills" /\ c \in modern

\* Mutant: the presence of the metric is not compared with its use.
excludeOnlyPresent(c, q) ==
  q.kind \in {"restarts", "restartTimes"} /\ c \in presentMetrics

\* Restarts are queried with their timestamps where those are present, and
\* without them elsewhere.
excludeKsmLastTerminated(c, q) ==
  /\ q.kind \in {"restarts", "restartTimes"}
  /\ (c \in presentMetrics) # (q.kind = "restartTimes")

excludeQueryForCluster(c, q) ==
  \/ "excComment" \in exclusions /\ ExcludeQueryByClusterComment(c, q)
  \/ "noHiddenOomKills" \in exclusions /\ excludeHiddenOomKills(c, q)
  \/ "noLastTerminated" \in exclusions /\ excludeKsmLastTerminated(c, q)

-----------------------------------------------------------------------------
(* Stages: the order of cmd/main.go *)

\* Mutant: the first error is not fatal.
ignoreConnectionError == "nodes"

\* The first connection attempt decides whether the program goes on
\* (failOnConnectionError runs once).  A configuration no client can be made
\* from never gets any further.
failOnConnectionError == IF reachable THEN "nodes" ELSE "fatal"

\* Mutant: the exporters are left to the stages that need them.
nodeQueriesOnly == {Untagged("plain")}

nodeQueries == {Untagged("plain"), Untagged("exporters")}

CheckPrometheusUp ==
  /\ stage = "connect"
  /\ stage' = failOnConnectionError
  /\ todo' = nodeQueries
  /\ UNCHANGED <<reachable, include, modern, detected, exclusions, exporters,
                 presentMetrics, asked>> /\ UNCHANGED callVars

StageOver(s) == stage = s /\ phase = "idle" /\ todo = {}

\* nodegroup.Metrics asks each cluster in turn, with a comment naming it; all
\* the queries of its loop are issued under the comment exclusion.
EnterNodeGroups ==
  /\ StageOver("nodes")
  /\ stage' = "nodeGroups"
  /\ todo' = IF "nodeGroups" \in include
             THEN {[kind |-> "plain", comment |-> c] : c \in Cluster}
             ELSE {}
  /\ exclusions' = IF "nodeGroups" \in include
                   THEN exclusions \cup {"excComment"}
                   ELSE exclusions
  /\ UNCHANGED <<reachable, include, modern, detected, exporters, presentMetrics, asked>>
  /\ UNCHANGED callVars

\* Mutant: the comment exclusion stays registered.
KeepExclusion == exclusions

\* The registry once nodegroup.Metrics has returned.
UnregisterComment == exclusions \ {"excComment"}

\* cluster.Metrics and container.Metrics.
EnterContainers ==
  /\ StageOver("nodeGroups")
  /\ stage' = "containers"
  /\ todo' = {Untagged("plain")}
  /\ exclusions' = UnregisterComment
  /\ UNCHANGED <<reachable, include, modern, detected, exporters, presentMetrics, asked>>
  /\ UNCHANGED callVars

\* container.Events first finds out where the timestamp metric is present.
EnterResolve ==
  /\ StageOver("containers")
  /\ stage' = "resolve"
  /\ todo' = IF "containers" \in include THEN {Untagged("resolve")} ELSE {}
  /\ UNCHANGED <<reachable, include, modern, detected, exclusions, exporters,
                 presentMetrics, asked>> /\ UNCHANGED callVars

\* FoundIndicatorCounter: TRUE if a cluster has the metric, FALSE if one has
\* not.  Both kinds of query are issued in a mixed installation.
FoundVariants ==
  (IF presentMetrics # {} THEN {Untagged("restartTimes")} ELSE {})
    \cup (IF presentMetrics # Cluster THEN {Untagged("restarts")} ELSE {})

\* The events are asked for under the label names of each holder detected while
\* the containers were collected, if there is any.
EnterEvents ==
  /\ StageOver("resolve")
  /\ stage' = "events"
  /\ IF "containers" \in include
     THEN /\ exclusions' = exclusions \cup {"noHiddenOomKills", "noLastTerminated"}
          /\ todo' = IF detected THEN FoundVariants \cup {Untagged("oomKills")} ELSE {}
     ELSE UNCHANGED <<exclusions, todo>>
  /\ UNCHANGED <<reachable, include, modern, detected, exporters, presentMetrics, asked>>
  /\ UNCHANGED callVars

\* crq.Metrics and rq.Metrics; the exclusions of the events stay registered.
EnterQuotas ==
  /\ StageOver("events")
  /\ stage' = "quotas"
  /\ todo' = IF "quotas" \in include THEN {Untagged("plain")} ELSE {}
  /\ UNCHANGED <<reachable, include, modern, detected, exclusions, exporters,
                 presentMetrics, asked>> /\ UNCHANGED callVars

Finish ==
  /\ StageOver("quotas")
  /\ stage' = "done"
  /\ UNCHANGED <<reachable, include, modern, detected, todo, exclusions, exporters,
                 presentMetrics, asked>> /\ UNCHANGED callVars

NextStage ==
  \/ EnterNodeGroups \/ EnterContainers \/ EnterResolve \/ EnterEvents
  \/ EnterQuotas \/ Finish

-----------------------------------------------------------------------------
(* One call of CollectMetric *)

\* The queries of a stage come in any order, but those of node.Metrics in the
\* order of its code: the exporters are determined first where they matter.
\* The query is prepared (platform adjustment, cluster labels): no step of
\* that fails for the queries the program issues.
CollectMetric(q) ==
  /\ phase = "idle"
  /\ q \in todo
  /\ todo' = todo \ {q}
  /\ phase' = "collecting"
  /\ query' = q
  /\ groupsLeft' = Groups
  /\ clustersLeft' = {}
  /\ crm' = NoResults
  /\ err' = FALSE
  /\ n' = 0
  /\ unprocessed' = {}
  /\ exporters' = IF q.kind = "exporters" THEN {} ELSE exporters
  /\ UNCHANGED <<reachable, include, modern, detected, stage, exclusions, presentMetrics, asked>>

\* Mutant: the visited group is visited again.
RevisitGroup(g) == {h \in groupsLeft : h # g \/ crm = NoResults}

AfterGroup(g) == groupsLeft \ {g}

\* adjustQuery: one query per cluster of the group.
VisitGroup(g) ==
  /\ phase = "collecting"
  /\ clustersLeft = {}
  /\ g \in groupsLeft
  /\ groupsLeft' = AfterGroup(g)
  /\ clustersLeft' = g
  /\ UNCHANGED <<reachable, include, modern, detected, exporters, presentMetrics, asked>>
  /\ UNCHANGED planVars /\ UNCHANGED <<phase, query, crm, err, n, unprocessed>>

Skip(c) ==
  /\ phase = "collecting"
  /\ c \in clustersLeft
  /\ excludeQueryForCluster(c, query)
  /\ clustersLeft' = clustersLeft \ {c}
  /\ UNCHANGED <<reachable, include, modern, detected, exporters, presentMetrics, asked>>
  /\ UNCHANGED planVars /\ UNCHANGED <<phase, query, groupsLeft, crm, err, n, unprocessed>>

\* Merge with strategy Fail: a second result for a cluster is an error, and
\* then the merged map is nil and the loop over the group ends.
Merge(c, r) ==
  IF c \in DOMAIN crm
  THEN /\ crm' = NoResults
       /\ err' = TRUE
       /\ clustersLeft' = {}
  ELSE /\ crm' = [d \in DOMAIN crm \cup {c} |-> IF d = c THEN r ELSE crm[d]]
       /\ err' = FALSE
       /\ clustersLeft' = clustersLeft \ {c}

\* The query of one cluster: a client is made, the server queried, and its
\* answer, r, merged.  Where no client can be made the loop goes on.
Ask(c, r) ==
  /\ phase = "collecting"
  /\ c \in clustersLeft
  /\ ~excludeQueryForCluster(c, query)
  /\ IF reachable
     THEN /\ Merge(c, r)
          /\ asked' = IF stage \in {"events", "quotas"}
                      THEN [asked EXCEPT ![c] = @ \cup {query.kind}]
                      ELSE asked
          /\ exporters' = IF query.kind = "exporters" THEN exporters \cup {c} ELSE exporters
     ELSE /\ err' = TRUE
          /\ clustersLeft' = clustersLeft \ {c}
          /\ UNCHANGED <<crm, asked, exporters>>
  /\ UNCHANGED <<reachable, include, modern, detected, presentMetrics>>
  /\ UNCHANGED planVars /\ UNCHANGED <<phase, query, groupsLeft, n, unprocessed>>

\* Mutant: every result counts, with data or not.
countResults == Cardinality(DOMAIN crm)

countData == Cardinality({c \in DOMAIN crm : crm[c] = "data"})

\* Mutant: every registered cluster is looked up in the results.
ProcessAll == Cluster

\* ProcessResults has nothing to look at when CollectMetric returns an error.
ToProcess == IF err THEN {} ELSE DOMAIN crm

\* CollectMetric returns, and ProcessResults looks at its results unless it
\* returned an error.
Collected ==
  /\ phase = "collecting"
  /\ groupsLeft = {}
  /\ clustersLeft = {}
  /\ n' = countData
  /\ phase' = "processing"
  /\ unprocessed' = ToProcess
  /\ UNCHANGED <<reachable, include, modern, detected, exporters, presentMetrics, asked>>
  /\ UNCHANGED planVars /\ UNCHANGED <<query, groupsLeft, clustersLeft, crm, err>>

\* ProcessResults hands the matrix of one cluster to the caller's function,
\* or logs its error.  metricResolver.resolve notes where the metric is.
ProcessResult(c) ==
  /\ phase = "processing"
  /\ c \in unprocessed
  /\ unprocessed' = unprocessed \ {c}
  /\ presentMetrics' = IF crm[c] = "data" /\ query.kind = "resolve"
                       THEN presentMetrics \cup {c}
                       ELSE presentMetrics
  /\ UNCHANGED <<reachable, include, modern, detected, exporters, asked>>
  /\ UNCHANGED planVars
  /\ UNCHANGED <<phase, query, groupsLeft, clustersLeft, crm, err, n>>

Return ==
  /\ phase = "processing"
  /\ unprocessed = {}
  /\ phase' = "idle"
  /\ UNCHANGED <<reachable, include, modern, detected, exporters, presentMetrics, asked>>
  /\ UNCHANGED planVars
  /\ UNCHANGED <<query, groupsLeft, clustersLeft, crm, err, n, unprocessed>>

CallStep ==
  \/ \E q \in todo : CollectMetric(q)
  \/ \E g \in groupsLeft : VisitGroup(g)
  \/ \E c \in clustersLeft : Skip(c)
  \/ \E c \in clustersLeft, r \in Result : Ask(c, r)
  \/ Collected
  \/ \E c \in unprocessed : ProcessResult(c)
  \/ Return

Next == CheckPrometheusUp \/ NextStage \/ (stage # "fatal" /\ CallStep)

\* The only thread always goes on: queries are cancelled after two minutes.
Spec == Init /\ [][Next]_vars /\ WF_vars(Next)

-----------------------------------------------------------------------------
TypeOK ==
  /\ reachable \in BOOLEAN
  /\ include \subseteq Optional
  /\ modern \subseteq Cluster
  /\ detected \in BOOLEAN
  /\ stage \in Stage
  /\ todo \subseteq Query
  /\ exclusions \subseteq Exclusion
  /\ phase \in {"idle", "collecting", "processing"}
  /\ query \in Query
  /\ groupsLeft \subseteq Groups
  /\ clustersLeft \subseteq Cluster
  /\ DOMAIN crm \subseteq Cluster
  /\ crm \in [DOMAIN crm -> Result]
  /\ err \in BOOLEAN
  /\ n \in 0..Cardinality(Cluster)
  /\ unprocessed \subseteq DOMAIN crm
  /\ exporters \in (SUBSET Cluster) \cup {None}
  /\ presentMetrics \subseteq Cluster
  /\ asked \in [Cluster -> SUBSET Kind]

Targets == {c \in Cluster : ~excludeQueryForCluster(c, query)}

\* The error that makes ProcessResults discard the results of every cluster is
\* never returned: results merge without duplicates, and a client that can be
\* made for the first query can be made for all.  A cluster's failed query
\* (Result.Error) therefore never costs another cluster its data.
NoWholesaleLoss == err = FALSE

\* A call's results are complete: once every group is visited, there is one
\* for each cluster the query isn't excluded for, and for no other.
ResultsComplete == phase = "processing" => DOMAIN crm = Targets

\* The number CollectMetric returns, which the collectors compare with the
\* number of clusters to decide on fallback queries, counts exactly the
\* clusters whose data is handed over.
CountIsDelivered ==
  phase = "processing" =>
    n = Cardinality({c \in Targets : crm[c] = "data"})

\* The exclusion registry never leaks from one stage to another: outside the
\* node group loop an uncommented query of the other collectors reaches every
\* cluster, although the exclusions of the events stay registered for good.
UntaggedReachAll ==
  phase # "idle" /\ query.kind \in {"plain", "resolve", "exporters"} /\ query.comment = None
    => Targets = Cluster

\* In the node group loop a query commented for a cluster reaches only it.
TaggedReachOne ==
  phase # "idle" /\ query.comment # None => Targets = {query.comment}

\* The exporters are determined once and remembered for all later stages; the
\* queries that determine them were put to every cluster.
ExportersOfAll ==
  stage \notin {"connect", "nodes", "fatal"} => exporters = Cluster

\* Container restarts are collected from each cluster by exactly one of the
\* two queries, also in an installation where only some clusters have the
\* timestamps; hidden OOM kills only from those before Kubernetes 1.28.  Where
\* no container is known by its labels no events are asked for.
RestartsOnce ==
  stage \in {"quotas", "done"} /\ "containers" \in include /\ detected =>
    \A c \in Cluster :
      /\ Cardinality(asked[c] \cap {"restarts", "restartTimes"}) = 1
      /\ "restartTimes" \in asked[c] <=> c \in presentMetrics
      /\ "oomKills" \in asked[c] <=> c \notin modern

\* Collection comes to an end, whatever the clusters answer.
CollectionEnds == <>(stage \in {"done", "fatal"})

\* The state of MetricCall that a state of the program stands for.
CallStatus ==
  IF stage = "fatal" THEN "refused"
  ELSE IF phase = "idle" THEN "idle"
  ELSE IF phase = "collecting" THEN "asked"
  ELSE "delivering"
CallTargets == IF phase = "idle" THEN {} ELSE Targets
CallAnswered == IF phase = "idle" THEN {} ELSE {c \in DOMAIN crm : crm[c] = "data"}
CallPending == {c \in unprocessed : crm[c] = "data"}

Call == INSTANCE MetricCall WITH
  status <- CallStatus, targets <- CallTargets,
  answered <- CallAnswered, pending <- CallPending

\* Each call is one of MetricCall: every cluster's data is handed over once,
\* whatever the other clusters answer and in whatever order they are visited.
CallSpec == Call!Spec
=============================================================================
