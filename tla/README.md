# container-data-collection in TLA+

The program queries one Prometheus-compatible server for the metrics of one or
more Kubernetes clusters and writes them to CSV files, per cluster and kind of
entity. It runs once, as one thread, and exits. It keeps nothing between runs.

What makes it hard to test is therefore not concurrency in the usual sense but

* **order**: almost every loop ranges over a Go map (filter groups, clusters,
  results, query variants, autoscalers, node labels), so the order differs from
  run to run, and state is shared between the iterations;
* **partial answers**: every query is put to every cluster and may go
  unanswered, time out or be empty in any of them, and some decisions are made
  per cluster, others by counting over all clusters;
* **what earlier stages leave behind**: globals filled by one collector and read
  by another (query exclusions, exporters found, metrics present, features);
* **files**: the same file name used by several calls, created inside loops.

## Inventory

| Component | State | Operations | Interacts with |
| --- | --- | --- | --- |
| Cluster filters (`common/filter.go`) | `filtersByName`, `ClusterNames`, `noIdentifiersFilter`, `labelFilters` | registration, validation, grouping; adjusting a query for a cluster; splitting results | everything: names and labels of clusters |
| Query collection (`common/prometheus.go`, `result.go`, `generics.go`) | client, `onceConn`, `clusterQueryExclusions`, `presentMetrics` | `CollectMetric`, `Merge`, `ProcessResults`, `ResolveMetrics`, exclusions | called by all collectors, with a callback per cluster |
| Scrape intervals, query embedding (`common/prometheus.go`, `query.go`) | `clusterExporters`, `clusterExportersByJob` | find exporters and their intervals; rewrite range selectors and labels | `CollectMetric` |
| Sequencing (`cmd/main.go`) | configuration | the stages in order | all collectors |
| Workload files (`common/workload.go`) | open files of a call; write-through writers | `GetWorkloadQueryVariantsFieldConversion`, `InitWorkloadFile`, `WriteValues`, `WriteWorkload` | containers, nodes, node groups, quotas |
| Containers (`container/`) | namespaces, objects, containers, `ownerships`, label holders, exporters, write-through writers, the workload query | owners, metrics, label maps, two files per cluster, time series | workload files, nodes (exporters) |
| Autoscalers (`container/collection.go`) | `objectHpas`, `unclassifiedHpas`, each one's `workload` | `getHpas`, `getWorkload` | workload files |
| Events (`container/events.go`) | `indicators` | restart and OOM-kill events, encoded in one number | exclusions, workload files |
| Nodes, GPUs (`node/`) | nodes, exporter indicators (once), write-through writers | metrics, query wrappers, two files per cluster, time series | cluster, node groups, containers |
| Node groups (`nodegroup/`) | `clusterFeatures`, `nodeGroups`, `roleEng`, label names | detect features, form groups, write files | exclusions (comment), nodes |
| Cluster totals (`cluster/`) | one record per cluster | metrics with fallbacks | nodes |
| Quotas (`crq/`, `rq/`) | quotas by name | metrics, files | write-through writers |
| Kubernetes versions (`kubernetes/`) | versions by cluster and node, sorted once | add, extremum, minimum version | events, cluster, nodes |
| Platform, output, values, logs (`common/`) | - | text, units, log files | all |

What makes each of them correct:

* filters: accepted clusters are told apart by their labels and partitioned into groups;
* collection: each target's data is handed over once, and nobody else's failure costs it;
* sequencing: exclusions and one-time determinations mean the same to every stage;
* workload files: all that was received is written, once, newest first, under a header;
* autoscalers: values go to the file of their metric;
* node groups: detection stops when every cluster has a feature, and the files end up complete;
* owners: every container has one top-level owner, found in finitely many steps, and
  every later series about one of its pods finds it there;
* fallbacks: a cluster that knows only the older form of a query is asked in that
  form, whatever the other clusters know;
* time series: each container is reached by every query it should be reached by,
  in the right unit;
* versions: the extrema are extremal in whatever order versions were reported;
* rows: each has the columns of its header, whatever is unknown.

## Modules

Paths are below `src/internal/` unless they begin with `cmd/`.

### ClusterFilters (`common/filter.go`)

`Register`, `Reject`, `NilEntry` and `Accept` are the ways
`registerClusterFilter` and the loop around it can go for the next entry of the
configuration. `filtersByName`, `ClusterNames`, `noIdentifiersFilter` and
`labelFilters` are the variables of the same names; a group is keyed by its set
of label names rather than by the fingerprint of that set (collisions of the
64-bit hash are left out). The comparison with the filters registered before
is a quantifier, because it has no effects but its verdict and the code ranges
over a map. Labels and values are model values: registration only compares them.

### MetricCall, MetricCollection (`common/prometheus.go`, `result.go`, `cmd/main.go`, and the exclusions of `nodegroup` and `container`)

`MetricCall` is the promise: a query has target clusters, each answers on its
own account, the data of each that did is handed over once, the call returns.

`MetricCollection` is the code. A call goes through `CollectMetric(q)`,
`VisitGroup`, `Skip` or `Ask` for each cluster, `Collected`, `ProcessResult` for
each result and `Return`; the order of groups, clusters and results is free, as
map iteration is. `Merge` has the strategy the program uses. Between calls the
stage advances in the order of `main`; the `Enter...` actions register and
unregister exclusions where the code does and plan the queries of the stage,
each reduced to what exclusions and stages tell apart (its kind, and the cluster
in its trailing comment). Answers are data or an error.

`asked` is a history variable. `include`, `modern`, `detected` and `reachable` are
chosen once: the configuration, the versions of the clusters, whether any series named
its container by labels the code recognises (without that no events are asked for,
`events.go:162`), and whether a client can be made and the server answers at first. Making a client is deterministic in the
configuration, so once `CheckPrometheusUp` has succeeded `promApi` does not fail
later; queries may, and then count as an error of that cluster. An answer that
carries both data and an error is left out.

### WorkloadFiles (`common/workload.go`)

Calls of `GetWorkloadQueryVariantsFieldConversion` with one file name, one after
the other. `CollectMetric` picks a variant of the query (a map) for the current
interval; `SkipResult` and `WriteResult` take the clusters' results in any order.
`WriteResult` is the whole iteration: the file is looked up or created, its
header written, and then as many rows as the file system allows. `clusterFiles`
tells "no entry" from "nil entry", as the code's map does. A row stands for the
samples of a series and remembers call, interval, query and series; a series is
kept or refused by `Fields`. Errors of closing a file and partially
written lines are left out.

### HpaWorkload (`container/collection.go`)

Calls of `hpaWorkloadQuery.getWorkload`, one after the other, with the file name
each of them writes to (`FileOf`). Values are gathered per autoscaler and
interval (`Collect`, `CollectFails`), then written slot by slot, a slot being a
cluster and whether the autoscalers are classified (`WriteSlot`,
`NextWriteInterval`, `CloseFiles`), or nothing is (`NothingFound`). A slot's file may
not be created, be truncated and left without a header, be cut after some rows, or be
written (`Outcome`). The values in
`workload` are the calls they come from, which is all the properties ask.

### NodeGroups (`nodegroup/`)

The three ways to find features, each an action whose parameters are the
clusters that answer: `DetectLabels` and then `CreateLabelGroups` for each label,
`DetermineOpenshift`, and for roles `AskRoles`, `DetectRoles` for one cluster after
the other (it replaces the feature a cluster has without looking, `role.go:103`) and
`CreateRoles`; then `Visit` for the clusters one by one, and each visit writes the
files of all. A group keeps its nodes, their count and
whether the visit's queries have filled it; `members`, the nodes that were
answered, is a history field. Node names matter only by containment (`PartOf`),
because `createNodeGroup` looks for a name in the string of all names.
`FirstLabels` leaves the choice between labels of the same type open, as the
stable sort of a map's keys does. File errors, the truncation of long machine set
names and the text of the queries are left out; time series of groups go through
`WorkloadFiles`.

### ContainerOwners, ContainerMetrics, ContainerObjects, Containers (`container/container.go`, `collection.go`)

Four modules, each extending the one before, that together are the collector of
containers up to its files.

`ContainerOwners` is the registry of owners. `GetOwner` is one series of
`getOwners`; `AddContainer` one of `addContainerAndOwners` up to its loop,
`Climb` one round of the loop, `ReachTop` the rest, which tells the ownerships
passed on the way where the walk ended and places the container. `getOwnerId`,
`getOwner` and `getObject` are the lookups of all later handlers. A container is
a member of `containers[c]` under the key of its object and its name.

`ContainerMetrics` is `getContainerMetric`: which label names count in a cluster
(`DetectHolder`), which attribute a metric sets and to which write-through file
it goes (`Effects`, a table of the code's `switch`), `WriteWorkload` with
`ShouldWrite`. `ContainerObjects` has the handlers of objects, of namespaces and
of autoscalers, with their merging and classification.

`Containers` puts them in order: `Stages` is the list of queries of `Metrics`
with the handler each answer goes to and the condition it is issued under. `Ask`
puts the query of the stage to the clusters, `Series` gives its handler one series,
`EndStage` goes on, or gives up where the code returns. Series of one cluster
come together, as matrices do, in any order. What each cluster answers is chosen
at the start; a query that fails in a cluster is no key of its answers. For most
handlers that is the same as an empty answer, but a cluster in which all three queries
for owners failed has no ownerships, and its containers are dropped (`HasOwnerships`).

### ContainerWorkloads (`container/output.go`, `container.go` from line 740)

`WriteFiles` writes the configuration and attribute files of containers and of
unclassified autoscalers. `Separate`, `NextPhase` and `SingleQuery` are the calls
of `getWorkload`, one record `wq` being passed through all of them as in the code:
each sets what the code sets and keeps what it keeps. A call is remembered with
its file name, aggregator, unit, label names and group clauses; the text of the
query is not.

### AttributeFiles (`output.go` of `container` and `node`, `cluster.go`, `crq.go`, `rq.go`)

`WriteFile` creates a file and writes header and rows, as many as an error
leaves. A header is the list of its columns, and a row lists for each cell the
column it was computed for, or nothing if the value is unknown, so that a row in
which a cell has moved no longer fits. The rows of one file don't: those of
autoscalers that scale no known object have a cell more than their header
(`HpaAttributeRow`, `Shifted`).

### KubeVersions, Nodes, ClusterTotals, Quotas, Inventory (`kubernetes/`, `node/`, `cluster/`, `crq/`, `rq/`)

`KubeVersions` (versions of API servers and nodes, sorted once), `Nodes`
(nodes, exporters, GPU labels, metrics and workload rows of nodes),
`ClusterTotals` (totals, and the calls for time series in their forms) and
`Quotas` are the handlers, as operators from what is known of a cluster and one
series to what is known then. Here the order of the series of an answer matters
to lists and last values, so an answer is a sequence.

`Inventory` runs them in the order of `main`: `Ask` enters a stage, `Serve` gives
its handler the answer of one cluster, in any order of clusters, `Write` writes a
cluster's file, `Call` records the calls for time series, `Leave` ends the stage
and skips the collector's rest where the code returns. `indicators` counts
clusters as the code does; `Found` asks it for some cluster with an answer or
some without.

## What the checks show

| Run | Bounds | Result |
| --- | --- | --- |
| `filters` | up to 3 entries, 3 names and none, 2 labels with 2 values, nil entries; names and values symmetric | all invariants hold |
| `collection` | 3 clusters in 2 groups, every set of included stages and of modern clusters | all invariants hold, collection ends, calls implement `MetricCall` |
| `workload_files` | 1 call, 2 clusters, 2 query variants, 2 intervals, answers of 1 or 3 series | all hold |
| `workload_rewrite` | 2 calls | violated: the second call truncates |
| `hpa_workload` | 3 autoscalers in 2 clusters, 2 calls, history of 1 or 2 | all hold |
| `hpa_history` | the same | violated: with a history of 2 received values are not written |
| `node_groups` | 2 clusters, 3 labels of three types, 3 nodes, one name part of another | all hold |
| `node_group_size` | the same | violated: a node is missed |
| `openshift_detection` | the same | violated: a cluster without machines is taken for OpenShift |
| `containers` | 5 x 4 combinations of what two clusters answer, 2 of exporters, files failing or not | all hold (171,810 states) |
| `creation_times` | the same | violated: replication controllers get no creation time |
| `inventory` | 3 x 3 combinations of what two clusters answer, files failing or not | all hold (6,660 states) |

The bounds are small because the interesting cases are: two clusters can
disturb each other, a third shows that the rest is unaffected; three filters are
needed for a third to meet an accepted pair; two groups, because the merge is of
groups; two intervals, because everything that goes wrong with history does so
at the second; three labels, because precedence has a first, an allowed and a
refused one. Three query kinds excluded in two ways, with clusters on either side
of both exclusions, cover every combination of `RestartsOnce`.

The answers of `containers` are whole installations, because only together do the
60 queries make sense: a deployment whose pods share a replica set and a pod of its
own with two containers; jobs of cron jobs, a rollout, a replication controller
and a static pod, with owners at each distance a query can report (none, one or
two levels up); an old cluster with the older label names; clusters
that answer generic queries for limits, legacy ones, both or neither; autoscalers
under the newer or the older label or both, with two metrics, named like their target
or found by their metrics only, and one without target; DCGM and Kubex GPUs. A
second cluster disagrees on each, or has failed to answer about owners. Two clusters are enough for every decision by counting
(all, some, none). Ownership cycles are not among the answers (the assumption
`OwnersOutrank`, which the runs evaluate): the three queries report owners of pods,
replica sets and jobs, and Kubernetes makes no replica set or job own its owner.

Those of `inventory` differ in the age of the exporters, in how the node exporter
names nodes (label, pod address, instance, mixed in one answer), in GPU labels
(NVIDIA, GKE), in versions reported in falling order or of nodes only, and in
quotas that are known, unknown or of other resources.

`CHECK_DEADLOCK FALSE` is in each configuration because the program ends: a
state without a successor is the end of registration, collection, the calls or
the visits.

**Fairness.** `MetricCollection`, `WorkloadFiles` and `HpaWorkload` assume weak
fairness of `Next`: there is one thread, every query is cancelled after two
minutes (one for some), and no step waits for anything else. `CollectionEnds` is
the only liveness property; it says that no order of groups, clusters and
results and no pattern of failures keeps the program from its end.
The other modules state no fairness because only safety is claimed.

### Disagreements found

1. `InitWorkloadFile` looks for an existing file under the wrong name
   (`workload.go:288`), so the "file already exists" error never happens and a
   second call with the same file name loses the rows of the first.
2. With a history of more than one interval `getWorkload` of the autoscalers
   creates its files anew for each (`collection.go:866`), keeping the oldest, and
   forgets which clusters had values (`collection.go:836`).
3. A node whose name is part of another's is left out of its group
   (`nodegroup.go:250`).
4. One OpenShift cluster makes all clusters without labels OpenShift clusters
   (`openshift.go:147`).
5. The query for the creation times of replication controllers is issued while the
   holder of objects is set to replica sets (`container.go:630`), so none are recorded.
6. A row of the attributes of autoscalers that scale no known object has 12 cells under
   11 columns: four commas follow the namespace (`container/output.go:256`), and the
   name is printed with another before it (line 275), so the name is under
   `HpaLabels` and each cell after it a column behind (the header is at line 250).
   No run is violated by it: `TypeOK` of `containers` states these rows as they are
   (`RowsFit`), which fails for rows that fit, and all other rows as fitting.

## What is proved

`ClusterFiltersProofs` proves for every finite or infinite set of names, labels
and values and every configuration that registration is type-correct, that
registered clusters are disjoint, that a cluster without identifiers is alone,
that groups partition the clusters and that names are listed once. The invariants
are not inductive alone: that an unidentified cluster stays alone needs the flag
to be up as soon as one is registered (`FlagTracksUnidentified`), and the
partition needs the types of the maps and the list of names. The only assumption
is `ConfigsAssumption` (the empty name is no name, a nil entry no filter).

`MetricCollectionProofs` proves, from `ClusterAssumption` (clusters finite and
not none, groups a partition of them - which is `GroupsPartitionClusters` of the
registration), that no call's results are discarded, that results are complete,
that the count is right, which clusters commented and uncommented queries reach,
and that the collection implements `MetricCall`. The strengthening:

* `Connected`: no calls before the first connection, and afterwards the server is reachable;
* `Progress`: while a call collects, results, the rest of the visited group and the
  groups to visit are pairwise disjoint and cover the targets. Disjointness is why
  `Merge` never fails; the cover is why nothing is missing at the end;
* `Delivering`: only what was collected is processed, and only then;
* `Planned`: on the node group stage every query is commented and the exclusion
  registered, on others neither.

That the targets of a call do not move while it runs (`TargetsStable`) needs an
argument of its own, because `ProcessResult` changes `presentMetrics`.

Its second part goes on across the stages of the program: the types, that the
exporters have been determined for all clusters before any stage uses them, and that
restarts and OOM kills are asked of each cluster by the queries meant for it, in any
mixed installation. What is needed is, for each step of a call, what has been asked
and of whom it is still to be asked (`Determining`, `Covering`) and which queries a
stage may have (`StageKinds`); that a call which has returned has asked all its
targets is the completeness above.

`Induction` has what the loops over sequences need: induction over the natural numbers
in the form of sets (`SetInduction`, from the well-foundedness of finite sets under
inclusion), the existence of the function that gives a loop's values after each of its
turns (`LoopExists`), and that what each turn preserves holds of all of them
(`LoopInvariant`). Filters and folds of the models are such functions. Its second section
is about rows and lists put together from parts: how long a join is and what is where in
it (`Joined`), and that parts which fit their columns make a row that fits its header
(`FitsJoin`, `PartsJoin`).

`WorkloadFilesProofs` proves that no row is ever under a missing header and that
handles are neither leaked nor closed twice, for any clusters, queries, intervals
and number of calls; then, for answers of any length, that all that was received is
written, newest first, and that files only grow within a call. The strengthening of
the first is `OpenHasHeader`: a file in `clusterFiles` that is not nil had its header
written when it was created, and rows only go to such files. The second needs what an
answer's rows are (`Current`: the call, interval and query they are read in, proved by
the loop over the series), that a file has nothing newer than the interval at hand
(`FilesPast`), and that a file which is not to be had has been refused (`NilRefused`).

`HpaWorkloadProofs` proves, for any autoscalers, clusters, number of calls and length
of history, that files hold values of their own metric only, that clusters without
values keep their files, and that with one interval of history all that was received
is written. `Fresh` says what the autoscalers, which all calls share, hold meanwhile;
`Due` that only slots of clusters with values are left to write; `Single` relates what
was received to what is left to write and to what is in the files.

`NodeGroupsProofs` proves for any finite set of clusters, any labels, roles and
answers, that the files end up final, that only roles replace a feature, and that
no feature changes once all clusters have one, save by the roles of the clusters whose
answers are being gone through: the cluster that lacked a feature may come first
among these, and the others' features by labels are still replaced. Nor are roles
asked for once all have a feature. The strengthening:
only clusters with a feature have groups (`GroupsNeedFeature`), so that the files of
a loop without visits are those of no groups, and the loop visits all of them
(`Writing`). Then, for answers of any length and any names of nodes, that a group's size
is the number of its distinct nodes: `Known` is what groups are after each series of
the loop that forms them. It is assumed that clusters and nodes are finite (counting
decides whether to go on detecting, and a group's size is a number), that a name is part
of itself, and that the order of the labels' types is strict (`NodeGroupAssumption`).

`ContainersProofs` proves about the collector of containers through all of its stages,
for any clusters and any answers that satisfy

* `OwnersOutrank`: replica sets and jobs are owned by neither, pods are owned by no
  pods. Kubernetes' own controllers satisfy that; for a job that is reported to own
  itself the loop in the code would not end;
* `OwnersNamed` and `HoldersAssumption`: `None` is neither an owner's name nor a label
  holder (the nil pointers of the code);
* `LimitsReported`: no limit or request is -1, the code's mark of an unknown value.
  They are quantities, which the API server accepts from 0 up;
* `ScalersReported`: the metrics of an autoscaler come with all their labels and name one
  target, and a cluster that has its labels under the newer name of the label has its
  metrics under that name, too, if it has any. An autoscaler has one target and an
  exporter one name for the label. Where an autoscaler is given another target, or an
  exporter replaced, in the hour asked about, the code stays with what it was told first,
  and `ScalersAttached` is not claimed.

Its first part is about owners. The walk to the top-level owner never comes back to an
ownership: each names an owner of higher rank or is that of a pod owning itself
(`Owned`), and the ownerships on a path rise in rank and share the namespace (`Rising`).
`HomeFound`, that later series find each container where the walk has placed it,
relates three things that happen stages apart: how owners were detected as relevant
(`OwnersRelevant`), what the top-level owner told to the ownerships on a path is - the
end of the path from each of them, also if it is told again by another walk
(`TopsAgree`, `PathLeads`) - and where the container is (`AllAtHome`). `PlacesInv` is
their conjunction; the loop of the walk is three steps up at most, by rank.

The second part is about what the stages after that do with containers.

* `RowsOnce`, from `RowsKnown`: what `ShouldWrite` knows of a file that is open is what
  is in it.
* `WorkloadCovered`, from `GroupsInv` and `CallsInv`. The first says that each
  container's object is joined with one of its pods by a clause of those the detected
  kinds of owners call for (`AllGrouped`, with `TypesDetected`). The second says for each
  phase what the record that is passed through all queries holds as far as later
  queries depend on it (`QueryKnown`: a query that sets the aggregators leaves them so
  for the next) and which time series have been asked for, under all names of labels in
  use (`CallsKnown`).
* `LimitsKnown`, from `LimitsInv`: what a series of a legacy query told has been recorded
  since its handler had it (`LegacyRecorded`), by the label names its cluster decided
  on. Of the 60 stages only those between the query by resource and the legacy one
  matter (`WithLimits`, `LimitStages`): that the generic query was unanswered for this
  cluster is why the legacy one is put to it (`MissingKnown`).
* `TypeOK`: that each row of the files has a cell for each column of its header,
  whatever of the container is unknown, but for the shifted rows of disagreement 6, of
  which the theorem says by how much they are shifted (`AllAligned`). A row and its header are joins of
  parts that depend on what was detected, and part for part there are as many cells as
  columns (`Fits`, `FitsJoin`); the lemma `PartsJoin` says so of joins of any length. The
  other parts are what autoscalers, walks and namespaces refer to (`Registered`,
  `AllBelong`), the attributes of containers and the range of phases.
* `ScalersAttached`, from `ScalersInv`: no autoscaler is known before its stages, and from
  then on a known one has the target its metrics name, whichever of the two names and of
  the two kinds of series told of it (`Attached`). That an autoscaler's labels do not make
  it known under a guessed object before its metrics do is what the order of the stages is
  for (`ScalerStages`), and, for metrics under the older name, the third clause of
  `ScalersReported`. That objects stay with their autoscalers needs what all handlers
  leave of them (`ObjectsMade`, `Kept`).

`InventoryProofs` proves the three invariants of `Inventory` for any number of clusters
that answer anything, in any order, with any files failing. It assumes that there are
clusters, finitely many, and that `None` is neither a cluster nor a column
(`InventoryAssumption`); that an answer is a sequence (`AnswersAssumption`); and that the
numbers of a version are numbers and a git version says which (`VersionsAssumption`: the
code keeps the numbers first reported with a git version for all, and Kubernetes derives
both from one string). The inductive invariant is `InventoryInv`:

* `Control`: a stage that is entered asks or writes, and serves the clusters one by one;
* `DataWellFormed`: what is known of each cluster has the columns of its files, and open
  files have been begun (`ClusterOK`);
* `VersionsKnown`: the lists hold the versions told, and no others, until they are sorted, and
  have the extremes at their ends from then on;
* `CountsKept`: an indicator counts the clusters that have answered the generic query;
* `RecordsKept`: a legacy answer given for want of a generic one has been recorded, and a
  cluster's node exporter is known by the names it uses;
* `CallsMade`: the calls have been made in the form each cluster answers;
* `FilesAligned`: each row has the columns of the header it is under.

`QueriesFitClusters` is the long way round from counts over all clusters to what each of
them is asked. A legacy stage is skipped only if the count says that no cluster lacks an
answer, which then holds of this one (`UnwantedLegacy`); otherwise the legacy query is put
to it and its answer recorded (`NodeServed`, `TotalServed`), which no later handler undoes
(`DataSteps`, from `Grown`: from the fourth stage on data is only added). The calls read
the same counts (`FormFound`, `WrapperFound`). That each count is of one query's answers
needs that no two stages count under the same name (`CountingOnce`).

`VersionsExtremal` needs that the list is what was told (`VersionListed`, although a git
version is listed once and what was listed first stands for all), and that a stable sort, defined by how many
come before each, has a least element first and a greatest last (`SortedExtremes`).
`TypeOK` needs the cells of every kind of row, part by part (`RowsAligned`).

Only model-checked:

* liveness, which is out of the prover's reach (`CollectionEnds`); every invariant and
  every action property of the runs that hold is proved for all values of the constants.

## Plan

All collectors of `main` are modelled, in the order of how much rests on them:
filters, collection and sequencing, files of time series, node groups, containers,
and the inventory of versions, nodes, totals and quotas. What could be added:

* a composition of `Containers` with `MetricCollection`, so that what a cluster
  answers is what a call hands over rather than chosen at the start; both are
  checked separately because their product exceeds what TLC can explore.

## Not modelled

* **Scrape intervals and query embedding** (`CalculateScrapeIntervals`,
  `adjustIntervalToScrapeInterval`, `embedClusterLabels`, `calculateFilter`, the
  splitting of one result among clusters): they compute on the text of queries with
  regular expressions, and TLC's strings have no characters to do that with. The
  splitting is switched off by the constant `queryPerCluster`.
* **PromQL and platform detection**: rewriting of query text; a query is known here by
  its name and by what its answers look like.
* **The encoding of events** in one floating-point number: products of timestamps
  and counts exceed TLC's 32-bit integers, and the rounding at stake is that of
  floating point.
* **The length limit of label maps**, GPU model names, sharing strategies and
  allocation types, detected runtimes: strings for a single cell that nothing else
  is decided by. Which cells there are and which are empty is modelled.
* **Formats, units, directories, logs**: layout. The unit asked for is part of a
  call where two units are possible for one metric (`WorkloadCovered`).
* **Authentication and transport** of the client: the answer of a query is data,
  or an error, and the first attempt may fail.
* **Errors on closing files and half-written lines.**

## Running

    tlc -config MCMetricCollection.cfg MCMetricCollection
    tlc -config MCContainers.cfg MCContainers
    tlapm InventoryProofs.tla
