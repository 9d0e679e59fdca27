------------------------ MODULE MetricCollectionProofs ------------------------
(***************************************************************************)
(* What every call of CollectMetric guarantees, for every set of clusters, *)
(* every grouping of them and whatever the clusters answer.                *)
(*                                                                         *)
(* The checked invariants are not inductive: that the results of a call    *)
(* are complete rests on what it has yet to visit while it is collecting   *)
(* (Progress), that no client fails on the connection attempt that came    *)
(* before all calls (Connected), and which clusters a query reaches on the *)
(* stage it was issued in (Planned).                                       *)
(***************************************************************************)
EXTENDS MetricCollection, FiniteSetTheorems, TLAPS

\* Calls are made only once the server has answered.
Connected ==
  /\ stage = "connect" => todo = {} /\ phase = "idle"
  /\ stage \notin {"connect", "fatal"} => reachable

\* What a call has collected and has yet to visit: nothing twice, and all
\* targets between them.
Progress ==
  /\ phase \in {"idle", "collecting", "processing"}
  /\ groupsLeft \subseteq Groups
  /\ clustersLeft \cap UNION groupsLeft = {}
  /\ phase = "collecting" =>
       /\ DOMAIN crm \cap (clustersLeft \cup UNION groupsLeft) = {}
       /\ DOMAIN crm \subseteq Targets
       /\ Targets \subseteq DOMAIN crm \cup clustersLeft \cup UNION groupsLeft
  /\ clustersLeft \subseteq Cluster

\* Only what was collected is processed.
Delivering ==
  /\ phase # "processing" => unprocessed = {}
  /\ unprocessed \subseteq DOMAIN crm

\* The queries of the current stage, those to come and the current one.
Current == todo \cup {q \in {query} : phase # "idle"}

Planned ==
  /\ \A q \in Current :
       IF stage = "nodeGroups"
       THEN /\ q.kind = "plain" /\ q.comment \in Cluster
            /\ "excComment" \in exclusions
       ELSE q.comment = None
  /\ stage # "nodeGroups" => "excComment" \notin exclusions

IInv ==
  /\ Connected
  /\ Progress
  /\ Delivering
  /\ Planned
  /\ NoWholesaleLoss
  /\ ResultsComplete
  /\ CountIsDelivered

-----------------------------------------------------------------------------
LEMMA InitIInv == Init => IInv
BY ClusterAssumption DEF Init, IInv, Connected, Progress, Delivering, Planned, Current,
   NoWholesaleLoss, ResultsComplete, CountIsDelivered, NoResults, Untagged

\* The targets of a call don't change while it lasts: what it is asked for
\* depends on what is registered, and finding out where a metric is present
\* isn't a query that its presence excludes.
LEMMA TargetsStable ==
  ASSUME query' = query, exclusions' = exclusions, modern' = modern,
         presentMetrics' = presentMetrics \/ query.kind = "resolve"
  PROVE  Targets' = Targets
<1>1. ASSUME NEW c PROVE excludeKsmLastTerminated(c, query)' <=> excludeKsmLastTerminated(c, query)
  BY DEF excludeKsmLastTerminated
<1>2. ASSUME NEW c PROVE excludeQueryForCluster(c, query)' <=> excludeQueryForCluster(c, query)
  BY <1>1 DEF excludeQueryForCluster, ExcludeQueryByClusterComment, excludeHiddenOomKills
<1> QED BY <1>2 DEF Targets

\* A call is issued: nothing is collected, everything is left to visit.
LEMMA CollectMetricIInv ==
  ASSUME IInv, stage # "fatal", NEW q \in todo, CollectMetric(q)
  PROVE  IInv'
<1> USE DEF IInv, CollectMetric
<1>1. Connected'
  BY DEF Connected
<1>2. Progress'
  BY ClusterAssumption DEF Progress, Targets, NoResults
<1>3. Planned'
  BY DEF Planned, Current
<1>4. NoWholesaleLoss' /\ ResultsComplete' /\ CountIsDelivered'
  BY DEF NoWholesaleLoss, ResultsComplete, CountIsDelivered
<1>5. Delivering'
  BY DEF Delivering
<1> QED BY <1>1, <1>2, <1>3, <1>4, <1>5

\* The groups are disjoint: the visited one has nothing in common with those
\* left nor with what was collected.
LEMMA VisitGroupIInv ==
  ASSUME IInv, stage # "fatal", NEW g \in groupsLeft, VisitGroup(g)
  PROVE  IInv'
<1> USE DEF IInv, VisitGroup, planVars
<1>1. Connected'
  BY DEF Connected
<1>2. Targets' = Targets
  BY TargetsStable
<1>3. Progress'
  <2>1. UNION groupsLeft = g \cup UNION groupsLeft'
    BY DEF AfterGroup
  <2>2. g \cap UNION groupsLeft' = {}
    BY ClusterAssumption DEF AfterGroup, Progress
  <2>3. g \subseteq Cluster /\ groupsLeft' \subseteq Groups
    BY ClusterAssumption DEF AfterGroup, Progress
  <2> QED BY <1>2, <2>1, <2>2, <2>3 DEF Progress
<1>4. Planned'
  BY DEF Planned, Current
<1>5. NoWholesaleLoss' /\ ResultsComplete' /\ CountIsDelivered'
  BY DEF NoWholesaleLoss, ResultsComplete, CountIsDelivered
<1>6. Delivering'
  BY DEF Delivering
<1> QED BY <1>1, <1>3, <1>4, <1>5, <1>6

LEMMA SkipIInv ==
  ASSUME IInv, stage # "fatal", NEW c \in clustersLeft, Skip(c)
  PROVE  IInv'
<1> USE DEF IInv, Skip, planVars
<1>1. Connected'
  BY DEF Connected
<1>2. Targets' = Targets
  BY TargetsStable
<1>3. c \notin Targets
  BY DEF Targets
<1>4. Progress'
  BY <1>2, <1>3 DEF Progress
<1>5. Planned'
  BY DEF Planned, Current
<1>6. NoWholesaleLoss' /\ ResultsComplete' /\ CountIsDelivered'
  BY DEF NoWholesaleLoss, ResultsComplete, CountIsDelivered
<1>7. Delivering'
  BY DEF Delivering
<1> QED BY <1>1, <1>4, <1>5, <1>6, <1>7

\* A cluster is asked only once: its result is new, and merging can't fail.
LEMMA AskIInv ==
  ASSUME IInv, stage # "fatal", NEW c \in clustersLeft, NEW r \in Result, Ask(c, r)
  PROVE  IInv'
<1> USE DEF IInv, Ask, planVars
<1>1. reachable /\ stage # "connect"
  BY DEF Connected
<1>2. c \notin DOMAIN crm
  BY DEF Progress
<1>3. /\ DOMAIN crm' = DOMAIN crm \cup {c}
      /\ err' = FALSE
      /\ clustersLeft' = clustersLeft \ {c}
  BY <1>1, <1>2 DEF Merge
<1>4. Targets' = Targets
  BY TargetsStable
<1>5. c \in Targets
  BY DEF Targets, Progress
<1>6. Connected'
  BY DEF Connected
<1>7. Progress'
  BY <1>3, <1>4, <1>5 DEF Progress
<1>8. Planned'
  BY DEF Planned, Current
<1>9. NoWholesaleLoss' /\ ResultsComplete' /\ CountIsDelivered'
  BY <1>3 DEF NoWholesaleLoss, ResultsComplete, CountIsDelivered
<1>10. Delivering'
  BY <1>3 DEF Delivering
<1> QED BY <1>6, <1>7, <1>8, <1>9, <1>10

\* Nothing is left to visit: what was collected are the targets.
LEMMA CollectedIInv ==
  ASSUME IInv, stage # "fatal", Collected
  PROVE  IInv'
<1> USE DEF IInv, Collected, planVars
<1>1. Targets' = Targets
  BY TargetsStable
<1>2. DOMAIN crm = Targets
  BY DEF Progress
<1>3. Connected'
  BY DEF Connected
<1>4. Progress'
  BY DEF Progress
<1>5. Planned'
  BY DEF Planned, Current
<1>6. NoWholesaleLoss' /\ ResultsComplete'
  BY <1>1, <1>2 DEF NoWholesaleLoss, ResultsComplete
<1>7. CountIsDelivered'
  BY <1>1, <1>2 DEF CountIsDelivered, countData
<1>8. Delivering'
  BY DEF Delivering, ToProcess
<1> QED BY <1>3, <1>4, <1>5, <1>6, <1>7, <1>8

LEMMA ProcessResultIInv ==
  ASSUME IInv, stage # "fatal", NEW c \in unprocessed, ProcessResult(c)
  PROVE  IInv'
<1> USE DEF IInv, ProcessResult, planVars
<1>1. Targets' = Targets
  BY TargetsStable
<1>2. Connected'
  BY DEF Connected
<1>3. Progress'
  BY DEF Progress
<1>4. Planned'
  BY DEF Planned, Current
<1>5. NoWholesaleLoss' /\ ResultsComplete' /\ CountIsDelivered'
  BY <1>1 DEF NoWholesaleLoss, ResultsComplete, CountIsDelivered
<1>6. Delivering'
  BY DEF Delivering
<1> QED BY <1>2, <1>3, <1>4, <1>5, <1>6

LEMMA ReturnIInv ==
  ASSUME IInv, stage # "fatal", Return
  PROVE  IInv'
BY DEF IInv, Return, planVars, Connected, Progress, Delivering, Planned, Current,
   NoWholesaleLoss, ResultsComplete, CountIsDelivered

\* Between calls the collectors only change what is to be asked next.
LEMMA StageIInv ==
  ASSUME IInv, CheckPrometheusUp \/ NextStage
  PROVE  IInv'
<1> USE DEF IInv, callVars
<1>1. phase = "idle" /\ UNCHANGED callVars
  BY DEF CheckPrometheusUp, NextStage, EnterNodeGroups, EnterContainers, EnterResolve,
         EnterEvents, EnterQuotas, Finish, StageOver, Connected
<1>2. Progress' /\ Delivering' /\ NoWholesaleLoss' /\ ResultsComplete' /\ CountIsDelivered'
  BY <1>1 DEF Progress, Delivering, NoWholesaleLoss, ResultsComplete, CountIsDelivered
<1>3. Connected' /\ Planned'
  <2> USE <1>1 DEF Connected, Planned, Current, Untagged
  <2>1. CASE CheckPrometheusUp
    BY <2>1 DEF CheckPrometheusUp, failOnConnectionError, nodeQueries
  <2>2. CASE EnterNodeGroups
    BY <2>2 DEF EnterNodeGroups, StageOver
  <2>3. CASE EnterContainers
    BY <2>3 DEF EnterContainers, StageOver, UnregisterComment
  <2>4. CASE EnterResolve
    BY <2>4 DEF EnterResolve, StageOver
  <2>5. CASE EnterEvents
    BY <2>5 DEF EnterEvents, StageOver, FoundVariants
  <2>6. CASE EnterQuotas
    BY <2>6 DEF EnterQuotas, StageOver
  <2>7. CASE Finish
    BY <2>7 DEF Finish, StageOver
  <2> QED BY <2>1, <2>2, <2>3, <2>4, <2>5, <2>6, <2>7 DEF NextStage
<1> QED BY <1>2, <1>3

LEMMA StepIInv == IInv /\ [Next]_vars => IInv'
<1> SUFFICES ASSUME IInv, [Next]_vars PROVE IInv'
  OBVIOUS
<1>1. CASE CheckPrometheusUp \/ NextStage
  BY <1>1, StageIInv
<1>2. CASE stage # "fatal" /\ CallStep
  BY <1>2, CollectMetricIInv, VisitGroupIInv, SkipIInv, AskIInv, CollectedIInv,
     ProcessResultIInv, ReturnIInv DEF CallStep
<1>3. CASE UNCHANGED vars
  <2> USE <1>3 DEF vars
  <2>1. Targets' = Targets
    BY TargetsStable
  <2> QED BY <2>1 DEF IInv, Connected, Progress, Delivering, Planned, Current, NoWholesaleLoss,
              ResultsComplete, CountIsDelivered
<1> QED BY <1>1, <1>2, <1>3 DEF Next

\* Every reachable state satisfies the inductive invariant.
THEOREM CollectionInvariant == Spec => []IInv
BY InitIInv, StepIInv, PTL DEF Spec

-----------------------------------------------------------------------------
\* CollectMetric never returns the error that makes ProcessResults discard the
\* results of all clusters.
THEOREM NothingDiscarded == Spec => []NoWholesaleLoss
<1>1. IInv => NoWholesaleLoss
  BY DEF IInv
<1> QED BY <1>1, CollectionInvariant, PTL

\* When a call is over there is a result for each cluster the query isn't
\* excluded for, and for no other.
THEOREM Completeness == Spec => []ResultsComplete
<1>1. IInv => ResultsComplete
  BY DEF IInv
<1> QED BY <1>1, CollectionInvariant, PTL

\* The number CollectMetric returns is that of the clusters whose data is
\* handed to the caller.
THEOREM CountCorrect == Spec => []CountIsDelivered
<1>1. IInv => CountIsDelivered
  BY DEF IInv
<1> QED BY <1>1, CollectionInvariant, PTL

\* No stage's exclusions keep an uncommented query of another from a cluster.
THEOREM UntaggedReach == Spec => []UntaggedReachAll
<1>1. IInv => UntaggedReachAll
  <2> SUFFICES ASSUME IInv, phase # "idle", query.comment = None,
                      query.kind \in {"plain", "resolve", "exporters"}
               PROVE  Targets = Cluster
    BY DEF UntaggedReachAll
  <2>1. query \in Current
    BY DEF Current
  <2>2. "excComment" \notin exclusions
    BY <2>1, ClusterAssumption DEF IInv, Planned
  <2>3. ASSUME NEW c \in Cluster PROVE ~excludeQueryForCluster(c, query)
    BY <2>2 DEF excludeQueryForCluster, excludeHiddenOomKills, excludeKsmLastTerminated
  <2> QED BY <2>3 DEF Targets
<1> QED BY <1>1, CollectionInvariant, PTL

\* A query commented for a cluster is put to that cluster alone.
THEOREM TaggedReach == Spec => []TaggedReachOne
<1>1. IInv => TaggedReachOne
  <2> SUFFICES ASSUME IInv, phase # "idle", query.comment # None
               PROVE  Targets = {query.comment}
    BY DEF TaggedReachOne
  <2>1. query \in Current
    BY DEF Current
  <2>2. query.kind = "plain" /\ query.comment \in Cluster /\ "excComment" \in exclusions
    BY <2>1 DEF IInv, Planned
  <2>3. ASSUME NEW c \in Cluster
        PROVE  excludeQueryForCluster(c, query) <=> query.comment # c
    BY <2>2 DEF excludeQueryForCluster, ExcludeQueryByClusterComment,
                excludeHiddenOomKills, excludeKsmLastTerminated
  <2> QED BY <2>2, <2>3 DEF Targets
<1> QED BY <1>1, CollectionInvariant, PTL

-----------------------------------------------------------------------------
(* The calls implement MetricCall *)

LEMMA InitCall == Init => Call!Init
BY DEF Init, Call!Init, CallStatus, CallTargets, CallAnswered, CallPending

\* Between calls only giving up is a step of MetricCall.
LEMMA StageCall ==
  ASSUME IInv, CheckPrometheusUp \/ NextStage
  PROVE  [Call!Next]_(Call!vars)
<1>1. phase = "idle" /\ UNCHANGED callVars /\ stage # "fatal"
  BY DEF IInv, CheckPrometheusUp, NextStage, EnterNodeGroups, EnterContainers, EnterResolve,
         EnterEvents, EnterQuotas, Finish, StageOver, Connected
<1>2. UNCHANGED <<CallTargets, CallAnswered, CallPending>>
  BY <1>1 DEF callVars, CallTargets, CallAnswered, CallPending
<1>3. CallStatus = "idle" /\ CallStatus' \in {"idle", "refused"}
  BY <1>1 DEF callVars, CallStatus
<1> QED BY <1>2, <1>3 DEF Call!Next, Call!Refuse, Call!vars

LEMMA CollectMetricCall ==
  ASSUME IInv, stage # "fatal", NEW q \in todo, CollectMetric(q)
  PROVE  [Call!Next]_(Call!vars)
<1> USE DEF CollectMetric
<1>1. CallStatus = "idle" /\ CallStatus' = "asked"
  BY DEF CallStatus
<1>2. CallTargets' \in SUBSET Cluster
  BY DEF CallTargets, Targets
<1>3. UNCHANGED <<CallAnswered, CallPending>>
  BY DEF CallAnswered, CallPending, NoResults, IInv, Delivering
<1> QED BY <1>1, <1>2, <1>3 DEF Call!Next, Call!Issue

LEMMA VisitCall ==
  ASSUME IInv, stage # "fatal",
         (\E g \in groupsLeft : VisitGroup(g)) \/ (\E c \in clustersLeft : Skip(c))
  PROVE  UNCHANGED Call!vars
<1>1. Targets' = Targets
  BY TargetsStable DEF VisitGroup, Skip, planVars
<1> QED BY <1>1 DEF VisitGroup, Skip, planVars, Call!vars, CallStatus, CallTargets,
                    CallAnswered, CallPending

\* An answer with data is new; any other leaves the answers as they are.
LEMMA AskCall ==
  ASSUME IInv, stage # "fatal", NEW c \in clustersLeft, NEW r \in Result, Ask(c, r)
  PROVE  [Call!Next]_(Call!vars)
<1> USE DEF Ask, planVars
<1>1. reachable /\ c \notin DOMAIN crm /\ c \in Cluster
  BY DEF IInv, Connected, Progress
<1>2. crm' = [d \in DOMAIN crm \cup {c} |-> IF d = c THEN r ELSE crm[d]]
  BY <1>1 DEF Merge
<1>3. CallTargets' = CallTargets /\ c \in CallTargets
  <2>1. Targets' = Targets
    BY TargetsStable
  <2> QED BY <1>1, <2>1 DEF CallTargets, Targets
<1>4. CallStatus = "asked" /\ CallStatus' = "asked"
  BY DEF CallStatus
<1>5. c \notin CallAnswered
  BY <1>1 DEF CallAnswered
<1>6. CallAnswered' = IF r = "data" THEN CallAnswered \cup {c} ELSE CallAnswered
  BY <1>2, <1>1 DEF CallAnswered
<1>7. CallPending' = CallPending
  BY DEF CallPending, IInv, Delivering
<1> QED BY <1>1, <1>3, <1>4, <1>5, <1>6, <1>7 DEF Call!Next, Call!Answer, Call!vars

\* No error is returned: all the data is handed over.
LEMMA CollectedCall ==
  ASSUME IInv, stage # "fatal", Collected
  PROVE  [Call!Next]_(Call!vars)
<1> USE DEF Collected, planVars
<1>1. UNCHANGED CallTargets
  <2>1. Targets' = Targets
    BY TargetsStable
  <2> QED BY <2>1 DEF CallTargets
<1>2. CallStatus = "asked" /\ CallStatus' = "delivering"
  BY DEF CallStatus
<1>3. UNCHANGED CallAnswered
  BY DEF CallAnswered
<1>4. CallPending' = CallAnswered
  BY DEF CallPending, CallAnswered, ToProcess, IInv, NoWholesaleLoss
<1> QED BY <1>1, <1>2, <1>3, <1>4 DEF Call!Next, Call!HandOver

LEMMA ProcessResultCall ==
  ASSUME IInv, stage # "fatal", NEW c \in unprocessed, ProcessResult(c)
  PROVE  [Call!Next]_(Call!vars)
<1> USE DEF ProcessResult, planVars
<1>1. UNCHANGED <<CallTargets, CallAnswered>>
  <2>1. Targets' = Targets
    BY TargetsStable
  <2> QED BY <2>1 DEF CallTargets, CallAnswered
<1>2. CallStatus = "delivering" /\ CallStatus' = "delivering"
  BY DEF CallStatus
<1>3. CASE crm[c] = "data"
  <2>1. c \in CallPending /\ CallPending' = CallPending \ {c}
    BY <1>3 DEF CallPending
  <2>2. c \in Cluster
    <3>1. phase = "processing" /\ unprocessed \subseteq DOMAIN crm
      BY DEF IInv, Delivering
    <3> QED BY <3>1 DEF IInv, ResultsComplete, Targets
  <2> QED BY <1>1, <1>2, <2>1, <2>2 DEF Call!Next, Call!Deliver
<1>4. CASE crm[c] # "data"
  <2>1. CallPending' = CallPending
    BY <1>4 DEF CallPending
  <2> QED BY <1>1, <1>2, <2>1 DEF Call!vars
<1> QED BY <1>3, <1>4

LEMMA ReturnCall ==
  ASSUME IInv, stage # "fatal", Return
  PROVE  [Call!Next]_(Call!vars)
<1> USE DEF Return, planVars
<1>1. CallStatus = "delivering" /\ CallStatus' = "idle"
  BY DEF CallStatus
<1>2. CallPending = {} /\ CallPending' = CallPending
  BY DEF CallPending
<1>3. CallTargets' = {} /\ CallAnswered' = {}
  BY DEF CallTargets, CallAnswered
<1> QED BY <1>1, <1>2, <1>3 DEF Call!Next, Call!Return

\* Whatever the clusters answer, a call is a call of MetricCall: each target's
\* data, and no other, is handed over once before the call returns.
THEOREM CallImplemented == Spec => CallSpec
<1>1. ASSUME IInv, [Next]_vars PROVE [Call!Next]_(Call!vars)
  <2>1. CASE CheckPrometheusUp \/ NextStage
    BY <1>1, <2>1, StageCall
  <2>2. CASE stage # "fatal" /\ CallStep
    BY <1>1, <2>2, CollectMetricCall, VisitCall, AskCall, CollectedCall,
       ProcessResultCall, ReturnCall DEF CallStep
  <2>3. CASE UNCHANGED vars
    <3>1. Targets' = Targets
      BY <2>3, TargetsStable DEF vars
    <3> QED BY <2>3, <3>1 DEF vars, Call!vars, CallStatus, CallTargets, CallAnswered,
                              CallPending
  <2> QED BY <1>1, <2>1, <2>2, <2>3 DEF Next
<1> QED BY <1>1, InitCall, CollectionInvariant, PTL DEF Spec, CallSpec, Call!Spec

-----------------------------------------------------------------------------
(***************************************************************************)
(* What the stages of the program guarantee between them: the types, that  *)
(* the exporters are determined for all clusters before they matter, and   *)
(* that restarts and OOM kills are asked of each cluster by the queries    *)
(* meant for it.                                                           *)
(*                                                                         *)
(* The last two need the whole course of a call: what has been asked for,  *)
(* or is about to be, at each of its steps (Determining, Covering), and    *)
(* they rest on the completeness of calls (CollectionInvariant).           *)
(***************************************************************************)

\* The query for the exporters belongs to the stage of nodes; once it has been
\* issued, all clusters have been asked, or this call is asking them.
Determining ==
  /\ stage \notin {"nodes", "fatal"} => \A q \in Current : q.kind # "exporters"
  /\ phase = "collecting" /\ query.kind = "exporters" => exporters = DOMAIN crm
  /\ \/ stage \in {"connect", "fatal"}
     \/ stage = "nodes" /\ Untagged("exporters") \in todo
     \/ phase = "collecting" /\ query.kind = "exporters"
     \/ exporters = Cluster

EventKind == {"restarts", "restartTimes", "oomKills"}

\* The clusters a kind of event is to be asked of.
WantedFrom(k) ==
  CASE k = "restartTimes" -> presentMetrics
    [] k = "restarts" -> Cluster \ presentMetrics
    [] k = "oomKills" -> Cluster \ modern

\* The kinds of query each stage has.
StageKinds ==
  /\ stage = "events" => \A q \in Current : q.kind \in EventKind
  /\ stage \in {"quotas", "done"} => \A q \in Current : q.kind = "plain"

\* Events are asked only of the clusters they are wanted from, and, if containers
\* are known by their labels, of each of these once it isn't due to be.
Covering ==
  /\ stage \notin {"events", "quotas", "done"} => \A c \in Cluster : asked[c] = {}
  /\ stage \in {"events", "quotas", "done"} /\ "containers" \in include =>
       /\ {"noHiddenOomKills", "noLastTerminated"} \subseteq exclusions
       /\ \A k \in EventKind, c \in Cluster :
            /\ k \in asked[c] => c \in WantedFrom(k)
            /\ detected /\ c \in WantedFrom(k) =>
                 \/ k \in asked[c]
                 \/ \E q \in todo : q.kind = k
                 \/ phase = "collecting" /\ query.kind = k /\ c \notin DOMAIN crm
  /\ stage = "events" /\ "containers" \notin include => Current = {}

SInv ==
  /\ TypeOK
  /\ Determining
  /\ StageKinds
  /\ Covering

-----------------------------------------------------------------------------
LEMMA InitSInv == Init => SInv
<1> SUFFICES ASSUME Init PROVE SInv
  OBVIOUS
<1> USE ClusterAssumption DEF Init, NoResults, Untagged
<1>1. TypeOK
  <2>1. Cardinality(Cluster) \in Nat
    BY FS_CardinalityType
  <2>2. DOMAIN crm = {} /\ crm \in [DOMAIN crm -> Result]
    OBVIOUS
  <2>3. query \in Query /\ asked \in [Cluster -> SUBSET Kind] /\ exporters \in (SUBSET Cluster) \cup {None}
    BY DEF Query, Kind
  <2>4. n \in 0 .. Cardinality(Cluster)
    BY <2>1
  <2>5. DOMAIN crm \subseteq Cluster /\ unprocessed \subseteq DOMAIN crm
    OBVIOUS
  <2>6. /\ todo \subseteq Query /\ exclusions \subseteq Exclusion /\ stage \in Stage
        /\ groupsLeft \subseteq Groups /\ clustersLeft \subseteq Cluster
    BY DEF Stage
  <2> HIDE DEF NoResults, Untagged
  <2> QED BY <2>2, <2>3, <2>4, <2>5, <2>6 DEF TypeOK
<1>2. Determining /\ StageKinds /\ Covering
  BY DEF Determining, StageKinds, Covering, Current
<1> QED BY <1>1, <1>2 DEF SInv

\* A query of the stage of events is put to exactly the clusters it is wanted from.
LEMMA EventTargets ==
  ASSUME IInv, SInv, stage = "events", phase # "idle"
  PROVE  /\ query.kind \in EventKind
         /\ Targets = WantedFrom(query.kind)
<1>1. query \in Current /\ "containers" \in include
  BY DEF SInv, Covering, Current
<1>2. query.kind \in EventKind
  BY <1>1 DEF SInv, StageKinds
<1>3. /\ "excComment" \notin exclusions
      /\ {"noHiddenOomKills", "noLastTerminated"} \subseteq exclusions
  BY <1>1 DEF IInv, Planned, SInv, Covering
<1>4. presentMetrics \subseteq Cluster
  BY DEF SInv, TypeOK
<1>5. ASSUME NEW c \in Cluster
      PROVE  ~excludeQueryForCluster(c, query) <=> c \in WantedFrom(query.kind)
  BY <1>2, <1>3 DEF excludeQueryForCluster, excludeHiddenOomKills,
     excludeKsmLastTerminated, WantedFrom, EventKind
<1>6. WantedFrom(query.kind) \subseteq Cluster
  BY <1>2, <1>4 DEF WantedFrom, EventKind
<1> QED BY <1>2, <1>5, <1>6 DEF Targets

LEMMA CollectMetricSInv ==
  ASSUME IInv, SInv, stage # "fatal", NEW q \in todo, CollectMetric(q)
  PROVE  SInv'
<1> USE DEF CollectMetric, NoResults
<1>1. TypeOK'
  <2>1. Cardinality(Cluster) \in Nat
    BY ClusterAssumption, FS_CardinalityType
  <2>2. DOMAIN crm' = {} /\ crm' \in [DOMAIN crm' -> Result]
    OBVIOUS
  <2>3. todo' \subseteq Query /\ query' \in Query /\ exporters' \in (SUBSET Cluster) \cup {None}
    BY DEF SInv, TypeOK
  <2>4. n' \in 0 .. Cardinality(Cluster)
    BY <2>1
  <2>5. DOMAIN crm' \subseteq Cluster /\ unprocessed' \subseteq DOMAIN crm'
    OBVIOUS
  <2> HIDE DEF NoResults
  <2> QED BY <2>2, <2>3, <2>4, <2>5 DEF SInv, TypeOK
<1>2. Determining'
  BY DEF SInv, Determining, Current, Untagged
<1>3. StageKinds'
  BY DEF SInv, StageKinds, Current
<1>4. Covering'
  BY DEF SInv, Covering, Current, WantedFrom, EventKind
<1> QED BY <1>1, <1>2, <1>3, <1>4 DEF SInv

LEMMA VisitSInv ==
  ASSUME IInv, SInv, stage # "fatal",
         (\E g \in groupsLeft : VisitGroup(g)) \/ (\E c \in clustersLeft : Skip(c))
  PROVE  SInv'
<1> USE DEF VisitGroup, Skip, planVars
<1>1. TypeOK'
  BY ClusterAssumption DEF SInv, TypeOK, AfterGroup
<1>2. Determining' /\ StageKinds' /\ Covering'
  BY DEF SInv, Determining, StageKinds, Covering, Current, WantedFrom, EventKind
<1> QED BY <1>1, <1>2 DEF SInv

\* The cluster asked has one more kind of query, and a result.
LEMMA AskSInv ==
  ASSUME IInv, SInv, stage # "fatal", NEW c \in clustersLeft, NEW r \in Result, Ask(c, r)
  PROVE  SInv'
<1> USE DEF Ask, planVars
<1>1. reachable /\ stage # "connect" /\ c \in Cluster /\ c \notin DOMAIN crm
  BY DEF IInv, Connected, Progress
<1>2. /\ DOMAIN crm' = DOMAIN crm \cup {c}
      /\ crm' = [d \in DOMAIN crm \cup {c} |-> IF d = c THEN r ELSE crm[d]]
      /\ err' = FALSE
      /\ clustersLeft' = clustersLeft \ {c}
  BY <1>1 DEF Merge
<1>3. c \in Targets
  BY <1>1 DEF Targets
<1>4. TypeOK'
  <2>1. query.kind \in Kind
    BY DEF SInv, TypeOK, Query
  <2>2. asked' \in [Cluster -> SUBSET Kind]
    BY <1>1, <2>1 DEF SInv, TypeOK
  <2>3. crm' \in [DOMAIN crm' -> Result] /\ DOMAIN crm' \subseteq Cluster
    BY <1>1, <1>2 DEF SInv, TypeOK
  <2>4. exporters' \in (SUBSET Cluster) \cup {None}
    <3>1. CASE query.kind = "exporters"
      <4>1. exporters = DOMAIN crm
        BY <3>1 DEF SInv, Determining
      <4> QED BY <1>1, <3>1, <4>1 DEF SInv, TypeOK
    <3>2. CASE query.kind # "exporters"
      BY <1>1, <3>2 DEF SInv, TypeOK
    <3> QED BY <3>1, <3>2
  <2> QED BY <1>2, <2>2, <2>3, <2>4 DEF SInv, TypeOK
<1>5. Determining'
  BY <1>1, <1>2 DEF SInv, Determining, Current
<1>6. StageKinds'
  BY DEF SInv, StageKinds, Current
<1>7. Covering'
  <2>1. asked \in [Cluster -> SUBSET Kind] /\ query \in Current
    BY DEF SInv, TypeOK, Current
  <2>2. UNCHANGED <<WantedFrom("restarts"), WantedFrom("restartTimes"), WantedFrom("oomKills")>>
    BY DEF WantedFrom
  <2>3. CASE stage = "events"
    <3>1. query.kind \in EventKind /\ c \in WantedFrom(query.kind)
      BY <1>3, <2>3, EventTargets
    <3>2. asked' = [asked EXCEPT ![c] = @ \cup {query.kind}]
      BY <1>1, <2>3
    <3> QED BY <1>1, <1>2, <2>1, <2>2, <2>3, <3>1, <3>2 DEF SInv, Covering, Current, EventKind
  <2>4. CASE stage = "quotas"
    <3>1. query.kind = "plain"
      BY <2>1, <2>4 DEF SInv, StageKinds
    <3>2. asked' = [asked EXCEPT ![c] = @ \cup {"plain"}]
      BY <1>1, <2>4, <3>1
    <3> QED BY <1>1, <2>1, <2>2, <2>4, <3>1, <3>2 DEF SInv, Covering, EventKind
  <2>5. CASE stage \notin {"events", "quotas"}
    <3>1. asked' = asked
      BY <1>1, <2>5
    <3>2. stage = "done" => query.kind = "plain"
      BY <2>1 DEF SInv, StageKinds
    <3> QED BY <2>2, <2>5, <3>1, <3>2 DEF SInv, Covering, EventKind
  <2> QED BY <2>3, <2>4, <2>5
<1> QED BY <1>4, <1>5, <1>6, <1>7 DEF SInv

\* The call has a result of each of its targets.
LEMMA CollectedSInv ==
  ASSUME IInv, SInv, stage # "fatal", Collected
  PROVE  SInv'
<1> USE DEF Collected, planVars
<1>1. DOMAIN crm = Targets
  BY DEF IInv, Progress
<1>2. TypeOK'
  <2>1. n' \in 0 .. Cardinality(Cluster)
    <3>1. {c \in DOMAIN crm : crm[c] = "data"} \in SUBSET Cluster
      BY DEF SInv, TypeOK
    <3> QED BY <3>1, ClusterAssumption, FS_Subset, FS_CardinalityType DEF countData
  <2> QED BY <2>1 DEF SInv, TypeOK, ToProcess
<1>3. Determining'
  <2>1. CASE query.kind = "exporters"
    <3>1. stage = "nodes" /\ query \in Current
      BY <2>1 DEF SInv, Determining, Current, IInv, Connected
    <3>2. query.comment = None /\ "excComment" \notin exclusions
      BY <3>1 DEF IInv, Planned
    <3>3. Targets = Cluster
      BY <2>1, <3>2 DEF Targets, excludeQueryForCluster, excludeHiddenOomKills,
         excludeKsmLastTerminated
    <3> QED BY <1>1, <2>1, <3>3 DEF SInv, Determining, Current
  <2>2. CASE query.kind # "exporters"
    BY <2>2 DEF SInv, Determining, Current
  <2> QED BY <2>1, <2>2
<1>4. StageKinds'
  BY DEF SInv, StageKinds, Current
<1>5. Covering'
  <2>1. query \in Current /\ UNCHANGED Current
    BY DEF Current
  <2>2. UNCHANGED <<WantedFrom("restarts"), WantedFrom("restartTimes"), WantedFrom("oomKills")>>
    BY DEF WantedFrom
  <2>3. CASE stage = "events"
    BY <1>1, <2>1, <2>2, <2>3, EventTargets DEF SInv, Covering, EventKind
  <2>4. CASE stage # "events"
    BY <2>1, <2>2, <2>4 DEF SInv, Covering, StageKinds, EventKind
  <2> QED BY <2>3, <2>4
<1> QED BY <1>2, <1>3, <1>4, <1>5 DEF SInv

\* Where a metric is present is found out before it decides about anything.
LEMMA ProcessResultSInv ==
  ASSUME IInv, SInv, stage # "fatal", NEW c \in unprocessed, ProcessResult(c)
  PROVE  SInv'
<1> USE DEF ProcessResult, planVars
<1>1. TypeOK'
  BY DEF SInv, TypeOK
<1>2. Determining' /\ StageKinds'
  BY DEF SInv, Determining, StageKinds, Current
<1>3. Covering'
  <2>1. query \in Current /\ UNCHANGED Current
    BY DEF Current
  <2>2. stage \in {"events", "quotas", "done"} => presentMetrics' = presentMetrics
    BY <2>1 DEF SInv, StageKinds, EventKind
  <2> QED BY <2>1, <2>2 DEF SInv, Covering, WantedFrom, EventKind
<1> QED BY <1>1, <1>2, <1>3 DEF SInv

LEMMA ReturnSInv ==
  ASSUME IInv, SInv, stage # "fatal", Return
  PROVE  SInv'
<1> USE DEF Return, planVars
<1>1. TypeOK'
  BY DEF SInv, TypeOK
<1>2. Determining' /\ StageKinds'
  BY DEF SInv, Determining, StageKinds, Current
<1>3. Covering'
  BY DEF SInv, Covering, WantedFrom, EventKind, Current
<1> QED BY <1>1, <1>2, <1>3 DEF SInv

\* The stages follow each other only when all their queries have returned.
LEMMA StageSInv ==
  ASSUME IInv, SInv, CheckPrometheusUp \/ NextStage
  PROVE  SInv'
<1> USE DEF callVars
<1>1. phase = "idle" /\ UNCHANGED callVars
  BY DEF IInv, CheckPrometheusUp, NextStage, EnterNodeGroups, EnterContainers, EnterResolve,
         EnterEvents, EnterQuotas, Finish, StageOver, Connected
<1>2. TypeOK'
  BY <1>1 DEF SInv, TypeOK, CheckPrometheusUp, NextStage, EnterNodeGroups, EnterContainers,
     EnterResolve, EnterEvents, EnterQuotas, Finish, Stage, Exclusion, Query, Kind, Untagged,
     failOnConnectionError, nodeQueries, UnregisterComment, FoundVariants
<1>3. Determining' /\ StageKinds'
  BY <1>1 DEF SInv, Determining, StageKinds, Current, CheckPrometheusUp, NextStage, StageOver,
     EnterNodeGroups, EnterContainers, EnterResolve, EnterEvents, EnterQuotas, Finish, Untagged,
     failOnConnectionError, nodeQueries, FoundVariants, EventKind
<1>4. Covering'
  <2> USE <1>1 DEF SInv, Covering, Current, WantedFrom, EventKind
  <2>1. CASE CheckPrometheusUp
    BY <2>1 DEF CheckPrometheusUp, failOnConnectionError
  <2>2. CASE EnterNodeGroups \/ EnterContainers \/ EnterResolve
    BY <2>2 DEF EnterNodeGroups, EnterContainers, EnterResolve, StageOver
  <2>3. CASE EnterEvents
    <3>1. presentMetrics \subseteq Cluster /\ \A c \in Cluster : asked[c] = {}
      BY <2>3 DEF EnterEvents, StageOver, TypeOK
    <3>2. CASE "containers" \in include
      <4>1. /\ stage' = "events" /\ asked' = asked /\ include' = include
            /\ UNCHANGED <<presentMetrics, modern, detected>>
            /\ {"noHiddenOomKills", "noLastTerminated"} \subseteq exclusions'
            /\ detected => todo' = FoundVariants \cup {Untagged("oomKills")}
        BY <2>3, <3>2 DEF EnterEvents
      <4>2. ASSUME NEW k \in EventKind, NEW c \in WantedFrom(k), c \in Cluster, detected
            PROVE  \E q \in todo' : q.kind = k
        <5>1. Untagged(k) \in todo'
          BY <3>1, <4>1, <4>2 DEF FoundVariants
        <5> QED BY <5>1 DEF Untagged
      <4>3. \A k \in EventKind : WantedFrom(k)' = WantedFrom(k)
        BY <4>1
      <4> HIDE DEF EventKind, WantedFrom, SInv
      <4> QED BY <3>1, <3>2, <4>1, <4>2, <4>3
    <3>3. CASE "containers" \notin include
      BY <2>3, <3>1, <3>3 DEF EnterEvents, StageOver
    <3> QED BY <3>2, <3>3
  <2>4. CASE EnterQuotas \/ Finish
    BY <2>4 DEF EnterQuotas, Finish, StageOver
  <2> QED BY <2>1, <2>2, <2>3, <2>4 DEF NextStage
<1> QED BY <1>2, <1>3, <1>4 DEF SInv

LEMMA StepSInv == IInv /\ SInv /\ [Next]_vars => SInv'
<1> SUFFICES ASSUME IInv, SInv, [Next]_vars PROVE SInv'
  OBVIOUS
<1>1. CASE CheckPrometheusUp \/ NextStage
  BY <1>1, StageSInv
<1>2. CASE stage # "fatal" /\ CallStep
  BY <1>2, CollectMetricSInv, VisitSInv, AskSInv, CollectedSInv, ProcessResultSInv,
     ReturnSInv DEF CallStep
<1>3. CASE UNCHANGED vars
  BY <1>3 DEF vars, SInv, TypeOK, Determining, StageKinds, Covering, Current, WantedFrom,
     EventKind
<1> QED BY <1>1, <1>2, <1>3 DEF Next

\* Every reachable state satisfies the inductive invariant of the stages.
THEOREM StagesInvariant == Spec => []SInv
BY InitSInv, StepSInv, CollectionInvariant, PTL DEF Spec

-----------------------------------------------------------------------------
\* Collection is type-correct, for every finite set of clusters.
THEOREM CollectionTypeCorrect == Spec => []TypeOK
<1>1. SInv => TypeOK
  BY DEF SInv
<1> QED BY <1>1, StagesInvariant, PTL

\* The exporters were determined for all clusters before any stage uses them.
THEOREM ExportersDetermined == Spec => []ExportersOfAll
<1>1. SInv => ExportersOfAll
  BY DEF SInv, Determining, ExportersOfAll, Current
<1> QED BY <1>1, StagesInvariant, PTL

\* Restarts come from each cluster by exactly one of two queries, and OOM kills
\* only from clusters that hide them, in any mixed installation, if containers are
\* known by their labels.
THEOREM RestartsAskedOnce == Spec => []RestartsOnce
<1>1. IInv /\ SInv => RestartsOnce
  <2> SUFFICES ASSUME IInv, SInv, stage \in {"quotas", "done"}, "containers" \in include,
                      detected, NEW c \in Cluster
               PROVE  /\ Cardinality(asked[c] \cap {"restarts", "restartTimes"}) = 1
                      /\ "restartTimes" \in asked[c] <=> c \in presentMetrics
                      /\ "oomKills" \in asked[c] <=> c \notin modern
    BY DEF RestartsOnce
  <2>1. ASSUME NEW k \in EventKind PROVE k \in asked[c] <=> c \in WantedFrom(k)
    BY <2>1 DEF SInv, Covering, StageKinds, Current, EventKind
  <2>2. /\ "restartTimes" \in asked[c] <=> c \in presentMetrics
        /\ "restarts" \in asked[c] <=> c \notin presentMetrics
        /\ "oomKills" \in asked[c] <=> c \notin modern
    BY <2>1 DEF WantedFrom, EventKind
  <2>3. \E k \in EventKind : asked[c] \cap {"restarts", "restartTimes"} = {k}
    <3>1. CASE c \in presentMetrics
      BY <2>2, <3>1 DEF EventKind
    <3>2. CASE c \notin presentMetrics
      BY <2>2, <3>2 DEF EventKind
    <3> QED BY <3>1, <3>2
  <2> QED BY <2>2, <2>3, FS_Singleton
<1> QED BY <1>1, StagesInvariant, CollectionInvariant, PTL
=============================================================================
