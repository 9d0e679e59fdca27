--------------------------- MODULE ContainersProofs ---------------------------
(***************************************************************************)
(* Containers through all stages of their collector, for any clusters and  *)
(* any answers that satisfy the assumptions of the modules: first where    *)
(* they are placed, then what is recorded and written of them.             *)
(***************************************************************************)
EXTENDS ContainerWorkloads, Induction

-----------------------------------------------------------------------------
(***************************************************************************)
(* Who owns a container, for any clusters and any answers in which owners  *)
(* outrank what they own (OwnersOutrank) and have names (OwnersNamed).     *)
(*                                                                         *)
(* The walk to the top-level owner of a container's pod ends: the          *)
(* ownerships on a path rise in rank (Rising), because each ownership      *)
(* names an owner of higher rank or is that of a pod that owns itself      *)
(* (Owned), and because those of the latter kind are not followed.         *)
(*                                                                         *)
(* A container is placed at the end of a walk; later series look it up by  *)
(* what that walk, or another one, has told the ownership of its pod.      *)
(* They find it because all walks from an ownership end at the same owner  *)
(* (TopsAgree), because whatever is relevant has relevant owners           *)
(* (OwnersRelevant), and because nothing that comes later moves it         *)
(* (AtHome).  All of this depends on the order of the stages               *)
(* (StageNumbers).                                                         *)
(***************************************************************************)

\* The answers a stage's handler has yet to see are answers to its query.
Asking ==
  /\ answers \in Answers
  /\ asked => /\ ~Done
              /\ Current.handler \notin {"addWriters", "closeWriters"}
              /\ \A t \in pending : t[1] \in Cluster /\ t[2] \in AnswersTo(t[1], Current.query)

\* An owner outranks what it owns, or a pod owns itself.
Owned(k, o) ==
  /\ o = [direct |-> o.direct, top |-> o.top]
  /\ Rank(o.direct[1]) > Rank(k[1]) \/ (k[1] = "pod" /\ o.direct = Id(k))

AllOwned ==
  /\ ownerships = [c \in Cluster |-> ownerships[c]]
  /\ \A c \in Cluster : \A k \in DOMAIN ownerships[c] :
       /\ k = <<k[1], k[2], k[3]>>
       /\ Owned(k, ownerships[c][k])

\* The keys on the path of a walk rise in rank and are all of one namespace.
Rising ==
  walk # NoWalk =>
    /\ walk = [cluster |-> walk.cluster, series |-> walk.series, path |-> walk.path]
    /\ walk.cluster \in Cluster
    /\ walk.path \in Seq(DOMAIN ownerships[walk.cluster])
    /\ walk.path # <<>>
    /\ \A i \in 1 .. Len(walk.path) : walk.path[i][3] = walk.series.namespace
    /\ \A i, j \in 1 .. Len(walk.path) : i < j => Rank(walk.path[i][1]) < Rank(walk.path[j][1])

IInv ==
  /\ Asking
  /\ AllOwned
  /\ Rising

-----------------------------------------------------------------------------
LEMMA InitIInv == Init => IInv
BY DEF Init, CollectorInit, OwnersInit, IInv, Asking, AllOwned, Rising

\* Only four steps change what is known of owners, or a walk.
LEMMA OtherHandlers ==
  ASSUME NEW c, NEW s, Measure(c, s) \/ Describe(c, s) \/ Scale(c, s)
  PROVE  UNCHANGED <<ownerships, walk>>
<1>1. CASE Measure(c, s)
  BY <1>1 DEF Measure, GetContainerMetric
<1>2. CASE Describe(c, s)
  BY <1>2 DEF Describe, GetObjectLabels, GetObjectMetric, GetOwnedObjectMetric,
     SetObjectMetric, GetNamespaceMetric
<1>3. CASE Scale(c, s)
  BY <1>3 DEF Scale, GetHpa, GetHpaLabels, UnchangedButHpas
<1> QED BY <1>1, <1>2, <1>3

\* What one series of a query of owners does: its owner outranks what it owns.
LEMMA GetOwnerIInv ==
  ASSUME AllOwned, walk = NoWalk, NEW kind, NEW c \in Cluster, NEW s,
         HasLabels(s, {"namespace", "owner_kind", "owner_name"}) =>
           Rank(ToLower(s.owner_kind)) > Rank(kind),
         GetOwner(kind, c, s)
  PROVE  AllOwned' /\ walk' = NoWalk
<1>1. CASE ~HasLabels(s, {"namespace", "owner_kind", "owner_name"})
  BY <1>1 DEF GetOwner, AllOwned, Owned
<1>2. CASE HasLabels(s, {"namespace", "owner_kind", "owner_name"})
  <2> DEFINE new == newOwnership(s.owner_kind, s.owner_name)
             k == Key(<<kind, s[TypeLabelName(kind)]>>, s.namespace)
  <2>1. /\ ownerships' = [ownerships EXCEPT ![c] = Assigned(@, k, new)]
        /\ walk' = NoWalk
    BY <1>2 DEF GetOwner
  <2>2. k = <<k[1], k[2], k[3]>> /\ Owned(k, new)
    BY <1>2 DEF newOwnership, Key, Owned
  <2> HIDE DEF new, k
  <2>3. /\ ownerships'[c] = [x \in {k} \cup DOMAIN ownerships[c] |->
                               IF x = k THEN new ELSE ownerships[c][x]]
        /\ \A d \in Cluster : d # c => ownerships'[d] = ownerships[d]
        /\ ownerships' = [d \in Cluster |-> ownerships'[d]]
    BY <2>1 DEF AllOwned, Assigned
  <2> QED BY <2>1, <2>2, <2>3 DEF AllOwned, Owned
<1> QED BY <1>1, <1>2

\* A pod of no known owner becomes its own, or a walk starts at the pod's key.
LEMMA AddContainerIInv ==
  ASSUME AllOwned, walk = NoWalk, NEW c \in Cluster, NEW s, AddContainer(c, s)
  PROVE  AllOwned' /\ Rising'
<1>1. CASE ~HasLabels(s, {"namespace", "pod", "container"})
  BY <1>1 DEF AddContainer, AllOwned, Owned, Rising
<1>2. CASE HasLabels(s, {"namespace", "pod", "container"}) /\ PodKey(s) \in DOMAIN ownerships[c]
  <2>1. /\ walk' = [cluster |-> c, series |-> s, path |-> <<PodKey(s)>>]
        /\ ownerships' = ownerships
    BY <1>2 DEF AddContainer
  <2>2. PodKey(s)[3] = s.namespace
    BY DEF PodKey, Key
  <2> QED BY <1>2, <2>1, <2>2 DEF AllOwned, Owned, Rising
<1>3. CASE HasLabels(s, {"namespace", "pod", "container"}) /\ PodKey(s) \notin DOMAIN ownerships[c]
  <2> DEFINE new == newOwnership("pod", s.pod)
             k == PodKey(s)
  <2>1. /\ ownerships' = [ownerships EXCEPT ![c] = Assigned(@, k, new)]
        /\ walk' = NoWalk
    BY <1>3 DEF AddContainer
  <2>2. k = <<k[1], k[2], k[3]>> /\ Owned(k, new)
    BY DEF newOwnership, PodKey, Key, Id, Owned, ToLower
  <2> HIDE DEF new, k
  <2>3. /\ ownerships'[c] = [x \in {k} \cup DOMAIN ownerships[c] |->
                               IF x = k THEN new ELSE ownerships[c][x]]
        /\ \A d \in Cluster : d # c => ownerships'[d] = ownerships[d]
        /\ ownerships' = [d \in Cluster |-> ownerships'[d]]
    BY <2>1 DEF AllOwned, Assigned
  <2> QED BY <2>1, <2>2, <2>3 DEF AllOwned, Owned, Rising
<1> QED BY <1>1, <1>2, <1>3

\* A parent outranks the ownership the walk has come to: a pod that owns itself
\* is its own direct owner, and therefore no parent.
LEMMA ParentOutranks ==
  ASSUME AllOwned, Rising, walk # NoWalk, HasParent
  PROVE  LET last == walk.path[Len(walk.path)]
         IN /\ Rank(Above[1]) > Rank(last[1])
            /\ Above[3] = walk.series.namespace
            /\ Above \in DOMAIN ownerships[walk.cluster]
<1> DEFINE last == walk.path[Len(walk.path)]
<1>1. /\ walk.cluster \in Cluster
      /\ last \in DOMAIN ownerships[walk.cluster]
      /\ last[3] = walk.series.namespace
  BY DEF Rising
<1>2. Here = ownerships[walk.cluster][last] /\ Owned(last, Here) /\ last = <<last[1], last[2], last[3]>>
  BY <1>1 DEF Here, AllOwned
<1>3. Above = <<Here.direct[1], Here.direct[2], walk.series.namespace>>
  BY DEF Above, Key
<1>4. last[1] = "pod" /\ Here.direct = Id(last) => FALSE
  <2>1. SUFFICES ASSUME last[1] = "pod", Here.direct = Id(last) PROVE FALSE
    OBVIOUS
  <2>2. Here.direct[1] = last[1] /\ Here.direct[2] = last[2]
    BY ONLY <2>1 DEF Id
  <2> HIDE DEF last
  <2>3. Above = last
    BY ONLY <1>1, <1>2, <1>3, <2>2
  <2>4. ownerships[walk.cluster][Above].direct[1] = "pod"
    BY ONLY <1>2, <2>1, <2>2, <2>3
  <2> QED BY <2>4 DEF HasParent
<1>5. Rank(Above[1]) > Rank(last[1])
  BY <1>2, <1>3, <1>4 DEF Owned
<1> QED BY <1>3, <1>5 DEF HasParent

LEMMA ClimbIInv ==
  ASSUME AllOwned, Rising, Climb
  PROVE  AllOwned' /\ Rising'
<1> DEFINE path == walk.path
           n == Len(path)
<1>1. /\ ownerships' = ownerships
      /\ walk' = [walk EXCEPT !.path = Append(@, Above)]
      /\ walk # NoWalk
  BY DEF Climb
<1>2. /\ Rank(Above[1]) > Rank(path[n][1])
      /\ Above[3] = walk.series.namespace
      /\ Above \in DOMAIN ownerships[walk.cluster]
  BY ParentOutranks DEF Climb
<1>3. /\ path \in Seq(DOMAIN ownerships[walk.cluster])
      /\ path # <<>>
      /\ walk = [cluster |-> walk.cluster, series |-> walk.series, path |-> path]
      /\ walk.cluster \in Cluster
      /\ \A i \in 1 .. n : path[i][3] = walk.series.namespace
      /\ \A i, j \in 1 .. n : i < j => Rank(path[i][1]) < Rank(path[j][1])
  BY <1>1 DEF Rising
<1>4. walk' = [cluster |-> walk.cluster, series |-> walk.series, path |-> Append(path, Above)]
  BY <1>1, <1>3
<1> HIDE DEF path, n
<1> DEFINE longer == Append(path, Above)
<1>5. /\ longer \in Seq(DOMAIN ownerships[walk.cluster]) /\ longer # <<>>
      /\ n \in Nat /\ n >= 1 /\ Len(longer) = n + 1
      /\ \A i \in 1 .. n : longer[i] = path[i]
      /\ longer[n + 1] = Above
  BY <1>2, <1>3 DEF n
<1> HIDE DEF longer
<1>6. \A i \in 1 .. n : Rank(path[i][1]) < Rank(Above[1])
  <2> SUFFICES ASSUME NEW i \in 1 .. n PROVE Rank(path[i][1]) < Rank(Above[1])
    OBVIOUS
  <2>1. \A k : Rank(k) \in Nat
    BY DEF Rank
  <2>2. Rank(path[i][1]) <= Rank(path[n][1])
    <3>1. CASE i = n
      BY <2>1, <3>1
    <3>2. CASE i # n
      <4>1. n \in 1 .. n /\ i < n
        BY <1>5, <3>2
      <4>2. Rank(path[i][1]) < Rank(path[n][1])
        BY <1>3, <4>1
      <4> QED BY <2>1, <4>2
    <3> QED BY <3>1, <3>2
  <2> QED BY <1>2, <2>1, <2>2
<1>7. \A i \in 1 .. (n + 1) : longer[i][3] = walk.series.namespace
  BY <1>2, <1>3, <1>5
<1>8. \A i, j \in 1 .. (n + 1) : i < j => Rank(longer[i][1]) < Rank(longer[j][1])
  BY <1>3, <1>5, <1>6
<1>9. walk' = [cluster |-> walk.cluster, series |-> walk.series, path |-> longer]
  BY <1>4 DEF longer
<1>10. /\ walk'.cluster = walk.cluster /\ walk'.series = walk.series /\ walk'.path = longer
       /\ ownerships'[walk'.cluster] = ownerships[walk.cluster]
       /\ walk' = [cluster |-> walk'.cluster, series |-> walk'.series, path |-> walk'.path]
  <2>1. walk'.cluster = walk.cluster /\ walk'.series = walk.series /\ walk'.path = longer
    BY ONLY <1>9
  <2> QED BY <1>1, <1>9, <2>1
<1>11. Rising'
  BY <1>3, <1>5, <1>7, <1>8, <1>10 DEF Rising
<1> QED BY <1>1, <1>11 DEF AllOwned, Owned

\* What the end of a walk tells the ownerships on its path is not who owns them.
LEMMA ReachTopIInv ==
  ASSUME AllOwned, Rising, ReachTop
  PROVE  AllOwned' /\ walk' = NoWalk
<1>1. /\ ownerships' = [ownerships EXCEPT ![walk.cluster] = Told(@, walk.path, Here.direct)]
      /\ walk' = NoWalk
  BY DEF ReachTop
<1>2. ASSUME NEW co, NEW path, NEW owner, NEW k \in DOMAIN co,
             co[k] = [direct |-> co[k].direct, top |-> co[k].top]
      PROVE  /\ DOMAIN Told(co, path, owner) = DOMAIN co
             /\ Told(co, path, owner)[k] =
                  [direct |-> co[k].direct, top |-> Told(co, path, owner)[k].top]
  BY <1>2 DEF Told
<1>3. \A c \in Cluster :
        /\ DOMAIN ownerships'[c] = DOMAIN ownerships[c]
        /\ \A k \in DOMAIN ownerships[c] :
             ownerships'[c][k] = [direct |-> ownerships[c][k].direct, top |-> ownerships'[c][k].top]
  <2> SUFFICES ASSUME NEW c \in Cluster
               PROVE  /\ DOMAIN ownerships'[c] = DOMAIN ownerships[c]
                      /\ \A k \in DOMAIN ownerships[c] :
                           ownerships'[c][k] = [direct |-> ownerships[c][k].direct,
                                                top |-> ownerships'[c][k].top]
    OBVIOUS
  <2>1. CASE c = walk.cluster
    <3>1. ownerships'[c] = Told(ownerships[c], walk.path, Here.direct)
      BY <1>1, <2>1 DEF AllOwned
    <3>2. DOMAIN ownerships'[c] = DOMAIN ownerships[c]
      BY <3>1 DEF Told
    <3>3. ASSUME NEW k \in DOMAIN ownerships[c]
          PROVE  ownerships'[c][k] = [direct |-> ownerships[c][k].direct,
                                      top |-> ownerships'[c][k].top]
      <4>1. ownerships[c][k] = [direct |-> ownerships[c][k].direct, top |-> ownerships[c][k].top]
        BY DEF AllOwned, Owned
      <4> QED BY <1>2, <3>1, <4>1
    <3> QED BY <3>2, <3>3
  <2>2. CASE c # walk.cluster
    <3>1. ownerships'[c] = ownerships[c]
      BY <1>1, <2>2 DEF AllOwned
    <3> QED BY <3>1 DEF AllOwned, Owned
  <2> QED BY <2>1, <2>2
<1>4. ownerships' = [c \in Cluster |-> ownerships'[c]]
  BY <1>1 DEF AllOwned
<1>5. ASSUME NEW c \in Cluster, NEW k \in DOMAIN ownerships[c]
      PROVE  Owned(k, ownerships'[c][k])
  <2> DEFINE new == ownerships'[c][k]
             old == ownerships[c][k]
  <2>1. new.direct = old.direct
    <3>1. new = [direct |-> old.direct, top |-> new.top]
      BY <1>3
    <3> HIDE DEF new, old
    <3> QED BY <3>1
  <2>2. ownerships'[c][k] = [direct |-> ownerships'[c][k].direct, top |-> ownerships'[c][k].top]
    BY <1>3, <2>1
  <2> QED BY <2>1, <2>2 DEF AllOwned, Owned
<1>6. ASSUME NEW c \in Cluster, NEW k \in DOMAIN ownerships'[c]
      PROVE  k = <<k[1], k[2], k[3]>> /\ Owned(k, ownerships'[c][k])
  BY <1>3, <1>5 DEF AllOwned
<1> QED BY <1>1, <1>4, <1>6 DEF AllOwned, Owned

-----------------------------------------------------------------------------
\* A handler sees one series of a cluster's answer to the query of its stage.
LEMMA SeriesIInv ==
  ASSUME IInv, Series
  PROVE  IInv'
<1>1. PICK t \in pending :
        /\ TakeSeries(t[1], t[2])
        /\ \/ Own(t[1], t[2])
           \/ Contain(t[1], t[2])
           \/ Measure(t[1], t[2])
           \/ Describe(t[1], t[2])
           \/ Scale(t[1], t[2])
  BY DEF Series
<1>2. /\ asked /\ walk = NoWalk /\ pending' \subseteq pending
      /\ UNCHANGED <<answers, position, asked>>
  BY <1>1 DEF TakeSeries
<1>3. Asking'
  BY <1>2 DEF IInv, Asking, Done, Current, AnswersTo
<1>4. t[1] \in Cluster /\ t[2] \in AnswersTo(t[1], Current.query)
  BY <1>2 DEF IInv, Asking
<1>5. CASE Own(t[1], t[2])
  <2>1. HasLabels(t[2], {"namespace", "owner_kind", "owner_name"}) =>
          Rank(ToLower(t[2].owner_kind)) > Rank(Current.kind)
    <3> DEFINE a == answers
               i == position
    <3>1. a \in Answers /\ i \in DOMAIN Stages /\ Stages[i].handler = "owner"
      BY <1>2, <1>5 DEF Own, IInv, Asking, Done, Current
    <3>2. Stages[i].query \in DOMAIN a[t[1]] /\ t[2] \in a[t[1]][Stages[i].query]
      BY <1>4 DEF AnswersTo, Current
    <3> QED BY <1>4, <3>1, <3>2, OwnersOutrank DEF Current
  <2>2. GetOwner(Current.kind, t[1], t[2])
    BY <1>5 DEF Own
  <2> QED BY <1>2, <1>3, <1>4, <2>1, <2>2, GetOwnerIInv DEF IInv, Rising
<1>6. CASE Contain(t[1], t[2])
  <2>1. AddContainer(t[1], t[2]) \/ UNCHANGED <<ownerships, walk>>
    BY <1>6 DEF Contain, ownerVars
  <2>2. CASE UNCHANGED <<ownerships, walk>>
    BY <1>2, <1>3, <2>2 DEF IInv, AllOwned, Owned, Rising
  <2> QED BY <1>2, <1>3, <1>4, <2>1, <2>2, AddContainerIInv DEF IInv
<1>7. CASE Measure(t[1], t[2]) \/ Describe(t[1], t[2]) \/ Scale(t[1], t[2])
  <2>1. UNCHANGED <<ownerships, walk>>
    BY <1>7, OtherHandlers
  <2> QED BY <1>3, <2>1 DEF IInv, AllOwned, Owned, Rising
<1> QED BY <1>1, <1>5, <1>6, <1>7

LEMMA WalkingIInv ==
  ASSUME IInv, Walking
  PROVE  IInv'
<1>1. Asking'
  BY DEF Walking, stageVars, IInv, Asking, Done, Current, AnswersTo
<1>2. CASE Climb
  BY <1>1, <1>2, ClimbIInv DEF IInv
<1>3. CASE ReachTop
  BY <1>1, <1>3, ReachTopIInv DEF IInv, Rising
<1> QED BY <1>2, <1>3 DEF Walking

\* The other steps of collecting and those of writing know no owners.
LEMMA OtherStepsIInv ==
  ASSUME IInv, Ask \/ EndStage \/ SetUpWriters \/ UNCHANGED collectorVars
  PROVE  IInv'
<1>1. UNCHANGED <<ownerships, walk>>
  BY DEF Ask, EndStage, SetUpWriters, collectorVars, dataVars, ownerVars
<1>2. Asking'
  <2>1. CASE Ask
    BY <2>1 DEF Ask, IInv, Asking, Done, Current, AnswersTo
  <2>2. CASE EndStage
    BY <2>2 DEF EndStage, IInv, Asking
  <2>3. CASE SetUpWriters
    BY <2>3 DEF SetUpWriters, IInv, Asking
  <2>4. CASE UNCHANGED collectorVars
    BY <2>4 DEF collectorVars, stageVars, IInv, Asking, Done, Current, AnswersTo
  <2> QED BY <2>1, <2>2, <2>3, <2>4
<1> QED BY <1>1, <1>2 DEF IInv, AllOwned, Owned, Rising

LEMMA StepIInv == IInv /\ [Next]_vars => IInv'
<1> SUFFICES ASSUME IInv, [Next]_vars PROVE IInv'
  OBVIOUS
<1>1. CASE Collecting
  BY <1>1, SeriesIInv, WalkingIInv, OtherStepsIInv DEF Collecting
<1>2. CASE WriteFiles \/ Separate \/ NextPhase \/ SingleQuery \/ UNCHANGED vars
  <2>1. UNCHANGED collectorVars
    BY <1>2 DEF WriteFiles, Separate, NextPhase, SingleQuery, vars
  <2> QED BY <2>1, OtherStepsIInv
<1> QED BY <1>1, <1>2 DEF Next

\* Every reachable state satisfies the inductive invariant.
THEOREM OwnershipInvariant == Spec => []IInv
BY InitIInv, StepIInv, PTL DEF Spec

-----------------------------------------------------------------------------
\* No walk comes back to an ownership it has passed, also where pods own
\* themselves, in any cluster whose owners outrank what they own.
THEOREM WalksEnd == Spec => []WalkNeverRevisits
<1>1. IInv => WalkNeverRevisits
  <2> SUFFICES ASSUME IInv, walk # NoWalk, NEW i \in DOMAIN walk.path, NEW j \in DOMAIN walk.path,
                      i # j
               PROVE  walk.path[i] # walk.path[j]
    BY DEF WalkNeverRevisits
  <2>1. walk.path \in Seq(DOMAIN ownerships[walk.cluster])
    BY DEF IInv, Rising
  <2>2. i \in 1 .. Len(walk.path) /\ j \in 1 .. Len(walk.path)
    BY <2>1
  <2>3. Rank(walk.path[i][1]) < Rank(walk.path[j][1]) \/ Rank(walk.path[j][1]) < Rank(walk.path[i][1])
    BY <2>2 DEF IInv, Rising
  <2>4. Rank(walk.path[i][1]) \in Nat /\ Rank(walk.path[j][1]) \in Nat
    BY DEF Rank
  <2> QED BY <2>3, <2>4
<1> QED BY <1>1, OwnershipInvariant, PTL

-----------------------------------------------------------------------------
(* Where containers are placed and found *)

\* The key of the direct owner of an ownership, and whether it has one to go on to.
ParentOf(c, k) == Key(ownerships[c][k].direct, k[3])
Leads(c, k) ==
  /\ ParentOf(c, k) \in DOMAIN ownerships[c]
  /\ ownerships[c][ParentOf(c, k)].direct[1] # "pod"

\* What the ownerships below this one are told, if anything.
Final(c, k) == IF Leads(c, k) THEN ownerships[c][k].top ELSE ownerships[c][k].direct

RelevantKey(c, k) == k[1] = "pod" \/ k \in detectedOwners[c]

\* Only pods and what may own pods have owners; those of a relevant object are
\* relevant, as pods' owners come before the owners of those.
OwnersRelevant ==
  /\ detectedOwners = [c \in Cluster |-> detectedOwners[c]]
  /\ \A c \in Cluster : \A k \in DOMAIN ownerships[c] :
       /\ k[1] = "pod" \/ (position # 1 /\ Rank(k[1]) = 1)
       /\ RelevantKey(c, k) => RelevantKey(c, ParentOf(c, k))

\* Where a path ends is told only to what leads on, and the same all along.
TopsAgree ==
  \A c \in Cluster : \A k \in DOMAIN ownerships[c] :
    /\ k[1] # "pod" => ownerships[c][k].direct # None
    /\ ownerships[c][k].top # None =>
         /\ position \notin 1 .. 3
         /\ Leads(c, k)
         /\ ownerships[c][k].top = Final(c, ParentOf(c, k))

\* The path of a walk goes from the pod's ownership to those of its owners.
PathLeads ==
  walk # NoWalk =>
    /\ position = 4
    /\ walk.path[1] = PodKey(walk.series)
    /\ \A i \in 1 .. Len(walk.path) : RelevantKey(walk.cluster, walk.path[i])
    /\ \A i \in 1 .. Len(walk.path) - 1 :
         /\ Leads(walk.cluster, walk.path[i])
         /\ walk.path[i + 1] = ParentOf(walk.cluster, walk.path[i])

Placeable(c, s) == HasOwnerships(c) /\ HasLabels(s, {"namespace", "pod", "container"})

\* The container of this series is where its pod's ownership says.
AtHome(c, s) ==
  /\ PodKey(s) \in DOMAIN ownerships[c]
  /\ Leads(c, PodKey(s)) => ownerships[c][PodKey(s)].top # None
  /\ LET home == Key(TopLevelOwner(ownerships[c][PodKey(s)]), s.namespace)
     IN /\ home \in DOMAIN objects[c]
        /\ <<home, s.container>> \in DOMAIN containers[c]
        /\ RelevantKey(c, home)

Placed(c, s) ==
  \/ position > 4
  \/ /\ position = 4 /\ asked /\ <<c, s>> \notin pending
     /\ walk # NoWalk => walk.cluster # c \/ walk.series # s

AllAtHome ==
  /\ objects = [c \in Cluster |-> objects[c]]
  /\ containers = [c \in Cluster |-> containers[c]]
  /\ \A c \in Cluster : \A s \in AnswersTo(c, "containerInfo") :
       Placeable(c, s) /\ Placed(c, s) => AtHome(c, s)

PlacesInv ==
  /\ position \in Nat
  /\ OwnersRelevant
  /\ TopsAgree
  /\ PathLeads
  /\ AllAtHome

-----------------------------------------------------------------------------
\* Stages that neither change who owns what, nor place containers, nor close files.
Later(stage) ==
  /\ stage.handler \notin {"owner", "container", "closeWriters"}
  /\ stage.query # "containerInfo"

AllLater(s) ==
  /\ IsSequence(s)
  /\ \A i \in 1 .. Len(s) : Later(s[i])

\* The first stages, with later ones after them.
Beginning(s) ==
  /\ IsSequence(s)
  /\ Len(s) >= 5
  /\ \A i \in 1 .. 5 : s[i] = OwnerStages[i]
  /\ \A i \in 6 .. Len(s) : Later(s[i])

\* Each group of stages after the first.
LEMMA ContainerStagesLater == AllLater(ContainerStages)
<1>1. Len(ContainerStages) = 14 /\ ContainerStages = [i \in 1 .. 14 |-> ContainerStages[i]]
  BY DEF ContainerStages
<1>2. /\ Later(ContainerStages[1]) /\ Later(ContainerStages[2]) /\ Later(ContainerStages[3])
      /\ Later(ContainerStages[4]) /\ Later(ContainerStages[5]) /\ Later(ContainerStages[6])
      /\ Later(ContainerStages[7]) /\ Later(ContainerStages[8]) /\ Later(ContainerStages[9])
      /\ Later(ContainerStages[10]) /\ Later(ContainerStages[11]) /\ Later(ContainerStages[12])
      /\ Later(ContainerStages[13]) /\ Later(ContainerStages[14])
  BY DEF ContainerStages, Stage, Later
<1> QED BY <1>1, <1>2 DEF AllLater, IsSequence

LEMMA PodStagesLater == AllLater(PodStages)
<1>1. Len(PodStages) = 8 /\ PodStages = [i \in 1 .. 8 |-> PodStages[i]]
  BY DEF PodStages
<1>2. /\ Later(PodStages[1]) /\ Later(PodStages[2]) /\ Later(PodStages[3])
      /\ Later(PodStages[4]) /\ Later(PodStages[5]) /\ Later(PodStages[6])
      /\ Later(PodStages[7]) /\ Later(PodStages[8])
  BY DEF PodStages, Stage, Later
<1> QED BY <1>1, <1>2 DEF AllLater, IsSequence

LEMMA ObjectStagesLater == AllLater(ObjectStages)
<1>1. Len(ObjectStages) = 12 /\ ObjectStages = [i \in 1 .. 12 |-> ObjectStages[i]]
  BY DEF ObjectStages
<1>2. /\ Later(ObjectStages[1]) /\ Later(ObjectStages[2]) /\ Later(ObjectStages[3])
      /\ Later(ObjectStages[4]) /\ Later(ObjectStages[5]) /\ Later(ObjectStages[6])
      /\ Later(ObjectStages[7]) /\ Later(ObjectStages[8]) /\ Later(ObjectStages[9])
      /\ Later(ObjectStages[10]) /\ Later(ObjectStages[11]) /\ Later(ObjectStages[12])
  BY DEF ObjectStages, Stage, Later
<1> QED BY <1>1, <1>2 DEF AllLater, IsSequence

LEMMA JobStagesLater == AllLater(JobStages)
<1>1. Len(JobStages) = 13 /\ JobStages = [i \in 1 .. 13 |-> JobStages[i]]
  BY DEF JobStages
<1>2. /\ Later(JobStages[1]) /\ Later(JobStages[2]) /\ Later(JobStages[3])
      /\ Later(JobStages[4]) /\ Later(JobStages[5]) /\ Later(JobStages[6])
      /\ Later(JobStages[7]) /\ Later(JobStages[8]) /\ Later(JobStages[9])
      /\ Later(JobStages[10]) /\ Later(JobStages[11]) /\ Later(JobStages[12])
      /\ Later(JobStages[13])
  BY DEF JobStages, Stage, Later
<1> QED BY <1>1, <1>2 DEF AllLater, IsSequence

LEMMA HpaStagesLater == AllLater(HpaStages)
<1>1. Len(HpaStages) = 4 /\ HpaStages = [i \in 1 .. 4 |-> HpaStages[i]]
  BY DEF HpaStages
<1>2. /\ Later(HpaStages[1]) /\ Later(HpaStages[2]) /\ Later(HpaStages[3])
      /\ Later(HpaStages[4])
  BY DEF HpaStages, Stage, Later
<1> QED BY <1>1, <1>2 DEF AllLater, IsSequence

\* The first group of stages.
LEMMA OwnerStagesBegin == Beginning(OwnerStages)
<1>1. Len(OwnerStages) = 5 /\ OwnerStages = [i \in 1 .. 5 |-> OwnerStages[i]]
  BY DEF OwnerStages
<1> QED BY <1>1 DEF Beginning, IsSequence

\* Later stages can be added to the list.
LEMMA BeginningExtended ==
  ASSUME NEW s, NEW t, Beginning(s), AllLater(t)
  PROVE  Beginning(s \o t)
<1>1. /\ IsSequence(s \o t)
      /\ Len(s \o t) = Len(s) + Len(t) /\ Len(s) \in Nat /\ Len(t) \in Nat /\ Len(s) >= 5
      /\ \A i \in 1 .. Len(s) : (s \o t)[i] = s[i]
      /\ \A i \in (Len(s) + 1) .. Len(s \o t) :
           (s \o t)[i] = t[i - Len(s)] /\ i - Len(s) \in 1 .. Len(t)
  <2>1. IsSequence(s) /\ IsSequence(t) /\ Len(s) >= 5
    BY DEF Beginning, AllLater
  <2>2. Len(s) \in Nat /\ Len(t) \in Nat
    BY <2>1 DEF IsSequence
  <2> QED BY <2>1, <2>2, Joined
<1>2. ASSUME NEW i \in 6 .. Len(s \o t) PROVE Later((s \o t)[i])
  BY <1>1 DEF Beginning, AllLater
<1> QED BY <1>1, <1>2 DEF Beginning

\* The list of all stages.
LEMMA StagesKnown ==
  /\ DOMAIN Stages = 1 .. Len(Stages) /\ Len(Stages) \in Nat /\ Len(Stages) > 5
  /\ \A i \in 1 .. 5 : Stages[i] = OwnerStages[i]
  /\ \A i \in 6 .. (Len(Stages) - 1) : Later(Stages[i])
  /\ Stages[Len(Stages)].handler = "closeWriters"
  /\ Stages[Len(Stages)].query = ""
<1> DEFINE early == OwnerStages \o ContainerStages \o PodStages \o ObjectStages \o JobStages \o HpaStages
<1>1. Beginning(early)
  BY OwnerStagesBegin, BeginningExtended, ContainerStagesLater, PodStagesLater,
     ObjectStagesLater, JobStagesLater, HpaStagesLater
<1>2. Stages = early \o SizeStages
  BY DEF Stages, early
<1>3. Len(SizeStages) = 8 /\ SizeStages = [i \in 1 .. 8 |-> SizeStages[i]]
  BY DEF SizeStages
<1>4. \A i \in 1 .. 7 : Later(SizeStages[i])
  <2>1. /\ Later(SizeStages[1]) /\ Later(SizeStages[2]) /\ Later(SizeStages[3])
        /\ Later(SizeStages[4]) /\ Later(SizeStages[5]) /\ Later(SizeStages[6])
        /\ Later(SizeStages[7])
    BY DEF SizeStages, Stage, Later
  <2>2. \A i \in 1 .. 7 : i = 1 \/ i = 2 \/ i = 3 \/ i = 4 \/ i = 5 \/ i = 6 \/ i = 7
    OBVIOUS
  <2> QED BY <2>1, <2>2
<1>5. SizeStages[8].handler = "closeWriters" /\ SizeStages[8].query = ""
  BY DEF SizeStages, Stage
<1>6. IsSequence(SizeStages)
  BY <1>3 DEF IsSequence
<1> HIDE DEF early
<1> DEFINE n == Len(early)
<1>7. /\ n \in Nat /\ n >= 5
      /\ IsSequence(Stages) /\ Len(Stages) = n + 8
      /\ \A i \in 1 .. n : Stages[i] = early[i]
      /\ \A i \in (n + 1) .. (n + 8) : Stages[i] = SizeStages[i - n]
  <2>1. IsSequence(early) /\ n \in Nat /\ n >= 5
    BY <1>1 DEF Beginning, IsSequence
  <2> HIDE DEF n
  <2>2. /\ IsSequence(early \o SizeStages)
        /\ Len(early \o SizeStages) = Len(early) + Len(SizeStages)
        /\ \A i \in 1 .. Len(early) : (early \o SizeStages)[i] = early[i]
        /\ \A i \in (Len(early) + 1) .. Len(early \o SizeStages) :
             /\ (early \o SizeStages)[i] = SizeStages[i - Len(early)]
             /\ i - Len(early) \in 1 .. Len(SizeStages)
    BY <1>6, <2>1, Joined
  <2>3. n = Len(early)
    BY DEF n
  <2> QED BY ONLY <1>2, <1>3, <2>1, <2>2, <2>3
<1> HIDE DEF n
<1>8. ASSUME NEW i \in 6 .. (n + 7) PROVE Later(Stages[i])
  <2>1. CASE i \in 1 .. n
    BY <1>1, <1>7, <2>1 DEF Beginning, n
  <2>2. CASE i \notin 1 .. n
    <3>1. i - n \in 1 .. 7 /\ i \in (n + 1) .. (n + 8)
      BY <1>7, <2>2
    <3> QED BY <1>4, <1>7, <3>1
  <2> QED BY <2>1, <2>2
<1>9. \A i \in 1 .. 5 : Stages[i] = OwnerStages[i]
  BY <1>1, <1>7 DEF Beginning
<1>10. Stages[n + 8] = SizeStages[8]
  BY <1>7
<1>11. DOMAIN Stages = 1 .. Len(Stages)
  BY <1>7 DEF IsSequence
<1>12. Len(Stages) \in Nat /\ Len(Stages) > 5 /\ Len(Stages) - 1 = n + 7 /\ Len(Stages) = n + 8
  BY <1>7
<1>13. \A i \in 6 .. (n + 7) : Later(Stages[i])
  BY <1>8
<1>14. \A i \in 6 .. (Len(Stages) - 1) : Later(Stages[i])
  BY ONLY <1>12, <1>13
<1>15. Stages[Len(Stages)].handler = "closeWriters" /\ Stages[Len(Stages)].query = ""
  BY ONLY <1>10, <1>5, <1>12
<1> QED BY ONLY <1>9, <1>11, <1>12, <1>14, <1>15

LEMMA StagesLength == DOMAIN Stages = 1 .. Len(Stages) /\ Len(Stages) \in Nat /\ Len(Stages) > 5
BY StagesKnown

\* Where in the list the stages are that the proofs below are about.
LEMMA StageNumbers ==
  ASSUME NEW i \in DOMAIN Stages
  PROVE  /\ Stages[i].handler = "owner" =>
              i \in 1 .. 3 /\ (IF i = 1 THEN Stages[i].kind = "pod" ELSE Rank(Stages[i].kind) = 1)
         /\ i = 4 <=> Stages[i].handler = "container"
         /\ i = 4 <=> Stages[i].query = "containerInfo"
         /\ i = 4 => Stages[i].given = "needed"
         /\ Stages[i].handler \in {"addWriters", "closeWriters"} => i > 4
         /\ Stages[i].handler = "closeWriters" => i = Len(Stages)
<1>1. i \in 1 .. 5 \/ i \in 6 .. Len(Stages) - 1 \/ i = Len(Stages)
  <2> DEFINE n == Len(Stages)
  <2>1. i \in 1 .. n /\ n \in Nat /\ n > 5
    BY StagesLength
  <2> HIDE DEF n
  <2>2. i \in 1 .. 5 \/ i \in 6 .. n - 1 \/ i = n
    BY <2>1
  <2> QED BY <2>2 DEF n
<1>2. CASE i \in 1 .. 5
  <2>1. i = 1 \/ i = 2 \/ i = 3 \/ i = 4 \/ i = 5
    BY <1>2
  <2>2. Stages[i] = OwnerStages[i]
    BY <1>2, StagesKnown
  <2>3. /\ OwnerStages[1].handler = "owner" /\ OwnerStages[1].kind = "pod"
        /\ OwnerStages[2].handler = "owner" /\ OwnerStages[2].kind = "replicaset"
        /\ OwnerStages[3].handler = "owner" /\ OwnerStages[3].kind = "job"
        /\ OwnerStages[4].handler = "container" /\ OwnerStages[5].handler = "addWriters"
        /\ OwnerStages[1].query # "containerInfo" /\ OwnerStages[2].query # "containerInfo"
        /\ OwnerStages[3].query # "containerInfo" /\ OwnerStages[4].query = "containerInfo"
        /\ OwnerStages[5].query # "containerInfo" /\ OwnerStages[4].given = "needed"
    BY DEF OwnerStages, Stage
  <2>4. Rank("replicaset") = 1 /\ Rank("job") = 1
    BY DEF Rank
  <2> QED BY <2>1, <2>2, <2>3, <2>4
<1>3. CASE i \in 6 .. Len(Stages) - 1
  <2>1. Later(Stages[i])
    BY <1>3, StagesKnown
  <2>2. i \in Nat /\ i > 5
    BY <1>3, StagesLength
  <2>3. i # 4 /\ i > 4
    BY ONLY <2>2
  <2> QED BY <2>1, <2>3 DEF Later
<1>4. CASE i = Len(Stages)
  <2>1. Stages[i].handler = "closeWriters" /\ Stages[i].query = ""
    BY <1>4, StagesKnown
  <2>2. i # 4 /\ i > 4
    BY ONLY <1>4, StagesLength
  <2> QED BY <1>4, <2>1, <2>2
<1> QED BY <1>1, <1>2, <1>3, <1>4

-----------------------------------------------------------------------------
\* Where the ownerships keep their direct owners, and only pods that own themselves
\* are added, what leads on stays what does.
LEMMA LeadsKept ==
  ASSUME NEW c,
         \A k \in DOMAIN ownerships[c] :
           k \in DOMAIN ownerships'[c] /\ ownerships'[c][k].direct = ownerships[c][k].direct,
         \A k \in DOMAIN ownerships'[c] \ DOMAIN ownerships[c] : ownerships'[c][k].direct[1] = "pod",
         NEW k \in DOMAIN ownerships[c]
  PROVE  /\ ParentOf(c, k)' = ParentOf(c, k)
         /\ Leads(c, k)' = Leads(c, k)
<1>1. ParentOf(c, k)' = ParentOf(c, k)
  BY DEF ParentOf
<1>2. Leads(c, k)' <=> Leads(c, k)
  <2> DEFINE p == ParentOf(c, k)
  <2>1. p' = p
    BY <1>1
  <2>2. Leads(c, k)' <=> p \in DOMAIN ownerships'[c] /\ ownerships'[c][p].direct[1] # "pod"
    BY <2>1 DEF Leads
  <2>3. Leads(c, k) <=> p \in DOMAIN ownerships[c] /\ ownerships[c][p].direct[1] # "pod"
    BY DEF Leads
  <2> HIDE DEF p
  <2> QED BY <2>2, <2>3
<1>3. Leads(c, k)' \in BOOLEAN /\ Leads(c, k) \in BOOLEAN
  BY DEF Leads
<1> QED BY <1>1, <1>2, <1>3

\* Ranks rise along a path, so it has at most three ownerships, and above the first
\* no pod's.
LEMMA PathShort ==
  ASSUME Rising, walk # NoWalk
  PROVE  /\ Len(walk.path) \in 1 .. 3
         /\ \A i \in 1 .. Len(walk.path) : walk.path[i] \in DOMAIN ownerships[walk.cluster]
         /\ \A i \in 2 .. Len(walk.path) : walk.path[i][1] # "pod"
         /\ walk.cluster \in Cluster
<1> DEFINE path == walk.path
           n == Len(path)
<1>1. /\ n \in Nat /\ n >= 1
      /\ \A i \in 1 .. n : path[i] \in DOMAIN ownerships[walk.cluster]
      /\ \A i, j \in 1 .. n : i < j => Rank(path[i][1]) < Rank(path[j][1])
      /\ walk.cluster \in Cluster
  BY DEF Rising
<1> HIDE DEF path, n
<1>2. \A k : Rank(k) \in 0 .. 2
  BY DEF Rank
<1>3. n <= 3
  <2>1. SUFFICES ASSUME n >= 4 PROVE FALSE
    BY <1>1
  <2>2. /\ Rank(path[1][1]) < Rank(path[2][1]) /\ Rank(path[2][1]) < Rank(path[3][1])
        /\ Rank(path[3][1]) < Rank(path[4][1])
    BY <1>1, <2>1
  <2>3. Rank(path[1][1]) \in 0 .. 2 /\ Rank(path[2][1]) \in 0 .. 2
        /\ Rank(path[3][1]) \in 0 .. 2 /\ Rank(path[4][1]) \in 0 .. 2
    BY <1>2
  <2> QED BY <2>2, <2>3
<1>4. ASSUME NEW i \in 2 .. n PROVE path[i][1] # "pod"
  <2>1. Rank(path[1][1]) < Rank(path[i][1]) /\ Rank(path[1][1]) \in 0 .. 2
    BY <1>1, <1>2
  <2>2. Rank("pod") = 0
    BY DEF Rank
  <2>3. SUFFICES ASSUME path[i][1] = "pod" PROVE FALSE
    OBVIOUS
  <2>4. Rank(path[i][1]) = 0
    BY ONLY <2>2, <2>3
  <2> QED BY ONLY <2>1, <2>4
<1>5. n \in 1 .. 3
  BY <1>1, <1>3
<1>6. \A i \in 2 .. n : path[i][1] # "pod"
  BY <1>4
<1> QED BY <1>1, <1>5, <1>6 DEF path, n

\* The walk has a parent to go on to if its last ownership leads on.
LEMMA HasParentLeads ==
  ASSUME Rising, walk # NoWalk
  PROVE  LET last == walk.path[Len(walk.path)]
         IN /\ Above = ParentOf(walk.cluster, last)
            /\ Here.direct = ownerships[walk.cluster][last].direct
            /\ HasParent <=> Leads(walk.cluster, last)
<1>1. walk.path[Len(walk.path)][3] = walk.series.namespace
  BY PathShort DEF Rising
<1>2. /\ Above = ParentOf(walk.cluster, walk.path[Len(walk.path)])
      /\ Here.direct = ownerships[walk.cluster][walk.path[Len(walk.path)]].direct
  BY <1>1 DEF Above, Here, ParentOf
<1>3. HasParent <=> Leads(walk.cluster, walk.path[Len(walk.path)])
  BY <1>2 DEF HasParent, Leads
<1> QED BY <1>2, <1>3

\* What has been told to an ownership on a path is where the path ends.
LEMMA ToldBefore ==
  ASSUME Rising, TopsAgree, PathLeads, walk # NoWalk,
         ~Leads(walk.cluster, walk.path[Len(walk.path)]),
         NEW j \in 1 .. Len(walk.path) - 1,
         ownerships[walk.cluster][walk.path[j]].top # None
  PROVE  ownerships[walk.cluster][walk.path[j]].top
           = ownerships[walk.cluster][walk.path[Len(walk.path)]].direct
<1> DEFINE co == ownerships[walk.cluster]
           path == walk.path
           n == Len(path)
<1>1. n \in 1 .. 3 /\ \A i \in 1 .. n : path[i] \in DOMAIN co
  BY PathShort
<1>2. ASSUME NEW i \in 1 .. n - 1, co[path[i]].top # None
      PROVE  co[path[i]].top = IF Leads(walk.cluster, path[i + 1])
                               THEN co[path[i + 1]].top ELSE co[path[i + 1]].direct
  <2>1. path[i] \in DOMAIN co /\ walk.cluster \in Cluster
    BY <1>1, PathShort
  <2>2. ParentOf(walk.cluster, path[i]) = path[i + 1]
    BY DEF PathLeads
  <2>3. co[path[i]].top = Final(walk.cluster, ParentOf(walk.cluster, path[i]))
    BY <1>2, <2>1 DEF TopsAgree
  <2> QED BY <2>2, <2>3 DEF Final
<1>3. \A i \in 1 .. n - 1 : Leads(walk.cluster, path[i])
  BY DEF PathLeads
<1>4. ~Leads(walk.cluster, path[n])
  OBVIOUS
<1>5. j \in 1 .. n - 1 /\ co[path[j]].top # None
  OBVIOUS
<1>6. SUFFICES co[path[j]].top = co[path[n]].direct
  OBVIOUS
<1> HIDE DEF co, path, n
<1>7. CASE j + 1 = n
  BY <1>2, <1>4, <1>5, <1>7
<1>8. CASE j + 1 # n
  <2>1. j = 1 /\ n = 3
    BY <1>1, <1>5, <1>8
  <2>2. co[path[1]].top = co[path[2]].top
    BY <1>2, <1>3, <1>5, <2>1
  <2>3. co[path[2]].top = co[path[3]].direct
    BY <1>2, <1>4, <1>5, <2>1, <2>2
  <2> QED BY <2>1, <2>2, <2>3
<1> QED BY <1>7, <1>8

\* Nothing of this changes unless owners do, but that an ownership may be another's
\* than a pod's from the second stage on, and may be told its top from the fourth.
LEMMA KnownKept ==
  ASSUME PlacesInv, UNCHANGED <<ownerships, detectedOwners>>,
         position' = 1 => position = 1, position' \in 1 .. 3 => position \in 1 .. 3
  PROVE  OwnersRelevant' /\ TopsAgree'
<1>1. \A c, k : /\ ParentOf(c, k)' = ParentOf(c, k) /\ Leads(c, k)' = Leads(c, k)
                /\ Final(c, k)' = Final(c, k)
                /\ RelevantKey(c, k)' = RelevantKey(c, k)
  BY DEF ParentOf, Leads, Final, RelevantKey
<1>2. OwnersRelevant'
  BY <1>1 DEF PlacesInv, OwnersRelevant
<1>3. TopsAgree'
  BY <1>1 DEF PlacesInv, TopsAgree
<1> QED BY <1>2, <1>3

\* A series about an owner.  What it makes relevant is of higher rank than anything
\* that has an owner yet, or is that of a pod and makes its own owner relevant.
LEMMA GetOwnerPlaces ==
  ASSUME AllOwned, PlacesInv, position \in 1 .. 3, UNCHANGED position,
         NEW kind, IF position = 1 THEN kind = "pod" ELSE Rank(kind) = 1,
         NEW c \in Cluster, NEW s,
         HasLabels(s, {"namespace", "owner_kind", "owner_name"}) =>
           /\ Rank(ToLower(s.owner_kind)) > Rank(kind)
           /\ <<ToLower(s.owner_kind), s.owner_name>> # None,
         GetOwner(kind, c, s)
  PROVE  PlacesInv'
<1>1. walk = NoWalk /\ walk' = NoWalk /\ position' \in 1 .. 3 /\ UNCHANGED <<objects, containers>>
  BY DEF GetOwner, PlacesInv, PathLeads
<1>2. PathLeads' /\ AllAtHome' /\ position' \in Nat
  BY <1>1 DEF PlacesInv, PathLeads, AllAtHome, Placed
<1>3. CASE ~HasLabels(s, {"namespace", "owner_kind", "owner_name"})
  <2>1. OwnersRelevant' /\ TopsAgree'
    BY <1>3, KnownKept DEF GetOwner
  <2> QED BY <1>2, <2>1 DEF PlacesInv
<1>4. CASE HasLabels(s, {"namespace", "owner_kind", "owner_name"})
  <2> DEFINE new == newOwnership(s.owner_kind, s.owner_name)
             owned == <<kind, s[TypeLabelName(kind)]>>
             k == Key(owned, s.namespace)
             up == Key(new.direct, s.namespace)
  <2>1. /\ ownerships' = [ownerships EXCEPT ![c] = Assigned(@, k, new)]
        /\ detectedOwners' = IF RelevantKey(c, k)
                             THEN [detectedOwners EXCEPT ![c] = @ \cup {up}]
                             ELSE detectedOwners
    BY <1>4 DEF GetOwner, isRelevant, RelevantKey, Key
  <2>2. /\ new.top = None /\ new.direct # None
        /\ Rank(up[1]) > Rank(kind)
        /\ k[1] = kind /\ Key(new.direct, k[3]) = up
    BY <1>4 DEF newOwnership, Key
  <2> HIDE DEF new, owned, k, up
  <2>3. /\ ownerships'[c] = [x \in {k} \cup DOMAIN ownerships[c] |->
                               IF x = k THEN new ELSE ownerships[c][x]]
        /\ \A d \in Cluster : d # c => ownerships'[d] = ownerships[d]
    BY <2>1 DEF AllOwned, Assigned
  <2>4. /\ detectedOwners' = [d \in Cluster |-> detectedOwners'[d]]
        /\ \A d \in Cluster : d # c => detectedOwners'[d] = detectedOwners[d]
        /\ detectedOwners'[c] = IF RelevantKey(c, k) THEN detectedOwners[c] \cup {up}
                                ELSE detectedOwners[c]
    BY <2>1 DEF PlacesInv, OwnersRelevant
  <2>5. ASSUME NEW d \in Cluster, NEW x \in DOMAIN ownerships'[d]
        PROVE  /\ x[1] = "pod" \/ (position' # 1 /\ Rank(x[1]) = 1)
               /\ RelevantKey(d, x)' => RelevantKey(d, ParentOf(d, x))'
    <3>1. CASE d # c
      BY <2>3, <2>4, <2>5, <3>1 DEF PlacesInv, OwnersRelevant, RelevantKey, ParentOf
    <3>2. CASE d = c /\ x = k
      <4>1. ParentOf(d, x)' = up
        BY <2>2, <2>3, <3>2 DEF ParentOf
      <4>2. RelevantKey(d, x)' => RelevantKey(c, k)
        BY <2>2, <2>4, <3>2 DEF RelevantKey
      <4> QED BY <2>2, <2>4, <3>2, <4>1, <4>2 DEF RelevantKey
    <3>3. CASE d = c /\ x # k
      <4>1. x \in DOMAIN ownerships[c] /\ ownerships'[c][x] = ownerships[c][x]
        BY <2>3, <2>5, <3>3
      <4>2. ParentOf(d, x)' = ParentOf(c, x)
        BY <3>3, <4>1 DEF ParentOf
      <4>3. x[1] = "pod" \/ (position # 1 /\ Rank(x[1]) = 1)
        BY <4>1 DEF PlacesInv, OwnersRelevant
      <4>4. x[1] = "pod" \/ x # up
        <5>1. SUFFICES ASSUME x = up, x[1] # "pod" PROVE FALSE
          OBVIOUS
        <5>2. Rank(x[1]) = 1 /\ Rank(kind) = 1
          BY <4>3, <5>1
        <5>3. Rank(x[1]) > Rank(kind)
          BY <2>2, <5>1
        <5> QED BY ONLY <5>2, <5>3
      <4>5. RelevantKey(d, x)' => RelevantKey(c, x)
        BY <2>4, <3>3, <4>4 DEF RelevantKey
      <4>6. RelevantKey(c, x) => RelevantKey(c, ParentOf(c, x))
        BY <4>1 DEF PlacesInv, OwnersRelevant
      <4>7. \A y : RelevantKey(c, y) => RelevantKey(c, y)'
        BY <2>4 DEF RelevantKey
      <4> QED BY <1>1, <3>3, <4>2, <4>3, <4>5, <4>6, <4>7
    <3> QED BY <3>1, <3>2, <3>3
  <2>6. OwnersRelevant'
    BY <2>4, <2>5 DEF OwnersRelevant
  <2>7. ASSUME NEW d \in Cluster, NEW x \in DOMAIN ownerships'[d]
        PROVE  ownerships'[d][x].top = None
               /\ (x[1] # "pod" => ownerships'[d][x].direct # None)
    BY <2>2, <2>3, <2>7 DEF PlacesInv, TopsAgree
  <2>8. TopsAgree'
    BY <2>7 DEF TopsAgree
  <2> QED BY <1>2, <2>6, <2>8 DEF PlacesInv
<1> QED BY <1>3, <1>4

\* Placing a container loses no object and no container.
LEMMA PlaceKeeps ==
  ASSUME objects = [c \in Cluster |-> objects[c]], containers = [c \in Cluster |-> containers[c]],
         NEW c \in Cluster, NEW s, NEW owner, Place(c, s, owner)
  PROVE  /\ objects' = [d \in Cluster |-> objects'[d]]
         /\ containers' = [d \in Cluster |-> containers'[d]]
         /\ \A d \in Cluster : /\ DOMAIN objects[d] \subseteq DOMAIN objects'[d]
                               /\ DOMAIN containers[d] \subseteq DOMAIN containers'[d]
         /\ Key(owner, s.namespace) \in DOMAIN objects'[c]
         /\ <<Key(owner, s.namespace), s.container>> \in DOMAIN containers'[c]
<1> DEFINE k == Key(owner, s.namespace)
           new == NewContainer(s)
<1>1. /\ objects' = [objects EXCEPT ![c] = AssignedOnce(@, k, NewObject)]
      /\ containers' = [containers EXCEPT ![c] = Assigned(@, <<k, s.container>>, new)]
  BY DEF Place
<1> HIDE DEF k, new
<1>2. /\ objects'[c] = AssignedOnce(objects[c], k, NewObject)
      /\ containers'[c] = Assigned(containers[c], <<k, s.container>>, new)
      /\ \A d \in Cluster : d # c => objects'[d] = objects[d] /\ containers'[d] = containers[d]
      /\ objects' = [d \in Cluster |-> objects'[d]]
      /\ containers' = [d \in Cluster |-> containers'[d]]
  BY <1>1
<1>3. DOMAIN objects'[c] = DOMAIN objects[c] \cup {k}
  <2>1. objects'[c] = IF k \in DOMAIN objects[c] THEN objects[c] ELSE Assigned(objects[c], k, NewObject)
    BY <1>2 DEF AssignedOnce
  <2>2. CASE k \in DOMAIN objects[c]
    BY <2>1, <2>2
  <2>3. CASE k \notin DOMAIN objects[c]
    BY <2>1, <2>3 DEF Assigned
  <2> QED BY <2>2, <2>3
<1>4. DOMAIN containers'[c] = DOMAIN containers[c] \cup {<<k, s.container>>}
  BY <1>2 DEF Assigned
<1>5. ASSUME NEW d \in Cluster
      PROVE  /\ DOMAIN objects[d] \subseteq DOMAIN objects'[d]
             /\ DOMAIN containers[d] \subseteq DOMAIN containers'[d]
  BY <1>2, <1>3, <1>4
<1> QED BY <1>2, <1>3, <1>4, <1>5 DEF k

\* A container stays where its pod's ownership says, if that says the same.
LEMMA AtHomeKept ==
  ASSUME NEW c, NEW s, AtHome(c, s), detectedOwners'[c] = detectedOwners[c],
         DOMAIN objects[c] \subseteq DOMAIN objects'[c],
         DOMAIN containers[c] \subseteq DOMAIN containers'[c],
         PodKey(s) \in DOMAIN ownerships'[c],
         Leads(c, PodKey(s))' => ownerships'[c][PodKey(s)].top # None,
         TopLevelOwner(ownerships'[c][PodKey(s)]) = TopLevelOwner(ownerships[c][PodKey(s)])
  PROVE  AtHome(c, s)'
<1> DEFINE k == PodKey(s)
           home == Key(TopLevelOwner(ownerships[c][k]), s.namespace)
<1>1. home \in DOMAIN objects[c] /\ <<home, s.container>> \in DOMAIN containers[c] /\ RelevantKey(c, home)
  BY DEF AtHome
<1>2. Key(TopLevelOwner(ownerships[c][k])', s.namespace) = home
  BY DEF TopLevelOwner
<1>3. RelevantKey(c, home)' <=> RelevantKey(c, home)
  <2>1. home' = home
    BY <1>2
  <2> HIDE DEF home
  <2> QED BY <2>1 DEF RelevantKey
<1> QED BY <1>1, <1>2, <1>3 DEF AtHome

\* A series about a container: its pod becomes its own owner, or its walk begins.
LEMMA AddContainerPlaces ==
  ASSUME AllOwned, PlacesInv, walk = NoWalk, position = 4, asked,
         UNCHANGED <<answers, position, asked>>, NEW c \in Cluster, NEW s,
         pending' = pending \ {<<c, s>>},
         IF HasOwnerships(c) THEN AddContainer(c, s) ELSE UNCHANGED ownerVars
  PROVE  PlacesInv'
<1>1. ASSUME NEW d, NEW u, Placed(d, u)', <<d, u>> # <<c, s>>
      PROVE  Placed(d, u)
  BY <1>1 DEF Placed
<1>2. \A d : /\ AnswersTo(d, "containerInfo")' = AnswersTo(d, "containerInfo")
            /\ HasOwnerships(d)' = HasOwnerships(d)
  BY DEF AnswersTo, HasOwnerships
<1>3. CASE ~Placeable(c, s)
  <2>1. UNCHANGED <<ownerships, detectedOwners, objects, containers, walk>>
    BY <1>3 DEF AddContainer, Placeable, ownerVars
  <2>2. OwnersRelevant' /\ TopsAgree'
    BY <2>1, KnownKept
  <2>3. \A d, u : AtHome(d, u)' <=> AtHome(d, u)
    BY <2>1 DEF AtHome, Leads, ParentOf, RelevantKey
  <2>4. AllAtHome'
    BY <1>1, <1>2, <1>3, <2>1, <2>3 DEF PlacesInv, AllAtHome, Placeable
  <2> QED BY <2>1, <2>2, <2>4 DEF PlacesInv, PathLeads
<1>4. CASE Placeable(c, s) /\ PodKey(s) \in DOMAIN ownerships[c]
  <2>1. /\ UNCHANGED <<ownerships, detectedOwners, objects, containers>>
        /\ walk' = [cluster |-> c, series |-> s, path |-> <<PodKey(s)>>]
    BY <1>4 DEF AddContainer, Placeable, ownerVars
  <2>2. OwnersRelevant' /\ TopsAgree'
    BY <2>1, KnownKept
  <2>3. \A d, u : AtHome(d, u)' <=> AtHome(d, u)
    BY <2>1 DEF AtHome, Leads, ParentOf, RelevantKey
  <2>4. walk'.cluster = c /\ walk'.series = s /\ walk'.path = <<PodKey(s)>>
    BY <2>1
  <2>5. ASSUME NEW u, Placed(c, u)' PROVE u # s
    <3>1. walk' # NoWalk
      BY <2>4 DEF NoWalk
    <3> QED BY <2>4, <2>5, <3>1 DEF Placed
  <2>6. AllAtHome'
    BY <1>1, <1>2, <2>1, <2>3, <2>5 DEF PlacesInv, AllAtHome, Placeable
  <2>7. PathLeads'
    <3>1. Len(walk'.path) = 1 /\ walk'.path[1] = PodKey(s)
      BY <2>4
    <3>2. RelevantKey(c, PodKey(s))'
      BY DEF RelevantKey, PodKey, Key
    <3> QED BY <2>4, <3>1, <3>2 DEF PathLeads
  <2> QED BY <2>2, <2>6, <2>7 DEF PlacesInv
<1>5. CASE Placeable(c, s) /\ PodKey(s) \notin DOMAIN ownerships[c]
  <2> DEFINE new == newOwnership("pod", s.pod)
             k == PodKey(s)
             self == <<"pod", s.pod>>
  <2>1. /\ ownerships' = [ownerships EXCEPT ![c] = Assigned(@, k, new)]
        /\ Place(c, s, self)
        /\ UNCHANGED <<detectedOwners, walk>>
    BY <1>5 DEF AddContainer, Placeable, ownerVars
  <2>2. /\ new.top = None /\ new.direct = self /\ self[1] = "pod"
        /\ Key(self, k[3]) = k /\ Key(self, s.namespace) = k /\ k[1] = "pod"
    BY DEF newOwnership, ToLower, PodKey, Key
  <2> HIDE DEF new, k, self
  <2>3. /\ ownerships'[c] = [x \in {k} \cup DOMAIN ownerships[c] |->
                               IF x = k THEN new ELSE ownerships[c][x]]
        /\ \A d \in Cluster : d # c => ownerships'[d] = ownerships[d]
    BY <2>1 DEF AllOwned, Assigned
  <2>4. k \notin DOMAIN ownerships[c]
    BY <1>5 DEF k
  <2>5. ASSUME NEW d \in Cluster, NEW x \in DOMAIN ownerships[d]
        PROVE  /\ x \in DOMAIN ownerships'[d] /\ ownerships'[d][x] = ownerships[d][x]
               /\ ParentOf(d, x)' = ParentOf(d, x) /\ Leads(d, x)' = Leads(d, x)
    <3>1. \A y \in DOMAIN ownerships[d] :
            y \in DOMAIN ownerships'[d] /\ ownerships'[d][y] = ownerships[d][y]
      BY <2>3, <2>4
    <3>2. \A y \in DOMAIN ownerships'[d] \ DOMAIN ownerships[d] : ownerships'[d][y].direct[1] = "pod"
      BY <2>2, <2>3
    <3> QED BY <3>1, <3>2, LeadsKept
  <2>6. /\ ParentOf(c, k)' = k /\ ~Leads(c, k)' /\ ownerships'[c][k] = new
        /\ k \in DOMAIN ownerships'[c]
    BY <2>2, <2>3 DEF ParentOf, Leads
  <2>7. \A d, x : RelevantKey(d, x)' <=> RelevantKey(d, x)
    BY <2>1 DEF RelevantKey
  <2>8. ASSUME NEW d \in Cluster, NEW x \in DOMAIN ownerships'[d]
        PROVE  x \in DOMAIN ownerships[d] \/ (d = c /\ x = k)
    BY <2>3
  <2>9. OwnersRelevant'
    <3>1. ASSUME NEW d \in Cluster, NEW x \in DOMAIN ownerships'[d]
          PROVE  /\ x[1] = "pod" \/ (position' # 1 /\ Rank(x[1]) = 1)
                 /\ RelevantKey(d, x)' => RelevantKey(d, ParentOf(d, x))'
      <4>1. CASE x \in DOMAIN ownerships[d]
        BY <2>5, <2>7, <4>1 DEF PlacesInv, OwnersRelevant
      <4>2. CASE d = c /\ x = k
        BY <2>2, <2>6, <4>2
      <4> QED BY <2>8, <4>1, <4>2
    <3> QED BY <2>1, <3>1 DEF PlacesInv, OwnersRelevant
  <2>10. TopsAgree'
    <3>1. ASSUME NEW d \in Cluster, NEW x \in DOMAIN ownerships[d], Leads(d, x)
          PROVE  Final(d, ParentOf(d, x))' = Final(d, ParentOf(d, x))
      <4>1. ParentOf(d, x) \in DOMAIN ownerships[d] /\ ParentOf(d, x)' = ParentOf(d, x)
        BY <2>5, <3>1 DEF Leads
      <4> QED BY <2>5, <4>1 DEF Final
    <3>2. ASSUME NEW d \in Cluster, NEW x \in DOMAIN ownerships'[d]
          PROVE  /\ x[1] # "pod" => ownerships'[d][x].direct # None
                 /\ ownerships'[d][x].top # None =>
                      /\ position' \notin 1 .. 3
                      /\ Leads(d, x)'
                      /\ ownerships'[d][x].top = Final(d, ParentOf(d, x))'
      <4>1. CASE x \in DOMAIN ownerships[d]
        BY <2>5, <3>1, <4>1 DEF PlacesInv, TopsAgree
      <4>2. CASE d = c /\ x = k
        BY <2>2, <2>6, <4>2
      <4> QED BY <2>8, <4>1, <4>2
    <3> QED BY <3>2 DEF TopsAgree
  <2>11. /\ objects' = [d \in Cluster |-> objects'[d]]
         /\ containers' = [d \in Cluster |-> containers'[d]]
         /\ \A d \in Cluster : /\ DOMAIN objects[d] \subseteq DOMAIN objects'[d]
                               /\ DOMAIN containers[d] \subseteq DOMAIN containers'[d]
         /\ k \in DOMAIN objects'[c] /\ <<k, s.container>> \in DOMAIN containers'[c]
    BY <2>1, <2>2, PlaceKeeps DEF PlacesInv, AllAtHome
  <2>12. AtHome(c, s)'
    <3>1. TopLevelOwner(ownerships'[c][k]) = self
      BY <2>2, <2>6 DEF TopLevelOwner
    <3> QED BY <2>2, <2>6, <2>11, <3>1 DEF AtHome, RelevantKey, k, TopLevelOwner
  <2>13. ASSUME NEW d \in Cluster, NEW u, AtHome(d, u)
         PROVE  AtHome(d, u)'
    <3>1. PodKey(u) \in DOMAIN ownerships[d] /\ (Leads(d, PodKey(u)) => ownerships[d][PodKey(u)].top # None)
      BY <2>13 DEF AtHome
    <3> QED BY <2>1, <2>5, <2>11, <2>13, <3>1, AtHomeKept
  <2>14. AllAtHome'
    BY <1>1, <1>2, <2>11, <2>12, <2>13 DEF PlacesInv, AllAtHome, Placeable
  <2> QED BY <2>1, <2>9, <2>10, <2>14 DEF PlacesInv, PathLeads
<1> QED BY <1>3, <1>4, <1>5

\* A walk goes on to an owner that is relevant because what it owns is.
LEMMA ClimbPlaces ==
  ASSUME AllOwned, Rising, PlacesInv, Climb, UNCHANGED <<answers, position, asked, pending>>
  PROVE  PlacesInv'
<1> DEFINE path == walk.path
           n == Len(path)
           c == walk.cluster
           longer == Append(path, Above)
<1>1. /\ UNCHANGED <<ownerships, detectedOwners, objects, containers>>
      /\ walk # NoWalk /\ walk = [cluster |-> c, series |-> walk.series, path |-> path]
      /\ walk' = [walk EXCEPT !.path = Append(@, Above)]
  BY DEF Climb, Rising
<1>2. walk' = [cluster |-> c, series |-> walk.series, path |-> longer]
  BY <1>1
<1>3. /\ n \in 1 .. 3 /\ c \in Cluster
      /\ \A i \in 1 .. n : path[i] \in DOMAIN ownerships[c]
      /\ path \in Seq(DOMAIN ownerships[c])
  BY <1>1, PathShort DEF Rising
<1>4. Above = ParentOf(c, path[n]) /\ Leads(c, path[n])
  BY <1>1, HasParentLeads DEF Climb
<1>5. RelevantKey(c, Above)
  BY <1>1, <1>3, <1>4 DEF PlacesInv, OwnersRelevant, PathLeads
<1>6. Above \in DOMAIN ownerships[c]
  BY <1>4 DEF Leads
<1>7. /\ position = 4 /\ path[1] = PodKey(walk.series)
      /\ \A i \in 1 .. n : RelevantKey(c, path[i])
      /\ \A i \in 1 .. n - 1 : Leads(c, path[i]) /\ path[i + 1] = ParentOf(c, path[i])
  BY <1>1 DEF PlacesInv, PathLeads
<1>8. \A d, x : /\ Leads(d, x)' = Leads(d, x) /\ ParentOf(d, x)' = ParentOf(d, x)
                /\ RelevantKey(d, x)' = RelevantKey(d, x)
  BY <1>1 DEF Leads, ParentOf, RelevantKey
<1>9. walk'.cluster = c /\ walk'.series = walk.series /\ walk'.path = longer
  BY ONLY <1>2
<1> HIDE DEF path, n, c
<1>10. /\ Len(longer) = n + 1 /\ longer # <<>>
       /\ \A i \in 1 .. n : longer[i] = path[i]
       /\ longer[n + 1] = Above
  BY <1>3, <1>6 DEF n
<1> HIDE DEF longer
<1>11. PathLeads'
  <2>1. \A i \in 1 .. Len(longer) : RelevantKey(c, longer[i])
    BY <1>3, <1>5, <1>7, <1>10
  <2>2. \A i \in 1 .. Len(longer) - 1 : Leads(c, longer[i]) /\ longer[i + 1] = ParentOf(c, longer[i])
    BY <1>3, <1>4, <1>7, <1>10
  <2>3. longer[1] = PodKey(walk.series)
    BY <1>3, <1>7, <1>10
  <2> QED BY <1>7, <1>8, <1>9, <2>1, <2>2, <2>3 DEF PathLeads
<1>12. AllAtHome'
  <2>1. \A d, u : Placed(d, u)' => Placed(d, u)
    <3>1. walk' # NoWalk
      BY <1>9, <1>10 DEF NoWalk
    <3> QED BY <1>9, <3>1 DEF Placed, c
  <2>2. \A d, u : AtHome(d, u)' <=> AtHome(d, u)
    BY <1>1, <1>8 DEF AtHome
  <2>3. \A d : /\ AnswersTo(d, "containerInfo")' = AnswersTo(d, "containerInfo")
              /\ HasOwnerships(d)' = HasOwnerships(d)
    BY DEF AnswersTo, HasOwnerships
  <2> QED BY <1>1, <2>1, <2>2, <2>3 DEF PlacesInv, AllAtHome, Placeable
<1> QED BY <1>1, <1>11, <1>12, KnownKept DEF PlacesInv

\* The end of a walk tells the ownerships passed where the container is placed; those
\* that had been told by an earlier walk were told the same.
LEMMA ReachTopPlaces ==
  ASSUME AllOwned, Rising, PlacesInv, ReachTop, UNCHANGED <<answers, position, asked, pending>>
  PROVE  PlacesInv'
<1>0. PICK c, s, path, end :
        /\ c = walk.cluster /\ s = walk.series /\ path = walk.path
        /\ end = ownerships[c][path[Len(path)]].direct
  OBVIOUS
<1> DEFINE n == Len(path)
           Passed(k) == \E i \in 1 .. n - 1 : path[i] = k
<1>1. walk # NoWalk /\ walk' = NoWalk /\ UNCHANGED detectedOwners
  BY DEF ReachTop
<1>2. /\ n \in 1 .. 3 /\ c \in Cluster
      /\ \A i \in 1 .. n : path[i] \in DOMAIN ownerships[c]
      /\ \A i \in 2 .. n : path[i][1] # "pod"
      /\ \A i \in 1 .. n : path[i][3] = s.namespace
  BY <1>0, <1>1, PathShort DEF Rising
<1>3. ~Leads(c, path[n]) /\ Here.direct = end /\ Here = ownerships[c][path[n]]
  BY <1>0, <1>1, HasParentLeads DEF ReachTop, Here
<1>4. /\ position = 4 /\ path[1] = PodKey(s)
      /\ \A i \in 1 .. n : RelevantKey(c, path[i])
      /\ \A i \in 1 .. n - 1 : Leads(c, path[i]) /\ path[i + 1] = ParentOf(c, path[i])
  BY <1>0, <1>1 DEF PlacesInv, PathLeads
<1>5. \A j \in 1 .. n - 1 : ownerships[c][path[j]].top # None => ownerships[c][path[j]].top = end
  BY <1>0, <1>1, <1>3, ToldBefore DEF PlacesInv
<1>6. Here.top = None /\ TopLevelOwner(Here) = end
  BY <1>2, <1>3 DEF PlacesInv, TopsAgree, TopLevelOwner
<1>7. /\ Place(c, s, end)
      /\ ownerships' = [ownerships EXCEPT ![c] = Told(@, path, end)]
  BY <1>0, <1>3, <1>6 DEF ReachTop
<1>8. n > 1 => end # None
  <2>1. path[n] \in DOMAIN ownerships[c] /\ (n > 1 => path[n][1] # "pod")
    BY <1>2
  <2>2. \A k \in DOMAIN ownerships[c] : k[1] # "pod" => ownerships[c][k].direct # None
    BY <1>2 DEF PlacesInv, TopsAgree
  <2> QED BY ONLY <1>0, <2>1, <2>2
<1>9. RelevantKey(c, Key(end, s.namespace))
  <2>1. RelevantKey(c, ParentOf(c, path[n])) /\ ParentOf(c, path[n]) = Key(end, s.namespace)
    <3>1. path[n] \in DOMAIN ownerships[c] /\ RelevantKey(c, path[n]) /\ path[n][3] = s.namespace
      BY <1>2, <1>4
    <3>2. RelevantKey(c, ParentOf(c, path[n]))
      BY <1>2, <3>1 DEF PlacesInv, OwnersRelevant
    <3>3. ParentOf(c, path[n]) = Key(end, s.namespace)
      BY <1>0, <3>1 DEF ParentOf
    <3> QED BY <3>2, <3>3
  <2> QED BY <2>1
<1>10. /\ DOMAIN ownerships'[c] = DOMAIN ownerships[c]
       /\ \A k \in DOMAIN ownerships[c] :
            ownerships'[c][k] = IF Passed(k) THEN [ownerships[c][k] EXCEPT !.top = end]
                                ELSE ownerships[c][k]
       /\ \A d \in Cluster : d # c => ownerships'[d] = ownerships[d]
  <2>1. ownerships'[c] = Told(ownerships[c], path, end) /\ \A d \in Cluster : d # c => ownerships'[d] = ownerships[d]
    BY <1>2, <1>7 DEF AllOwned
  <2> QED BY <2>1 DEF Told
<1>11. \A k \in DOMAIN ownerships[c] : Owned(k, ownerships[c][k])
  BY <1>2 DEF AllOwned
<1> HIDE DEF n, Passed
<1>12. ASSUME NEW k \in DOMAIN ownerships[c]
       PROVE  /\ ownerships'[c][k].direct = ownerships[c][k].direct
              /\ ownerships'[c][k].top = IF Passed(k) THEN end ELSE ownerships[c][k].top
  <2>1. ownerships[c][k] = [direct |-> ownerships[c][k].direct, top |-> ownerships[c][k].top]
    BY <1>11 DEF Owned
  <2>2. CASE Passed(k)
    <3>1. ownerships'[c][k] = [direct |-> ownerships[c][k].direct, top |-> end]
      BY <1>10, <2>1, <2>2
    <3> QED BY <2>2, <3>1
  <2>3. CASE ~Passed(k)
    BY <1>10, <2>3
  <2> QED BY <2>2, <2>3
<1>13. ASSUME NEW d \in Cluster, NEW x \in DOMAIN ownerships[d]
       PROVE  /\ x \in DOMAIN ownerships'[d]
              /\ ownerships'[d][x].direct = ownerships[d][x].direct
              /\ ParentOf(d, x)' = ParentOf(d, x) /\ Leads(d, x)' = Leads(d, x)
  <2>1. /\ \A k \in DOMAIN ownerships[d] :
             k \in DOMAIN ownerships'[d] /\ ownerships'[d][k].direct = ownerships[d][k].direct
        /\ DOMAIN ownerships'[d] = DOMAIN ownerships[d]
    BY <1>10, <1>12
  <2> QED BY <2>1, LeadsKept
<1>14. \A d \in Cluster : DOMAIN ownerships'[d] = DOMAIN ownerships[d]
  BY <1>10
<1>15. \A d, x : RelevantKey(d, x)' <=> RelevantKey(d, x)
  BY <1>1 DEF RelevantKey
<1>16. OwnersRelevant'
  BY <1>1, <1>13, <1>14, <1>15 DEF PlacesInv, OwnersRelevant
<1>17. ASSUME NEW k, Passed(k)
       PROVE  /\ k \in DOMAIN ownerships[c] /\ Leads(c, k) /\ n > 1
              /\ ownerships[c][k].top # None => ownerships[c][k].top = end
              /\ \/ Passed(ParentOf(c, k))
                 \/ ParentOf(c, k) = path[n]
  <2>1. PICK i \in 1 .. n - 1 : path[i] = k
    BY <1>17 DEF Passed
  <2>2. i \in 1 .. n /\ n > 1 /\ (i + 1 \in 1 .. n - 1 \/ i + 1 = n)
    BY <1>2, <2>1
  <2>3. ParentOf(c, k) = path[i + 1]
    BY <1>4, <2>1
  <2> QED BY <1>2, <1>4, <1>5, <2>1, <2>2, <2>3 DEF Passed
<1>18. ~Passed(path[n])
  BY <1>3, <1>17
<1>19. ASSUME NEW k \in DOMAIN ownerships[c], ownerships'[c][k].top # None
       PROVE  Leads(c, k) /\ ownerships'[c][k].top = Final(c, ParentOf(c, k))'
  <2> DEFINE p == ParentOf(c, k)
  <2>1. Leads(c, k) /\ (~Passed(k) => ownerships'[c][k].top = Final(c, p))
    BY <1>2, <1>12, <1>17, <1>19 DEF PlacesInv, TopsAgree
  <2>2. p \in DOMAIN ownerships[c]
    BY <2>1 DEF Leads
  <2>3. Final(c, p)' = IF Leads(c, p) THEN ownerships'[c][p].top ELSE ownerships[c][p].direct
    BY <1>2, <1>13, <2>2 DEF Final
  <2>4. Final(c, p) = IF Leads(c, p) THEN ownerships[c][p].top ELSE ownerships[c][p].direct
    BY DEF Final
  <2>5. ParentOf(c, k)' = p
    BY <1>2, <1>13
  <2> HIDE DEF p
  <2>6. ownerships'[c][k].top = Final(c, p)'
    <3>1. CASE Passed(k)
      <4>1. ownerships'[c][k].top = end
        BY <1>12, <3>1
      <4>2. CASE Passed(p)
        <5>1. Leads(c, p) /\ ownerships'[c][p].top = end
          BY <1>12, <1>17, <2>2, <4>2
        <5> QED BY <2>3, <4>1, <5>1
      <4>3. CASE p = path[n]
        <5>1. ~Leads(c, p) /\ ownerships[c][p].direct = end
          BY <1>0, <1>3, <4>3 DEF n
        <5> QED BY <2>3, <4>1, <5>1
      <4> QED BY <1>17, <3>1, <4>2, <4>3 DEF p
    <3>2. CASE ~Passed(k)
      <4>1. ownerships'[c][k].top = Final(c, p)
        BY <2>1, <3>2
      <4>2. CASE Leads(c, p) /\ Passed(p)
        <5>1. ownerships[c][p].top = end /\ ownerships'[c][p].top = end
          BY <1>12, <1>17, <1>19, <2>2, <2>4, <4>1, <4>2
        <5> QED BY <2>3, <2>4, <4>1, <4>2, <5>1
      <4>3. CASE Leads(c, p) /\ ~Passed(p)
        BY <1>12, <2>2, <2>3, <2>4, <4>1, <4>3
      <4>4. CASE ~Leads(c, p)
        BY <2>3, <2>4, <4>1, <4>4
      <4> QED BY <4>2, <4>3, <4>4
    <3> QED BY <3>1, <3>2
  <2> QED BY <2>1, <2>6 DEF p
<1>20. TopsAgree'
  <2>1. ASSUME NEW d \in Cluster, NEW x \in DOMAIN ownerships'[d]
        PROVE  /\ x[1] # "pod" => ownerships'[d][x].direct # None
               /\ ownerships'[d][x].top # None =>
                    /\ position' \notin 1 .. 3
                    /\ Leads(d, x)'
                    /\ ownerships'[d][x].top = Final(d, ParentOf(d, x))'
    <3>1. x \in DOMAIN ownerships[d] /\ position' = 4
      BY <1>4, <1>14
    <3>2. x[1] # "pod" => ownerships'[d][x].direct # None
      BY <1>13, <3>1 DEF PlacesInv, TopsAgree
    <3>3. CASE d = c
      BY <1>13, <1>19, <3>1, <3>2, <3>3
    <3>4. CASE d # c
      <4>1. ownerships'[d] = ownerships[d]
        BY <1>10, <3>4
      <4>2. /\ ParentOf(d, x)' = ParentOf(d, x) /\ Leads(d, x)' = Leads(d, x)
            /\ Final(d, ParentOf(d, x))' = Final(d, ParentOf(d, x))
        BY <4>1 DEF ParentOf, Leads, Final
      <4> QED BY <3>1, <3>2, <4>1, <4>2 DEF PlacesInv, TopsAgree
    <3> QED BY <3>3, <3>4
  <2> QED BY <2>1 DEF TopsAgree
<1>21. /\ objects' = [d \in Cluster |-> objects'[d]]
       /\ containers' = [d \in Cluster |-> containers'[d]]
       /\ \A d \in Cluster : /\ DOMAIN objects[d] \subseteq DOMAIN objects'[d]
                             /\ DOMAIN containers[d] \subseteq DOMAIN containers'[d]
       /\ Key(end, s.namespace) \in DOMAIN objects'[c]
       /\ <<Key(end, s.namespace), s.container>> \in DOMAIN containers'[c]
  BY <1>2, <1>7, PlaceKeeps DEF PlacesInv, AllAtHome
<1>22. AtHome(c, s)'
  <2> DEFINE k == PodKey(s)
  <2>1. k = path[1] /\ k \in DOMAIN ownerships[c] /\ k \in DOMAIN ownerships'[c]
    BY <1>2, <1>4, <1>10
  <2>2. CASE n = 1
    <3>1. ~Passed(k) /\ ~Leads(c, k)
      BY <1>3, <1>18, <2>1, <2>2
    <3>2. /\ ~Leads(c, k)' /\ ownerships'[c][k].top = None
          /\ ownerships'[c][k].direct = end
      <4>1. ownerships[c][k].top = None /\ ownerships[c][k].direct = end
        BY <1>0, <1>2, <2>1, <2>2, <3>1 DEF PlacesInv, TopsAgree, n
      <4> QED BY <1>2, <1>12, <1>13, <2>1, <3>1, <4>1
    <3>3. TopLevelOwner(ownerships'[c][k]) = end
      BY <3>2 DEF TopLevelOwner
    <3> HIDE DEF k
    <3> QED BY <1>9, <1>15, <1>21, <2>1, <3>2, <3>3 DEF AtHome, k
  <2>3. CASE n > 1
    <3>1. Passed(k)
      BY <1>2, <2>1, <2>3 DEF Passed
    <3>2. ownerships'[c][k].top = end /\ end # None
      BY <1>8, <1>12, <2>1, <2>3, <3>1
    <3>3. TopLevelOwner(ownerships'[c][k]) = end
      BY <3>2 DEF TopLevelOwner
    <3> HIDE DEF k
    <3> QED BY <1>9, <1>15, <1>21, <2>1, <3>2, <3>3 DEF AtHome, k
  <2> QED BY <1>2, <2>2, <2>3
<1>23. ASSUME NEW d \in Cluster, NEW u, AtHome(d, u)
       PROVE  AtHome(d, u)'
  <2> DEFINE k == PodKey(u)
  <2>1. k \in DOMAIN ownerships[d] /\ (Leads(d, k) => ownerships[d][k].top # None)
    BY <1>23 DEF AtHome
  <2>2. k \in DOMAIN ownerships'[d] /\ Leads(d, k)' = Leads(d, k)
    BY <1>13, <2>1
  <2> HIDE DEF k
  <2>3. /\ ownerships'[d][k].top = ownerships[d][k].top
        /\ ownerships'[d][k].direct = ownerships[d][k].direct
    <3>1. CASE d = c /\ Passed(k)
      BY <1>12, <1>17, <2>1, <3>1
    <3>2. CASE d = c /\ ~Passed(k)
      BY <1>12, <2>1, <3>2
    <3>3. CASE d # c
      BY <1>10, <3>3
    <3> QED BY <3>1, <3>2, <3>3
  <2>4. TopLevelOwner(ownerships'[d][k]) = TopLevelOwner(ownerships[d][k])
    BY <2>3 DEF TopLevelOwner
  <2> QED BY <1>1, <1>21, <1>23, <2>1, <2>2, <2>3, <2>4, AtHomeKept DEF k
<1>24. AllAtHome'
  <2>1. ASSUME NEW d, NEW u, Placed(d, u)', <<d, u>> # <<c, s>>
        PROVE  Placed(d, u)
    BY <1>0, <1>1, <2>1 DEF Placed
  <2>2. \A d : /\ AnswersTo(d, "containerInfo")' = AnswersTo(d, "containerInfo")
              /\ HasOwnerships(d)' = HasOwnerships(d)
    BY DEF AnswersTo, HasOwnerships
  <2> QED BY <1>21, <1>22, <1>23, <2>1, <2>2 DEF PlacesInv, AllAtHome, Placeable
<1> QED BY <1>1, <1>16, <1>20, <1>24 DEF PlacesInv, PathLeads

\* The later handlers lose no object and no container, and know no owners.
LEMMA OthersKeep ==
  ASSUME objects = [c \in Cluster |-> objects[c]], containers = [c \in Cluster |-> containers[c]],
         NEW c \in Cluster, NEW s, Measure(c, s) \/ Describe(c, s) \/ Scale(c, s)
  PROVE  /\ objects' = [d \in Cluster |-> objects'[d]]
         /\ containers' = [d \in Cluster |-> containers'[d]]
         /\ \A d \in Cluster : /\ DOMAIN objects'[d] = DOMAIN objects[d]
                               /\ DOMAIN containers'[d] = DOMAIN containers[d]
         /\ UNCHANGED <<ownerships, detectedOwners, detectedOwnershipTypes, walk>>
<1>1. UNCHANGED <<ownerships, detectedOwners, detectedOwnershipTypes, walk>>
  <2>1. CASE Measure(c, s)
    BY <2>1 DEF Measure, GetContainerMetric
  <2>2. CASE Describe(c, s)
    BY <2>2 DEF Describe, GetObjectLabels, GetObjectMetric, GetOwnedObjectMetric,
       SetObjectMetric, GetNamespaceMetric
  <2>3. CASE Scale(c, s)
    BY <2>3 DEF Scale, GetHpa, GetHpaLabels, UnchangedButHpas
  <2> QED BY <2>1, <2>2, <2>3
<1>2. /\ containers' = [d \in Cluster |-> containers'[d]]
      /\ \A d \in Cluster : DOMAIN containers'[d] = DOMAIN containers[d]
  <2>1. CASE Measure(c, s)
    BY <2>1 DEF Measure, GetContainerMetric
  <2>2. CASE Describe(c, s) \/ Scale(c, s)
    <3>1. UNCHANGED containers
      BY <2>2 DEF Describe, GetObjectLabels, GetObjectMetric, GetOwnedObjectMetric,
         SetObjectMetric, GetNamespaceMetric, Scale, GetHpa, GetHpaLabels, UnchangedButHpas
    <3> QED BY <3>1
  <2> QED BY <2>1, <2>2
<1>3. /\ objects' = [d \in Cluster |-> objects'[d]]
      /\ \A d \in Cluster : DOMAIN objects'[d] = DOMAIN objects[d]
  <2>1. CASE UNCHANGED objects
    BY <2>1
  <2>2. CASE \E kind, all : GetObjectLabels(kind, all, c, s)
    <3>1. PICK kind, all : GetObjectLabels(kind, all, c, s)
      BY <2>2
    <3> DEFINE keys == ObjectOf(kind, TypeLabelName(kind), FALSE, c, s)
               labels == IF all THEN Labels(s) ELSE LabelsButNode(s)
    <3>2. objects' = [objects EXCEPT
            ![c] = [k \in DOMAIN @ |-> IF k \in keys THEN Described(@[k], labels) ELSE @[k]]]
      BY ONLY <3>1 DEF GetObjectLabels
    <3> HIDE DEF keys, labels
    <3> QED BY <3>2
  <2>3. CASE \E metric, keys : SetObjectMetric(metric, keys, c, s)
    BY <2>3 DEF SetObjectMetric
  <2>4. CASE \E id, h : SetHpa(c, id, h)
    BY <2>4 DEF SetHpa
  <2>5. CASE Measure(c, s)
    BY <2>1, <2>5 DEF Measure, GetContainerMetric
  <2>6. CASE Describe(c, s)
    BY <2>1, <2>2, <2>3, <2>6 DEF Describe, GetObjectMetric, GetOwnedObjectMetric, GetNamespaceMetric
  <2>7. CASE Scale(c, s)
    BY <2>1, <2>4, <2>7 DEF Scale, GetHpa, GetHpaLabels
  <2> QED BY <2>5, <2>6, <2>7
<1> QED BY <1>1, <1>2, <1>3

\* A step that knows no owners, and keeps what is registered, keeps containers at home
\* unless it is a series of the containers' own stage.
LEMMA OthersPlace ==
  ASSUME PlacesInv, UNCHANGED <<answers, ownerships, detectedOwners, walk>>,
         position' \in Nat, walk # NoWalk => position' = position,
         position' = 1 => position = 1, position' \in 1 .. 3 => position \in 1 .. 3,
         \A c, s : Placed(c, s)' /\ c \in Cluster /\ s \in AnswersTo(c, "containerInfo") => Placed(c, s),
         objects' = [c \in Cluster |-> objects'[c]],
         containers' = [c \in Cluster |-> containers'[c]],
         \A c \in Cluster : /\ DOMAIN objects'[c] = DOMAIN objects[c]
                            /\ DOMAIN containers'[c] = DOMAIN containers[c]
  PROVE  PlacesInv'
<1>1. \A c, k : /\ ParentOf(c, k)' = ParentOf(c, k) /\ Leads(c, k)' = Leads(c, k)
                /\ RelevantKey(c, k)' = RelevantKey(c, k)
  BY DEF ParentOf, Leads, RelevantKey
<1>2. PathLeads'
  BY <1>1 DEF PlacesInv, PathLeads
<1>3. \A c \in Cluster : \A s : AtHome(c, s)' <=> AtHome(c, s)
  BY <1>1 DEF AtHome, TopLevelOwner
<1>4. AllAtHome'
  BY <1>3 DEF PlacesInv, AllAtHome, AnswersTo, Placeable, HasOwnerships
<1> QED BY <1>2, <1>4, KnownKept DEF PlacesInv

\* What a series about an owner can say, and when.
LEMMA OwnerSeries ==
  ASSUME IInv, ~Done, NEW t \in pending, TakeSeries(t[1], t[2]), Own(t[1], t[2])
  PROVE  /\ position \in 1 .. 3
         /\ IF position = 1 THEN Current.kind = "pod" ELSE Rank(Current.kind) = 1
         /\ HasLabels(t[2], {"namespace", "owner_kind", "owner_name"}) =>
              /\ Rank(ToLower(t[2].owner_kind)) > Rank(Current.kind)
              /\ <<ToLower(t[2].owner_kind), t[2].owner_name>> # None
<1>1. asked /\ position \in DOMAIN Stages
  BY DEF TakeSeries, Done
<1>2. t[1] \in Cluster /\ t[2] \in AnswersTo(t[1], Current.query)
  BY <1>1 DEF IInv, Asking
<1>3. /\ position \in 1 .. 3
      /\ IF position = 1 THEN Current.kind = "pod" ELSE Rank(Current.kind) = 1
  BY <1>1, StageNumbers DEF Own, Current
<1>4. HasLabels(t[2], {"namespace", "owner_kind", "owner_name"}) =>
        /\ Rank(ToLower(t[2].owner_kind)) > Rank(Current.kind)
        /\ <<ToLower(t[2].owner_kind), t[2].owner_name>> # None
  <2> DEFINE a == answers
             i == position
  <2>1. a \in Answers /\ i \in DOMAIN Stages /\ Stages[i].handler = "owner"
    BY <1>1 DEF Own, IInv, Asking, Current
  <2>2. Stages[i].query \in DOMAIN a[t[1]] /\ t[2] \in a[t[1]][Stages[i].query]
    BY <1>2 DEF AnswersTo, Current
  <2> QED BY <1>2, <2>1, <2>2, OwnersOutrank, OwnersNamed DEF Current
<1> QED BY <1>3, <1>4

\* A series of any stage.
LEMMA SeriesPlaces ==
  ASSUME IInv, PlacesInv, Series
  PROVE  PlacesInv'
<1>1. PICK t \in pending :
        /\ TakeSeries(t[1], t[2])
        /\ \/ Own(t[1], t[2])
           \/ Contain(t[1], t[2])
           \/ Measure(t[1], t[2])
           \/ Describe(t[1], t[2])
           \/ Scale(t[1], t[2])
  BY DEF Series
<1>2. /\ asked /\ walk = NoWalk /\ pending' = pending \ {<<t[1], t[2]>>}
      /\ UNCHANGED <<answers, position, asked>>
      /\ position \in DOMAIN Stages
  BY <1>1 DEF TakeSeries, Series, Done
<1>3. t[1] \in Cluster /\ t[2] \in AnswersTo(t[1], Current.query)
  BY <1>2 DEF IInv, Asking
<1>4. CASE Own(t[1], t[2])
  <2>1. GetOwner(Current.kind, t[1], t[2])
    BY <1>4 DEF Own
  <2>2. /\ position \in 1 .. 3
        /\ IF position = 1 THEN Current.kind = "pod" ELSE Rank(Current.kind) = 1
        /\ HasLabels(t[2], {"namespace", "owner_kind", "owner_name"}) =>
             /\ Rank(ToLower(t[2].owner_kind)) > Rank(Current.kind)
             /\ <<ToLower(t[2].owner_kind), t[2].owner_name>> # None
    BY <1>1, <1>4, OwnerSeries DEF Series
  <2> QED BY <1>2, <1>3, <2>1, <2>2, GetOwnerPlaces DEF IInv
<1>5. CASE Contain(t[1], t[2])
  <2>1. /\ position = 4
        /\ IF HasOwnerships(t[1]) THEN AddContainer(t[1], t[2]) ELSE UNCHANGED ownerVars
    BY <1>2, <1>5, StageNumbers DEF Contain, Current
  <2> QED BY <1>2, <1>3, <2>1, AddContainerPlaces DEF IInv
<1>6. CASE Measure(t[1], t[2]) \/ Describe(t[1], t[2]) \/ Scale(t[1], t[2])
  <2>1. position # 4
    <3>1. Current.handler # "container"
      BY <1>6 DEF Measure, Describe, Scale
    <3> QED BY <1>2, <3>1, StageNumbers DEF Current
  <2>2. /\ objects' = [d \in Cluster |-> objects'[d]]
        /\ containers' = [d \in Cluster |-> containers'[d]]
        /\ \A d \in Cluster : /\ DOMAIN objects'[d] = DOMAIN objects[d]
                              /\ DOMAIN containers'[d] = DOMAIN containers[d]
        /\ UNCHANGED <<ownerships, detectedOwners, walk>>
    BY <1>3, <1>6, OthersKeep DEF PlacesInv, AllAtHome
  <2>3. \A c, s : Placed(c, s)' => Placed(c, s)
    BY <1>2, <2>1 DEF Placed
  <2> QED BY <1>2, <2>2, <2>3, OthersPlace DEF PlacesInv
<1> QED BY <1>1, <1>4, <1>5, <1>6

\* The containers' stage is asked about all series, and ends when all have been seen.
LEMMA OtherStepsPlace ==
  ASSUME IInv, PlacesInv, Ask \/ EndStage \/ SetUpWriters \/ UNCHANGED collectorVars
  PROVE  PlacesInv'
<1>1. UNCHANGED <<answers, ownerships, detectedOwners, walk, objects, containers>>
  BY DEF Ask, EndStage, SetUpWriters, collectorVars, dataVars, ownerVars
<1>2. /\ objects = [c \in Cluster |-> objects[c]] /\ containers = [c \in Cluster |-> containers[c]]
      /\ position \in Nat
  BY DEF PlacesInv, AllAtHome
<1>3. /\ position' \in Nat /\ (walk # NoWalk => position' = position)
      /\ (position' = 1 => position = 1) /\ (position' \in 1 .. 3 => position \in 1 .. 3)
      /\ \A c, s : Placed(c, s)' /\ c \in Cluster /\ s \in AnswersTo(c, "containerInfo") => Placed(c, s)
  <2>1. CASE Ask
    <3>1. UNCHANGED position
      BY <2>1 DEF Ask
    <3>2. ASSUME NEW c \in Cluster, NEW s \in AnswersTo(c, "containerInfo"), position = 4
          PROVE  <<c, s>> \in pending'
      <4>1. position \in DOMAIN Stages /\ Current.query = "containerInfo" /\ Current.given = "needed"
        BY <2>1, <3>2, StageNumbers DEF Ask, Done, Current
      <4>2. Given("needed")
        BY DEF Given
      <4>3. pending' = UNION {{d} \X AnswersTo(d, "containerInfo") : d \in Cluster}
        BY <2>1, <4>1, <4>2 DEF Ask
      <4> QED BY <4>3
    <3> QED BY <1>1, <1>2, <3>1, <3>2 DEF Placed
  <2>2. CASE EndStage
    <3>1. /\ asked /\ pending = {} /\ walk = NoWalk /\ ~asked'
          /\ position' \in {0, position + 1}
      BY <2>2 DEF EndStage
    <3>2. position \in DOMAIN Stages /\ position >= 1
      BY <3>1, StagesLength DEF IInv, Asking, Done
    <3> QED BY <1>2, <3>1, <3>2 DEF Placed
  <2>3. CASE SetUpWriters
    <3>1. position \in DOMAIN Stages /\ position > 4 /\ position' = position + 1
      BY <2>3, StageNumbers DEF SetUpWriters, Done, Current
    <3>2. walk = NoWalk
      BY <3>1 DEF PlacesInv, PathLeads
    <3> QED BY <1>2, <3>1, <3>2 DEF Placed
  <2>4. CASE UNCHANGED collectorVars
    <3>1. UNCHANGED <<position, asked, pending>>
      BY <2>4 DEF collectorVars, stageVars
    <3> QED BY <1>1, <1>2, <3>1 DEF Placed
  <2> QED BY <2>1, <2>2, <2>3, <2>4
<1> QED BY <1>1, <1>2, <1>3, OthersPlace

\* A step of a walk.
LEMMA WalkingPlaces ==
  ASSUME IInv, PlacesInv, Walking
  PROVE  PlacesInv'
<1>1. UNCHANGED <<answers, position, asked, pending>>
  BY DEF Walking, stageVars
<1> QED BY <1>1, ClimbPlaces, ReachTopPlaces DEF Walking, IInv

\* Every step, and the beginning.
LEMMA StepPlaces == IInv /\ PlacesInv /\ [Next]_vars => PlacesInv'
<1> SUFFICES ASSUME IInv, PlacesInv, [Next]_vars PROVE PlacesInv'
  OBVIOUS
<1>1. CASE Collecting
  BY <1>1, SeriesPlaces, WalkingPlaces, OtherStepsPlace DEF Collecting
<1>2. CASE WriteFiles \/ Separate \/ NextPhase \/ SingleQuery \/ UNCHANGED vars
  <2>1. UNCHANGED collectorVars
    BY <1>2 DEF WriteFiles, Separate, NextPhase, SingleQuery, vars
  <2> QED BY <2>1, OtherStepsPlace
<1> QED BY <1>1, <1>2 DEF Next

LEMMA InitPlaces == Init => PlacesInv
BY DEF Init, CollectorInit, OwnersInit, PlacesInv, OwnersRelevant, TopsAgree, PathLeads,
   AllAtHome, Placed

\* Once all containers have been reported, in any clusters whose owners outrank what
\* they own, the owners a later series of the same pod looks up (getOwner) lead to where
\* the walk has placed its container, in an object that counts as relevant.
THEOREM ContainersFound == Spec => []HomeFound
<1>1. PlacesInv => HomeFound
  <2> SUFFICES ASSUME PlacesInv, Past("containerInfo"), NEW c \in Cluster,
                      NEW s \in AnswersTo(c, "containerInfo"), Placeable(c, s)
               PROVE  \E k \in getOwner(c, <<"pod", s.pod>>, s.namespace) :
                        /\ <<k, s.container>> \in DOMAIN containers[c]
                        /\ isRelevant(c, Id(k), s.namespace)
    BY DEF HomeFound, Placeable
  <2>1. StageOf("containerInfo") = 4
    <3>1. 4 \in DOMAIN Stages
      BY StagesLength
    <3> QED BY <3>1, StageNumbers DEF StageOf
  <2>2. AtHome(c, s)
    BY <2>1 DEF Past, PlacesInv, AllAtHome, Placed
  <2> DEFINE k == PodKey(s)
             home == Key(TopLevelOwner(ownerships[c][k]), s.namespace)
  <2>3. home \in getOwner(c, <<"pod", s.pod>>, s.namespace)
    BY <2>2 DEF AtHome, getOwner, getOwnerId, PodKey
  <2>4. isRelevant(c, Id(home), s.namespace)
    <3>1. home[1] = "pod" \/ home \in detectedOwners[c]
      BY <2>2 DEF AtHome, RelevantKey
    <3>2. Id(home)[1] = home[1] /\ Key(Id(home), s.namespace) = home
      BY DEF Id, Key
    <3> QED BY <3>1, <3>2 DEF isRelevant
  <2> QED BY <2>2, <2>3, <2>4 DEF AtHome
<1> QED BY <1>1, InitPlaces, StepPlaces, OwnershipInvariant, PTL DEF Spec

-----------------------------------------------------------------------------
(***************************************************************************)
(* What is recorded and written of the containers, on top of where they    *)
(* are placed: no container has two rows in a file, the queries for time   *)
(* series reach all of them, the legacy queries for limits and requests    *)
(* the clusters that need them, each row has the columns of its header     *)
(* (but for one file's, which are shifted), and autoscalers have the       *)
(* targets they name.                                                      *)
(***************************************************************************)

\* No container has a second row in a file but that of sizes, and until the files
\* are closed it's known which have one.
RowsKnown ==
  \A r \in DOMAIN rows : r[2] # "currentSize" =>
    /\ Len(rows[r]) <= 1
    /\ ~Done => <<r[2], r[1], r[3]>> \in written

\* None of the files a metric of containers goes to is that of sizes.
LEMMA FilesOfEffects ==
  \A e \in Effects : e.file # "currentSize" \/ e.file = None
<1>1. \A m, r, a, f, x : Effect(m, r, a, f, x).file = f
  BY DEF Effect
<1> QED BY <1>1 DEF Effects

\* Writing a workload file.
LEMMA WriteWorkloadRows ==
  ASSUME RowsKnown, ~Done, NEW f, NEW c, NEW cids, NEW all, NEW s,
         f # "currentSize" => ~all, WriteWorkload(f, c, cids, all, s), UNCHANGED position
  PROVE  RowsKnown'
<1> DEFINE told == {cid \in cids : all \/ ShouldWrite(f, c, cid)}
           fails == c \notin writers[f] /\ <<c, f>> \in unwritable
           keys == {<<c, f, cid>> : cid \in told}
<1>1. written \subseteq written'
      /\ (~all => \A cid \in cids : <<f, c, cid>> \in written')
  BY DEF WriteWorkload
<1>2. rows' = rows \/ rows' = [r \in DOMAIN rows \cup keys |->
                                IF r \notin keys THEN rows[r]
                                ELSE IF r \in DOMAIN rows THEN Append(rows[r], s.value)
                                ELSE <<s.value>>]
  BY DEF WriteWorkload
<1> SUFFICES ASSUME NEW r \in DOMAIN rows', r[2] # "currentSize"
             PROVE  Len(rows'[r]) <= 1 /\ <<r[2], r[1], r[3]>> \in written'
  BY DEF RowsKnown
<1>3. CASE rows' = rows \/ r \notin keys
  <2>1. r \in DOMAIN rows /\ rows'[r] = rows[r]
    BY <1>2, <1>3
  <2> QED BY <1>1, <2>1 DEF RowsKnown
<1>4. CASE rows' # rows /\ r \in keys
  <2>1. PICK cid \in told : r = <<c, f, cid>>
    BY <1>4
  <2>2. ~all /\ <<f, c, cid>> \notin written /\ <<f, c, cid>> \in written'
    BY <1>1, <2>1 DEF ShouldWrite
  <2>3. r \notin DOMAIN rows
    BY <2>1, <2>2 DEF RowsKnown
  <2>4. rows'[r] = <<s.value>>
    BY <1>2, <1>4, <2>3
  <2> QED BY <2>1, <2>2, <2>4
<1> QED BY <1>3, <1>4

\* A series of a metric of containers writes at most one file.
LEMMA MeasureRows ==
  ASSUME RowsKnown, ~Done, NEW c, NEW s, Measure(c, s), UNCHANGED position
  PROVE  RowsKnown'
<1> DEFINE metric == Current.metric
           named == {e.file : e \in EffectsOf(metric, c, s)} \ {None}
           f == CHOOSE f \in named : TRUE
<1>1. CASE UNCHANGED <<writers, written, rows>>
  BY <1>1 DEF RowsKnown, Done
<1>2. CASE ~UNCHANGED <<writers, written, rows>>
  <2>1. named # {}
        /\ \E found : WriteWorkload(f, c, found, FALSE, s)
    BY <1>2 DEF Measure, GetContainerMetric
  <2>2. f \in named
    BY <2>1
  <2>3. f # "currentSize"
    BY <2>2, FilesOfEffects DEF EffectsOf
  <2> HIDE DEF f
  <2>4. PICK found : WriteWorkload(f, c, found, FALSE, s)
    BY <2>1
  <2> QED BY <2>3, <2>4, WriteWorkloadRows
<1> QED BY <1>1, <1>2

\* A series about an object writes at most the file of sizes.
LEMMA DescribeRows ==
  ASSUME RowsKnown, ~Done, NEW c, NEW s, Describe(c, s), UNCHANGED position
  PROVE  RowsKnown'
<1>1. CASE UNCHANGED <<writers, written, rows>>
  BY <1>1 DEF RowsKnown, Done
<1>2. CASE ~UNCHANGED <<writers, written, rows>>
  <2>1. PICK found : WriteWorkload("currentSize", c, found, TRUE, s)
    BY <1>2 DEF Describe, GetObjectLabels, GetObjectMetric, GetOwnedObjectMetric,
       SetObjectMetric, GetNamespaceMetric, metricVars
  <2> QED BY <2>1, WriteWorkloadRows
<1> QED BY <1>1, <1>2

\* Every step.
LEMMA StepRows == IInv /\ RowsKnown /\ [Next]_vars => RowsKnown'
<1> SUFFICES ASSUME IInv, RowsKnown, [Next]_vars PROVE RowsKnown'
  OBVIOUS
<1>1. CASE Series
  <2>1. PICK t \in pending :
          /\ TakeSeries(t[1], t[2])
          /\ \/ Own(t[1], t[2])
             \/ Contain(t[1], t[2])
             \/ Measure(t[1], t[2])
             \/ Describe(t[1], t[2])
             \/ Scale(t[1], t[2])
    BY <1>1 DEF Series
  <2>2. ~Done /\ UNCHANGED position
    BY <1>1, <2>1 DEF Series, TakeSeries
  <2>3. CASE Own(t[1], t[2]) \/ Contain(t[1], t[2]) \/ Scale(t[1], t[2])
    <3>1. UNCHANGED <<written, rows>>
      BY <2>3 DEF Own, Contain, Scale, GetHpa, GetHpaLabels, UnchangedButHpas, metricVars
    <3> QED BY <2>2, <3>1 DEF RowsKnown, Done
  <2> QED BY <2>1, <2>2, <2>3, MeasureRows, DescribeRows
<1>2. CASE Ask \/ Walking \/ EndStage \/ UNCHANGED collectorVars
  <2>1. UNCHANGED <<written, rows>>
    BY <1>2 DEF Ask, Walking, EndStage, collectorVars, dataVars, metricVars
  <2>2. ~Done' => ~Done
    BY <1>2 DEF Ask, Walking, EndStage, collectorVars, stageVars, IInv, Asking, Done
  <2> QED BY <2>1, <2>2 DEF RowsKnown
<1>3. CASE SetUpWriters
  <2>1. rows' = rows /\ ~Done /\ position' = position + 1
    BY <1>3 DEF SetUpWriters
  <2>2. CASE Current.handler = "addWriters"
    <3>1. written' = written
      BY <1>3, <2>2 DEF SetUpWriters
    <3> QED BY <2>1, <3>1 DEF RowsKnown
  <2>3. CASE Current.handler = "closeWriters"
    <3>1. position = Len(Stages)
      BY <2>1, <2>3, StageNumbers DEF Done, Current
    <3>2. Done'
      <4>1. DOMAIN Stages = 1 .. Len(Stages) /\ Len(Stages) \in Nat
        BY StagesKnown
      <4>2. position' = Len(Stages) + 1
        BY <2>1, <3>1
      <4>3. position' \notin DOMAIN Stages
        BY ONLY <4>1, <4>2
      <4> QED BY <4>3 DEF Done
    <3> QED BY <2>1, <3>2 DEF RowsKnown
  <2> QED BY <1>3, <2>2, <2>3 DEF SetUpWriters
<1>4. CASE WriteFiles \/ Separate \/ NextPhase \/ SingleQuery \/ UNCHANGED vars
  <2>1. UNCHANGED collectorVars
    BY <1>4 DEF WriteFiles, Separate, NextPhase, SingleQuery, vars
  <2> QED BY <1>2, <2>1
<1> QED BY <1>1, <1>2, <1>3, <1>4 DEF Next, Collecting

\* Each container has at most one row in each workload file but that of sizes, however
\* many of its metrics go to the file.
THEOREM OneRowEach == Spec => []RowsOnce
<1>1. Init => RowsKnown
  BY DEF Init, CollectorInit, MetricsInit, RowsKnown
<1>2. RowsKnown => RowsOnce
  BY DEF RowsKnown, RowsOnce
<1> QED BY <1>1, <1>2, StepRows, OwnershipInvariant, PTL DEF Spec

-----------------------------------------------------------------------------
\* The kinds of relevant owners that have owners themselves were detected.
TypesDetected ==
  \A c \in Cluster : \A k \in DOMAIN ownerships[c] :
    k[1] # "pod" /\ k \in detectedOwners[c] => \E t \in detectedOwnershipTypes : t[1] = k[1]

\* Each container's object is joined with pods by one of the clauses.
AllGrouped ==
  \A c \in Cluster : \A cid \in DOMAIN containers[c] :
    \E group \in buildGroupClauses : Grouped(c, cid, group)

\* There are no containers before their stage.
NoneYet == position \in 1 .. 3 => \A c \in Cluster : DOMAIN containers[c] = {}

\* The clauses chosen by the kinds of owners that were detected reach every container.
GroupsInv == TypesDetected /\ AllGrouped /\ NoneYet

\* Ownerships that are there stay what they are as to their direct owners.
OwnersStay ==
  \A c \in Cluster : \A k \in DOMAIN ownerships[c] :
    k \in DOMAIN ownerships'[c] /\ ownerships'[c][k].direct = ownerships[c][k].direct

\* Then a container that is joined with pods by a clause remains so.
LEMMA GroupedKept ==
  ASSUME OwnersStay, NEW c \in Cluster, NEW cid, NEW group, Grouped(c, cid, group)
  PROVE  Grouped(c, cid, group)'
<1>1. PICK k \in DOMAIN ownerships[c] :
        LET owner == Key(ownerships[c][k].direct, k[3])
            isParent == owner \in DOMAIN ownerships[c] /\ owner # k
        IN /\ k[1] = "pod"
           /\ CASE group = "unowned" -> cid[1] = k /\ owner = k
                [] group = "owned" -> cid[1] = owner
                [] OTHER -> /\ owner[1] = group /\ isParent
                            /\ cid[1] = Key(ownerships[c][owner].direct, k[3])
  BY DEF Grouped
<1>2. k \in DOMAIN ownerships'[c] /\ ownerships'[c][k].direct = ownerships[c][k].direct
  BY DEF OwnersStay
<1> DEFINE owner == Key(ownerships[c][k].direct, k[3])
<1>3. owner \in DOMAIN ownerships[c] =>
        owner \in DOMAIN ownerships'[c] /\ ownerships'[c][owner].direct = ownerships[c][owner].direct
  BY DEF OwnersStay
<1>4. /\ k[1] = "pod"
      /\ CASE group = "unowned" -> cid[1] = k /\ owner = k
           [] group = "owned" -> cid[1] = owner
           [] OTHER -> /\ owner[1] = group /\ owner \in DOMAIN ownerships'[c] /\ owner # k
                       /\ cid[1] = Key(ownerships'[c][owner].direct, k[3])
  BY <1>1, <1>3
<1>5. Key(ownerships'[c][k].direct, k[3]) = owner
  BY <1>2
<1> HIDE DEF owner
<1> QED BY <1>2, <1>4, <1>5 DEF Grouped

\* Steps that know no more owners and place no container.
LEMMA GroupsKept ==
  ASSUME GroupsInv, UNCHANGED <<ownerships, detectedOwners, detectedOwnershipTypes>>,
         position' \in 1 .. 3 => position \in 1 .. 3,
         \A c \in Cluster : DOMAIN containers'[c] = DOMAIN containers[c]
  PROVE  GroupsInv'
<1>1. TypesDetected'
  BY DEF GroupsInv, TypesDetected
<1>2. OwnersStay
  BY DEF OwnersStay
<1>3. buildGroupClauses' = buildGroupClauses
  BY DEF buildGroupClauses
<1>4. AllGrouped'
  BY <1>2, <1>3, GroupedKept DEF GroupsInv, AllGrouped
<1> QED BY <1>1, <1>4 DEF GroupsInv, NoneYet

\* A series about an owner, before there are containers.
LEMMA GetOwnerGroups ==
  ASSUME AllOwned, PlacesInv, GroupsInv, position \in 1 .. 3, UNCHANGED position,
         NEW kind, IF position = 1 THEN kind = "pod" ELSE Rank(kind) = 1,
         NEW c \in Cluster, NEW s,
         HasLabels(s, {"namespace", "owner_kind", "owner_name"}) =>
           Rank(ToLower(s.owner_kind)) > Rank(kind),
         GetOwner(kind, c, s)
  PROVE  GroupsInv'
<1>1. AllGrouped' /\ NoneYet'
  BY DEF GetOwner, GroupsInv, AllGrouped, NoneYet
<1>2. CASE ~HasLabels(s, {"namespace", "owner_kind", "owner_name"})
  BY <1>2, GroupsKept DEF GetOwner
<1>3. CASE HasLabels(s, {"namespace", "owner_kind", "owner_name"})
  <2> DEFINE new == newOwnership(s.owner_kind, s.owner_name)
             owned == <<kind, s[TypeLabelName(kind)]>>
             k == Key(owned, s.namespace)
             up == Key(new.direct, s.namespace)
  <2>1. /\ ownerships' = [ownerships EXCEPT ![c] = Assigned(@, k, new)]
        /\ detectedOwners' = IF RelevantKey(c, k)
                             THEN [detectedOwners EXCEPT ![c] = @ \cup {up}]
                             ELSE detectedOwners
        /\ detectedOwnershipTypes' = IF RelevantKey(c, k)
                                     THEN detectedOwnershipTypes \cup {<<kind, c, new.direct[1]>>}
                                     ELSE detectedOwnershipTypes
    BY <1>3 DEF GetOwner, isRelevant, RelevantKey, Key
  <2>2. Rank(up[1]) > Rank(kind) /\ k[1] = kind
    BY <1>3 DEF newOwnership, Key
  <2> HIDE DEF new, owned, k, up
  <2>3. /\ DOMAIN ownerships'[c] = {k} \cup DOMAIN ownerships[c]
        /\ \A d \in Cluster : d # c => ownerships'[d] = ownerships[d]
    BY <2>1 DEF AllOwned, Assigned
  <2>4. /\ \A d \in Cluster : d # c => detectedOwners'[d] = detectedOwners[d]
        /\ detectedOwners'[c] = IF RelevantKey(c, k) THEN detectedOwners[c] \cup {up}
                                ELSE detectedOwners[c]
    BY <2>1 DEF PlacesInv, OwnersRelevant
  <2>5. ASSUME NEW d \in Cluster, NEW x \in DOMAIN ownerships'[d], x[1] # "pod",
               x \in detectedOwners'[d]
        PROVE  \E t \in detectedOwnershipTypes' : t[1] = x[1]
    <3>1. CASE d # c
      BY <2>1, <2>3, <2>4, <2>5, <3>1 DEF GroupsInv, TypesDetected
    <3>2. CASE d = c /\ x # k
      <4>1. x \in DOMAIN ownerships[c]
        BY <2>3, <2>5, <3>2
      <4>2. Rank(x[1]) = 1 /\ Rank(kind) = 1
        BY <2>5, <4>1 DEF PlacesInv, OwnersRelevant
      <4>3. x # up
        BY <2>2, <4>2
      <4> QED BY <2>1, <2>4, <2>5, <3>2, <4>1, <4>3 DEF GroupsInv, TypesDetected
    <3>3. CASE d = c /\ x = k
      <4>1. k # up
        BY <2>2 DEF Rank
      <4>2. RelevantKey(c, k)
        BY <2>4, <2>5, <3>3, <4>1 DEF RelevantKey
      <4>3. <<kind, c, new.direct[1]>> \in detectedOwnershipTypes'
        BY <2>1, <4>2
      <4> QED BY <2>2, <3>3, <4>3
    <3> QED BY <3>1, <3>2, <3>3
  <2> QED BY <1>1, <2>5 DEF GroupsInv, TypesDetected
<1> QED BY <1>2, <1>3

\* A container has been placed in the object of this key.
LEMMA PlacedGrouped ==
  ASSUME containers = [d \in Cluster |-> containers[d]], GroupsInv, OwnersStay,
         UNCHANGED <<detectedOwners, detectedOwnershipTypes>>,
         DOMAIN ownerships' = DOMAIN ownerships,
         \A d \in Cluster : \A k \in DOMAIN ownerships'[d] : k \in DOMAIN ownerships[d] \/ k[1] = "pod",
         position \notin 1 .. 3, UNCHANGED position,
         NEW c \in Cluster, NEW s, NEW owner, Place(c, s, owner),
         NEW group \in buildGroupClauses,
         Grouped(c, <<Key(owner, s.namespace), s.container>>, group)'
  PROVE  GroupsInv'
<1> DEFINE new == <<Key(owner, s.namespace), s.container>>
           made == NewContainer(s)
<1>1. containers' = [containers EXCEPT ![c] = Assigned(@, new, made)]
  BY DEF Place
<1>2. Grouped(c, new, group)'
  OBVIOUS
<1> HIDE DEF new, made
<1>3. \A d \in Cluster : \A cid \in DOMAIN containers'[d] :
        cid \in DOMAIN containers[d] \/ (d = c /\ cid = new)
  BY <1>1 DEF Assigned
<1>4. buildGroupClauses' = buildGroupClauses
  BY DEF buildGroupClauses
<1>5. new' = new
  BY DEF new
<1>6. AllGrouped'
  <2> SUFFICES ASSUME NEW d \in Cluster, NEW cid \in DOMAIN containers'[d]
               PROVE  \E g \in buildGroupClauses : Grouped(d, cid, g)'
    BY <1>4 DEF AllGrouped
  <2>1. CASE cid \in DOMAIN containers[d]
    BY <2>1, GroupedKept DEF GroupsInv, AllGrouped
  <2>2. CASE d = c /\ cid = new
    BY <1>2, <1>5, <2>2
  <2> QED BY <1>3, <2>1, <2>2
<1>7. TypesDetected'
  BY DEF GroupsInv, TypesDetected
<1> QED BY <1>6, <1>7 DEF GroupsInv, NoneYet

\* A series about a container whose pod has no owner.
LEMMA AddContainerGroups ==
  ASSUME AllOwned, PlacesInv, GroupsInv, position = 4, UNCHANGED position,
         NEW c \in Cluster, NEW s, AddContainer(c, s)
  PROVE  GroupsInv'
<1>1. CASE UNCHANGED <<ownerships, containers>>
  BY <1>1, GroupsKept DEF AddContainer
<1>2. CASE ~UNCHANGED <<ownerships, containers>>
  <2> DEFINE new == newOwnership("pod", s.pod)
             k == PodKey(s)
             self == <<"pod", s.pod>>
  <2>1. /\ k \notin DOMAIN ownerships[c]
        /\ ownerships' = [ownerships EXCEPT ![c] = Assigned(@, k, new)]
        /\ Place(c, s, self)
        /\ UNCHANGED <<detectedOwners, detectedOwnershipTypes>>
    BY <1>2 DEF AddContainer
  <2>2. new.direct = self /\ Key(self, s.namespace) = k /\ k[1] = "pod" /\ Key(self, k[3]) = k
    BY DEF newOwnership, ToLower, PodKey, Key
  <2> HIDE DEF new, k, self
  <2>3. /\ ownerships'[c] = [x \in {k} \cup DOMAIN ownerships[c] |->
                               IF x = k THEN new ELSE ownerships[c][x]]
        /\ \A d \in Cluster : d # c => ownerships'[d] = ownerships[d]
        /\ DOMAIN ownerships' = DOMAIN ownerships
    BY <2>1 DEF AllOwned, Assigned
  <2>4. OwnersStay
    BY <2>1, <2>3 DEF OwnersStay
  <2>5. \A d \in Cluster : \A x \in DOMAIN ownerships'[d] : x \in DOMAIN ownerships[d] \/ x[1] = "pod"
    BY <2>2, <2>3
  <2>6. Grouped(c, <<Key(self, s.namespace), s.container>>, "unowned")'
    <3>1. k \in DOMAIN ownerships'[c] /\ ownerships'[c][k].direct = self
      BY <2>2, <2>3
    <3> DEFINE cid == <<Key(self, s.namespace), s.container>>
    <3>2. cid[1] = k /\ Key(ownerships'[c][k].direct, k[3]) = k
      BY <2>2, <3>1
    <3>3. cid' = cid
      BY DEF self
    <3> HIDE DEF cid
    <3>4. Grouped(c, cid, "unowned")'
      BY <2>2, <3>1, <3>2, <3>3 DEF Grouped
    <3> QED BY <3>4 DEF cid
  <2>7. "unowned" \in buildGroupClauses
    BY DEF buildGroupClauses
  <2>8. containers = [d \in Cluster |-> containers[d]]
    BY DEF PlacesInv, AllAtHome
  <2> QED BY <2>1, <2>3, <2>4, <2>5, <2>6, <2>7, <2>8, PlacedGrouped
<1> QED BY <1>1, <1>2

\* A walk has at most two ownerships, as only what may own pods can be owned too.
LEMMA PathTwo ==
  ASSUME Rising, PlacesInv, walk # NoWalk
  PROVE  Len(walk.path) \in 1 .. 2
<1> DEFINE path == walk.path
           n == Len(path)
<1>1. /\ n \in 1 .. 3
      /\ \A i \in 2 .. n : path[i][1] # "pod" /\ path[i] \in DOMAIN ownerships[walk.cluster]
      /\ \A i, j \in 1 .. n : i < j => Rank(path[i][1]) < Rank(path[j][1])
      /\ walk.cluster \in Cluster
  BY PathShort DEF Rising
<1> HIDE DEF path, n
<1>2. \A i \in 2 .. n : Rank(path[i][1]) = 1
  BY <1>1 DEF PlacesInv, OwnersRelevant
<1>3. n # 3
  <2>1. SUFFICES ASSUME n = 3 PROVE FALSE
    OBVIOUS
  <2>2. Rank(path[2][1]) < Rank(path[3][1]) /\ Rank(path[2][1]) = 1 /\ Rank(path[3][1]) = 1
    BY <1>1, <1>2, <2>1
  <2> QED BY <2>2
<1>4. n \in 1 .. 2
  BY <1>1, <1>3
<1> QED BY <1>4 DEF n, path

\* The end of a walk: the container's pod is joined with its owner's object, or
\* its owner is joined with that of its own owner.
LEMMA ReachTopGroups ==
  ASSUME AllOwned, Rising, PlacesInv, GroupsInv, ReachTop, UNCHANGED position
  PROVE  GroupsInv'
<1>0. PICK c, s, path, end :
        /\ c = walk.cluster /\ s = walk.series /\ path = walk.path
        /\ end = ownerships[c][path[Len(path)]].direct
  OBVIOUS
<1> DEFINE n == Len(path)
           k == path[1]
           top == path[n]
           new == <<Key(end, s.namespace), s.container>>
<1>1. walk # NoWalk /\ UNCHANGED <<detectedOwners, detectedOwnershipTypes>>
  BY DEF ReachTop
<1>2. /\ n \in 1 .. 2 /\ c \in Cluster
      /\ \A i \in 1 .. n : path[i] \in DOMAIN ownerships[c] /\ path[i][3] = s.namespace
      /\ \A i \in 2 .. n : path[i][1] # "pod"
  BY <1>0, <1>1, PathShort, PathTwo DEF Rising
<1>3. /\ position = 4 /\ k = PodKey(s)
      /\ \A i \in 1 .. n : RelevantKey(c, path[i])
      /\ \A i \in 1 .. n - 1 : Leads(c, path[i]) /\ path[i + 1] = ParentOf(c, path[i])
  BY <1>0, <1>1 DEF PlacesInv, PathLeads
<1>4. ~Leads(c, top) /\ Here.direct = end /\ Here = ownerships[c][top]
  BY <1>0, <1>1, HasParentLeads DEF ReachTop, Here
<1>5. Here.top = None /\ TopLevelOwner(Here) = end
  BY <1>2, <1>4 DEF PlacesInv, TopsAgree, TopLevelOwner
<1>6. /\ Place(c, s, end)
      /\ ownerships' = [ownerships EXCEPT ![c] = Told(@, path, end)]
  BY <1>0, <1>4, <1>5 DEF ReachTop
<1>7. /\ DOMAIN ownerships'[c] = DOMAIN ownerships[c]
      /\ DOMAIN ownerships' = DOMAIN ownerships
      /\ \A x \in DOMAIN ownerships[c] : ownerships'[c][x].direct = ownerships[c][x].direct
      /\ \A d \in Cluster : d # c => ownerships'[d] = ownerships[d]
  <2>1. /\ ownerships'[c] = Told(ownerships[c], path, end)
        /\ \A d \in Cluster : d # c => ownerships'[d] = ownerships[d]
        /\ DOMAIN ownerships' = DOMAIN ownerships
    BY <1>2, <1>6 DEF AllOwned
  <2>2. ASSUME NEW x \in DOMAIN ownerships[c]
        PROVE  ownerships'[c][x].direct = ownerships[c][x].direct
    <3>1. ownerships[c][x] = [direct |-> ownerships[c][x].direct, top |-> ownerships[c][x].top]
      BY <1>2 DEF AllOwned, Owned
    <3> DEFINE o == ownerships[c][x]
    <3>2. [o EXCEPT !.top = end].direct = o.direct
      BY <3>1
    <3> QED BY <2>1, <3>2 DEF Told
  <2> QED BY <2>1, <2>2 DEF Told
<1>8. OwnersStay
  BY <1>7 DEF OwnersStay
<1>9. k[1] = "pod" /\ k[3] = s.namespace
  BY <1>3 DEF PodKey, Key
<1>10. \E group \in buildGroupClauses : Grouped(c, new, group)
  <2>1. CASE n = 1
    <3>1. Key(ownerships[c][k].direct, k[3]) = new[1]
      BY <1>0, <1>9, <2>1
    <3>2. Grouped(c, new, "owned")
      <4> HIDE DEF new, k
      <4> QED BY <1>2, <1>9, <3>1, <2>1 DEF Grouped, k
    <3> QED BY <3>2 DEF buildGroupClauses
  <2>2. CASE n = 2
    <3> DEFINE owner == path[2]
    <3>1. /\ owner = Key(ownerships[c][k].direct, k[3])
          /\ owner[1] # "pod" /\ owner \in DOMAIN ownerships[c] /\ k \in DOMAIN ownerships[c]
          /\ RelevantKey(c, owner)
      BY <1>2, <1>3, <2>2 DEF ParentOf
    <3>2. new[1] = Key(ownerships[c][owner].direct, k[3])
      BY <1>0, <1>9, <2>2
    <3> HIDE DEF owner, new, k
    <3>3. Rank(owner[1]) = 1
      BY <1>2, <3>1 DEF PlacesInv, OwnersRelevant
    <3>4. owner[1] \in {"replicaset", "job"}
      BY <3>3 DEF Rank
    <3>5. \E t \in detectedOwnershipTypes : t[1] = owner[1]
      BY <1>2, <3>1 DEF GroupsInv, TypesDetected, RelevantKey
    <3>6. owner[1] \in buildGroupClauses
      BY <3>4, <3>5 DEF buildGroupClauses
    <3>7. owner # k
      BY <1>9, <3>1 DEF k
    <3>8. Grouped(c, new, owner[1])
      BY <1>9, <3>1, <3>2, <3>4, <3>7 DEF Grouped, k
    <3> QED BY <3>6, <3>8
  <2> QED BY <1>2, <2>1, <2>2
<1>11. PICK group \in buildGroupClauses : Grouped(c, new, group)
  BY <1>10
<1>12. Grouped(c, new, group)'
  <2> HIDE DEF new
  <2>1. PICK cid : cid = new
    OBVIOUS
  <2>2. Grouped(c, cid, group)'
    BY <1>2, <1>8, <1>11, <2>1, GroupedKept
  <2>3. new' = new
    BY DEF new
  <2> QED BY <2>1, <2>2, <2>3
<1>13. containers = [d \in Cluster |-> containers[d]]
  BY DEF PlacesInv, AllAtHome
<1>14. \A d \in Cluster : \A x \in DOMAIN ownerships'[d] : x \in DOMAIN ownerships[d] \/ x[1] = "pod"
  BY <1>7
<1> HIDE DEF n, k, top
<1> QED BY <1>1, <1>2, <1>3, <1>6, <1>7, <1>8, <1>11, <1>12, <1>13, <1>14, PlacedGrouped

\* Every step.
LEMMA StepGroups == IInv /\ PlacesInv /\ GroupsInv /\ [Next]_vars => GroupsInv'
<1> SUFFICES ASSUME IInv, PlacesInv, GroupsInv, [Next]_vars PROVE GroupsInv'
  OBVIOUS
<1>1. CASE Series
  <2>1. PICK t \in pending :
          /\ TakeSeries(t[1], t[2])
          /\ \/ Own(t[1], t[2])
             \/ Contain(t[1], t[2])
             \/ Measure(t[1], t[2])
             \/ Describe(t[1], t[2])
             \/ Scale(t[1], t[2])
    BY <1>1 DEF Series
  <2>2. /\ asked /\ UNCHANGED position /\ position \in DOMAIN Stages /\ ~Done
    BY <1>1, <2>1 DEF TakeSeries, Series, Done
  <2>3. t[1] \in Cluster
    BY <2>2 DEF IInv, Asking
  <2>4. CASE Own(t[1], t[2])
    <3>1. GetOwner(Current.kind, t[1], t[2])
      BY <2>4 DEF Own
    <3>2. /\ position \in 1 .. 3
          /\ IF position = 1 THEN Current.kind = "pod" ELSE Rank(Current.kind) = 1
          /\ HasLabels(t[2], {"namespace", "owner_kind", "owner_name"}) =>
               Rank(ToLower(t[2].owner_kind)) > Rank(Current.kind)
      BY <2>1, <2>2, <2>4, OwnerSeries
    <3> QED BY <2>2, <2>3, <3>1, <3>2, GetOwnerGroups DEF IInv
  <2>5. CASE Contain(t[1], t[2])
    <3>1. /\ position = 4
          /\ AddContainer(t[1], t[2]) \/ UNCHANGED ownerVars
      BY <2>2, <2>5, StageNumbers DEF Contain, Current
    <3>2. CASE UNCHANGED ownerVars
      BY <2>2, <3>1, <3>2, GroupsKept DEF ownerVars
    <3> QED BY <2>2, <2>3, <3>1, <3>2, AddContainerGroups DEF IInv
  <2>6. CASE Measure(t[1], t[2]) \/ Describe(t[1], t[2]) \/ Scale(t[1], t[2])
    BY <2>2, <2>3, <2>6, OthersKeep, GroupsKept DEF PlacesInv, AllAtHome
  <2> QED BY <2>1, <2>4, <2>5, <2>6
<1>2. CASE Walking
  <2>1. UNCHANGED position
    BY <1>2 DEF Walking, stageVars
  <2>2. CASE Climb
    BY <2>1, <2>2, GroupsKept DEF Climb
  <2> QED BY <1>2, <2>1, <2>2, ReachTopGroups DEF Walking, IInv
<1>3. CASE Ask \/ EndStage \/ SetUpWriters \/ UNCHANGED collectorVars
  <2>1. UNCHANGED <<ownerships, detectedOwners, detectedOwnershipTypes, containers>>
    BY <1>3 DEF Ask, EndStage, SetUpWriters, collectorVars, dataVars, ownerVars
  <2>2. position' \in 1 .. 3 => position \in 1 .. 3
    <3>1. CASE Ask \/ UNCHANGED collectorVars
      BY <3>1 DEF Ask, collectorVars, stageVars
    <3>2. CASE EndStage
      <4>1. position' \in {0, position + 1} /\ position \in DOMAIN Stages
        BY <3>2 DEF EndStage, IInv, Asking, Done
      <4>2. position \in Nat /\ position >= 1
        BY <4>1, StagesLength
      <4> QED BY <4>1, <4>2
    <3>3. CASE SetUpWriters
      <4>1. position > 4 /\ position' = position + 1
        BY <3>3, StageNumbers DEF SetUpWriters, Done, Current
      <4> QED BY <4>1 DEF PlacesInv
    <3> QED BY <1>3, <3>1, <3>2, <3>3
  <2> QED BY <2>1, <2>2, GroupsKept
<1>4. CASE WriteFiles \/ Separate \/ NextPhase \/ SingleQuery \/ UNCHANGED vars
  <2>1. UNCHANGED collectorVars
    BY <1>4 DEF WriteFiles, Separate, NextPhase, SingleQuery, vars
  <2> QED BY <1>3, <2>1
<1> QED BY <1>1, <1>2, <1>3, <1>4 DEF Next, Collecting

\* Nothing is owned to begin with.
LEMMA InitGroups == Init => GroupsInv
BY DEF Init, CollectorInit, OwnersInit, GroupsInv, TypesDetected, AllGrouped, NoneYet

\* The aggregators a single query is got by: its own, or both.
AggregatorsOf(q) ==
  IF "aggregators" \in DOMAIN q.change THEN DOMAIN q.change.aggregators ELSE {"max", "avg"}

\* The aggregator in the name of the file.
NameOf(q, agg) == IF "aggregatorNames" \in DOMAIN q.change THEN q.change.aggregatorNames[agg] ELSE agg

\* It changes neither, or names its aggregator only, or (the last one) both.
Plain(q) ==
  "aggregators" \notin DOMAIN q.change /\ "aggregatorNames" \notin DOMAIN q.change
By(q, agg) ==
  /\ "aggregators" \in DOMAIN q.change /\ "aggregatorNames" \notin DOMAIN q.change
  /\ q.change.aggregators = Only(agg, "")
Named(q, agg, name) ==
  /\ "aggregators" \in DOMAIN q.change /\ "aggregatorNames" \in DOMAIN q.change
  /\ q.change.aggregators = Only(agg, "")
  /\ q.change.aggregatorNames = Only(agg, name)

\* The queries for GPUs by this aggregator.
LEMMA GpuKnown ==
  ASSUME NEW agg
  PROVE  /\ IsSequence(Gpu(agg)) /\ Len(Gpu(agg)) = 5
         /\ \A i \in 1 .. 5 : By(Gpu(agg)[i], agg)
         /\ Gpu(agg)[1].metric = "gpuUtilization" /\ Gpu(agg)[1].given = "gpu"
         /\ Gpu(agg)[2].metric = "gpuUtilizationGpus" /\ Gpu(agg)[2].given = "gpu"
         /\ Gpu(agg)[4].metric = "gpuMemUsed" /\ Gpu(agg)[4].given = "gpu"
<1>1. Len(Gpu(agg)) = 5 /\ Gpu(agg) = [i \in 1 .. 5 |-> Gpu(agg)[i]]
  BY DEF Gpu
<1>2. By(Gpu(agg)[1], agg) /\ By(Gpu(agg)[2], agg) /\ By(Gpu(agg)[3], agg) /\ By(Gpu(agg)[4], agg)
      /\ By(Gpu(agg)[5], agg)
  BY DEF Gpu, By
<1>3. /\ Gpu(agg)[1].metric = "gpuUtilization" /\ Gpu(agg)[1].given = "gpu"
      /\ Gpu(agg)[2].metric = "gpuUtilizationGpus" /\ Gpu(agg)[2].given = "gpu"
      /\ Gpu(agg)[4].metric = "gpuMemUsed" /\ Gpu(agg)[4].given = "gpu"
  BY DEF Gpu
<1> QED BY <1>1, <1>2, <1>3 DEF IsSequence

\* The single queries by their numbers.
LEMMA SinglesKnown ==
  /\ Len(SingleQueries) = 15 /\ DOMAIN SingleQueries = 1 .. 15
  /\ \A i \in 1 .. 4 : SingleQueries[i] = OtherQueries[i]
  /\ \A i \in 1 .. 5 : /\ SingleQueries[4 + i] = Gpu("avg")[i]
                       /\ SingleQueries[9 + i] = Gpu("max")[i]
  /\ SingleQueries[15] = RestartQueries[1]
<1>1. IsSequence(OtherQueries) /\ Len(OtherQueries) = 4
  BY DEF OtherQueries, IsSequence
<1>2. IsSequence(RestartQueries) /\ Len(RestartQueries) = 1
  BY DEF RestartQueries, IsSequence
<1>3. IsSequence(Gpu("avg")) /\ Len(Gpu("avg")) = 5 /\ IsSequence(Gpu("max")) /\ Len(Gpu("max")) = 5
  BY GpuKnown
<1> DEFINE a == OtherQueries
           b == Gpu("avg")
           c == Gpu("max")
           d == RestartQueries
           ab == a \o b
           abc == ab \o c
           abcd == abc \o d
<1>4. SingleQueries = abcd
  BY DEF SingleQueries
<1>5. IsSequence(a) /\ Len(a) = 4 /\ IsSequence(b) /\ Len(b) = 5 /\ IsSequence(c) /\ Len(c) = 5
      /\ IsSequence(d) /\ Len(d) = 1
  BY <1>1, <1>2, <1>3
<1> HIDE DEF a, b, c, d
<1>6. /\ IsSequence(ab) /\ Len(ab) = 4 + 5
      /\ \A i \in 1 .. 4 : ab[i] = a[i]
      /\ \A i \in 1 .. 5 : ab[4 + i] = b[i]
  <2>1. Len(a) = 4 /\ Len(b) = 5
    BY <1>5
  <2>2. IsJoin(a \o b, a, b)
    BY ONLY <1>5, JoinedAt
  <2> QED BY ONLY <2>1, <2>2 DEF IsJoin
<1> HIDE DEF ab
<1>7. /\ IsSequence(abc) /\ Len(abc) = 9 + 5
      /\ \A i \in 1 .. 9 : abc[i] = ab[i]
      /\ \A i \in 1 .. 5 : abc[9 + i] = c[i]
  <2>1. Len(ab) = 9 /\ Len(c) = 5
    BY <1>5, <1>6
  <2>2. IsJoin(ab \o c, ab, c)
    BY ONLY <1>5, <1>6, JoinedAt
  <2> QED BY ONLY <2>1, <2>2 DEF IsJoin
<1> HIDE DEF abc
<1>8. /\ IsSequence(abcd) /\ Len(abcd) = 14 + 1
      /\ \A i \in 1 .. 14 : abcd[i] = abc[i]
      /\ \A i \in 1 .. 1 : abcd[14 + i] = d[i]
  <2>1. Len(abc) = 14 /\ Len(d) = 1
    BY <1>5, <1>7
  <2>2. IsJoin(abc \o d, abc, d)
    BY ONLY <1>5, <1>7, JoinedAt
  <2> QED BY ONLY <2>1, <2>2 DEF IsJoin
<1> HIDE DEF abcd
<1>9. DOMAIN abcd = 1 .. 15
  BY <1>8 DEF IsSequence
<1>10. \A i \in 1 .. 4 : abcd[i] = a[i]
  BY <1>6, <1>7, <1>8
<1>11. ASSUME NEW i \in 1 .. 5 PROVE abcd[4 + i] = b[i] /\ abcd[9 + i] = c[i]
  <2>1. 4 + i \in 1 .. 9 /\ 4 + i \in 1 .. 14 /\ 9 + i \in 1 .. 14
    OBVIOUS
  <2> QED BY ONLY <1>6, <1>7, <1>8, <2>1
<1>12. abcd[15] = d[1] /\ Len(abcd) = 15
  <2>1. 14 + 1 = 15 /\ 1 \in 1 .. 1
    OBVIOUS
  <2> QED BY ONLY <1>8, <2>1
<1> QED BY <1>4, <1>9, <1>10, <1>11, <1>12 DEF a, b, c, d

\* What the single queries set for those after them, and the metrics that are asked for.
LEMMA SinglesDo ==
  /\ \A i \in 1 .. 3 : Plain(SingleQueries[i])
  /\ \A i \in 4 .. 14 : \E agg \in {"max", "avg", "sum"} : By(SingleQueries[i], agg)
  /\ Named(SingleQueries[15], "sum", "max")
  /\ \A i \in 1 .. 15 : "metricName" \notin DOMAIN SingleQueries[i].change
<1>1. \A i \in 1 .. 3 : Plain(SingleQueries[i])
  <2>1. Plain(OtherQueries[1]) /\ Plain(OtherQueries[2]) /\ Plain(OtherQueries[3])
    BY DEF OtherQueries, Single, Plain
  <2>2. \A i \in 1 .. 3 : i = 1 \/ i = 2 \/ i = 3
    OBVIOUS
  <2> QED BY <2>1, <2>2, SinglesKnown
<1>2. By(SingleQueries[4], "sum")
  <2>1. By(OtherQueries[4], "sum")
    BY DEF OtherQueries, Single, By
  <2> QED BY <2>1, SinglesKnown
<1>3. \A i \in 5 .. 9 : By(SingleQueries[i], "avg")
  <2>1. ASSUME NEW i \in 5 .. 9 PROVE By(SingleQueries[i], "avg")
    <3>1. i - 4 \in 1 .. 5 /\ 4 + (i - 4) = i
      OBVIOUS
    <3>2. SingleQueries[i] = Gpu("avg")[i - 4]
      BY ONLY <3>1, SinglesKnown
    <3>3. By(Gpu("avg")[i - 4], "avg")
      BY <3>1, GpuKnown
    <3> QED BY ONLY <3>2, <3>3
  <2> QED BY <2>1
<1>4. \A i \in 10 .. 14 : By(SingleQueries[i], "max")
  <2>1. ASSUME NEW i \in 10 .. 14 PROVE By(SingleQueries[i], "max")
    <3>1. i - 9 \in 1 .. 5 /\ 9 + (i - 9) = i
      OBVIOUS
    <3>2. SingleQueries[i] = Gpu("max")[i - 9]
      BY ONLY <3>1, SinglesKnown
    <3>3. By(Gpu("max")[i - 9], "max")
      BY <3>1, GpuKnown
    <3> QED BY ONLY <3>2, <3>3
  <2> QED BY <2>1
<1>5. Named(RestartQueries[1], "sum", "max")
  BY DEF RestartQueries, Single, Named
<1>6. \A i \in 4 .. 14 : i = 4 \/ i \in 5 .. 9 \/ i \in 10 .. 14
  OBVIOUS
<1>7. ASSUME NEW i \in 1 .. 15 PROVE "metricName" \notin DOMAIN SingleQueries[i].change
  <2>1. ASSUME NEW j \in 1 .. 4 PROVE "metricName" \notin DOMAIN OtherQueries[j].change
    <3>1. j = 1 \/ j = 2 \/ j = 3 \/ j = 4
      OBVIOUS
    <3>2. /\ "metricName" \notin DOMAIN OtherQueries[1].change
          /\ "metricName" \notin DOMAIN OtherQueries[2].change
      BY DEF OtherQueries, Single
    <3>3. "metricName" \notin DOMAIN OtherQueries[3].change
      BY DEF OtherQueries, Single
    <3>4. "metricName" \notin DOMAIN OtherQueries[4].change
      BY DEF OtherQueries, Single
    <3> QED BY <3>1, <3>2, <3>3, <3>4
  <2>2. "metricName" \notin DOMAIN RestartQueries[1].change
    BY DEF RestartQueries, Single
  <2>3. ASSUME NEW agg, NEW j \in 1 .. 5 PROVE "metricName" \notin DOMAIN Gpu(agg)[j].change
    <3>1. j = 1 \/ j = 2 \/ j = 3 \/ j = 4 \/ j = 5
      OBVIOUS
    <3>2. /\ "metricName" \notin DOMAIN Gpu(agg)[1].change
          /\ "metricName" \notin DOMAIN Gpu(agg)[2].change
          /\ "metricName" \notin DOMAIN Gpu(agg)[3].change
          /\ "metricName" \notin DOMAIN Gpu(agg)[4].change
          /\ "metricName" \notin DOMAIN Gpu(agg)[5].change
      BY DEF Gpu
    <3> QED BY <3>1, <3>2
  <2>4. CASE i \in 1 .. 4
    BY <2>1, <2>4, SinglesKnown
  <2>5. CASE i \in 5 .. 9
    <3>1. i - 4 \in 1 .. 5 /\ 4 + (i - 4) = i
      BY <2>5
    <3> QED BY <2>3, <3>1, SinglesKnown
  <2>6. CASE i \in 10 .. 14
    <3>1. i - 9 \in 1 .. 5 /\ 9 + (i - 9) = i
      BY <2>6
    <3> QED BY <2>3, <3>1, SinglesKnown
  <2>7. CASE i = 15
    BY <2>2, <2>7, SinglesKnown
  <2> QED BY <2>4, <2>5, <2>6, <2>7
<1> QED BY <1>1, <1>2, <1>3, <1>4, <1>5, <1>6, <1>7, SinglesKnown

\* A time series has been asked for, under all names of labels that are used.
Made(m, agg, unit) ==
  \A h \in detectedHolders : \E call \in calls :
    /\ call.metric = m /\ call.aggregator = agg /\ call.unit = unit
    /\ call.holder = h /\ call.groups = buildGroupClauses

\* Of these separate queries, those that are left are yet to be asked.
SeparateMade(all, left) ==
  \A agg \in {"max", "avg"} : \A m \in all[agg] \ left[agg] : Made(m, agg, AggSuffix(m, agg))

\* A single query was asked, by each of its aggregators, unless its exporter isn't there.
SingleMade(q) ==
  Wanted(q.given) => \A agg \in AggregatorsOf(q) : Made(q.metric, NameOf(q, agg), "")

\* The aggregators as they are reset, and separate queries none of which is left.
Both == [a \in {"max", "avg"} |-> ""]
Nothing == [a \in {"max", "avg"} |-> {}]

\* What the query passed on holds as far as later metrics depend on it.
QueryKnown ==
  /\ wq = [metricName |-> wq.metricName, baseQuery |-> wq.baseQuery, hasSuffix |-> wq.hasSuffix,
           aggregatorAsSuffix |-> wq.aggregatorAsSuffix, aggregators |-> wq.aggregators,
           aggregatorNames |-> wq.aggregatorNames]
  /\ phase <= 4 => DOMAIN wq.aggregators \subseteq {"max", "avg"}
  /\ phase \in 5 .. 7 => wq.aggregators = Both
  /\ phase <= 19 => DOMAIN wq.aggregatorNames = {}

\* What has been asked for in each phase.
CallsKnown ==
  /\ phase = 3 => due = [a \in {"max", "avg"} |-> due[a]] /\ SeparateMade(cpuQueryMap, due)
  /\ phase = 4 => due = [a \in {"max", "avg"} |-> due[a]] /\ SeparateMade(memQueryMap, due)
  /\ phase > 3 => SeparateMade(cpuQueryMap, Nothing)
  /\ phase > 4 => SeparateMade(memQueryMap, Nothing)
  /\ \A i \in 1 .. 15 : phase > 4 + i => SingleMade(SingleQueries[i])

\* What the query passed on holds and what has been asked for, phase by phase.
CallsInv ==
  /\ phase \in 0 .. 20
  /\ phase # 0 => Finished
  /\ clusterLabelHolders = [c \in Cluster |-> clusterLabelHolders[c]]
  /\ \A c \in Cluster : clusterLabelHolders[c] # None => clusterLabelHolders[c] \in detectedHolders
  /\ QueryKnown
  /\ CallsKnown

\* A call asks for what its query says.
LEMMA WorkloadMade ==
  ASSUME NEW q, getWorkload(q), UNCHANGED <<detectedHolders, detectedOwnershipTypes>>,
         NEW agg \in DOMAIN q.aggregators
  PROVE  Made(q.metricName,
              IF agg \in DOMAIN q.aggregatorNames THEN q.aggregatorNames[agg] ELSE agg,
              q.aggregators[agg])'
<1> DEFINE name == IF agg \in DOMAIN q.aggregatorNames THEN q.aggregatorNames[agg] ELSE agg
           Call(h) == [metric |-> q.metricName, aggregator |-> name,
                       file |-> <<q.metricName, q.aggregatorAsSuffix, q.hasSuffix>>,
                       query |-> q.baseQuery, unit |-> q.aggregators[agg],
                       holder |-> h, groups |-> buildGroupClauses]
<1>1. \A h \in detectedHolders : Call(h) \in calls'
  BY DEF getWorkload
<1>2. \A h : /\ Call(h).metric = q.metricName /\ Call(h).aggregator = name
             /\ Call(h).unit = q.aggregators[agg] /\ Call(h).holder = h
             /\ Call(h).groups = buildGroupClauses
  OBVIOUS
<1>3. buildGroupClauses' = buildGroupClauses
  BY DEF buildGroupClauses
<1> HIDE DEF name, Call
<1>4. Made(q.metricName, name, q.aggregators[agg])'
  BY <1>1, <1>2, <1>3 DEF Made
<1> QED BY <1>4 DEF name

\* What has been asked for remains so.
LEMMA MadeKept ==
  ASSUME UNCHANGED <<detectedHolders, detectedOwnershipTypes>>, calls \subseteq calls',
         NEW m, NEW agg, NEW unit, Made(m, agg, unit)
  PROVE  Made(m, agg, unit)'
<1>1. buildGroupClauses' = buildGroupClauses
  BY DEF buildGroupClauses
<1> QED BY <1>1 DEF Made

\* The calls that have been made stay.
LEMMA CallsKept ==
  ASSUME UNCHANGED <<detectedHolders, detectedOwnershipTypes, exporters>>, calls \subseteq calls'
  PROVE  /\ \A all, left : SeparateMade(all, left) => SeparateMade(all, left)'
         /\ \A q : SingleMade(q) => SingleMade(q)'
<1>1. \A all, left : SeparateMade(all, left) => SeparateMade(all, left)'
  BY MadeKept DEF SeparateMade
<1>2. \A q : Wanted(q.given)' = Wanted(q.given)
  BY DEF Wanted, HasExporter, DetermineGpuExporter
<1>3. ASSUME NEW q, SingleMade(q) PROVE SingleMade(q)'
  BY <1>2, <1>3, MadeKept DEF SingleMade
<1> QED BY <1>1, <1>3

\* A separate query asks for its metric by its aggregator.
LEMMA SeparateCalls ==
  ASSUME QueryKnown, NEW all, due = [a \in {"max", "avg"} |-> due[a]], SeparateMade(all, due),
         SeparateQuery(all), UNCHANGED <<detectedHolders, detectedOwnershipTypes, exporters, phase>>,
         phase \in 0 .. 4
  PROVE  /\ due' = [a \in {"max", "avg"} |-> due'[a]] /\ SeparateMade(all, due)'
         /\ calls \subseteq calls'
         /\ QueryKnown'
<1>0. PICK agg \in {"max", "avg"} : \E m \in due[agg] :
        /\ wq' = [wq EXCEPT !.metricName = m, !.baseQuery = <<m>>,
                            !.aggregators = Only(agg, AggSuffix(m, agg))]
        /\ getWorkload(wq')
        /\ due' = [due EXCEPT ![agg] = @ \ {m}]
  BY DEF SeparateQuery
<1>1. PICK m \in due[agg] :
        /\ wq' = [wq EXCEPT !.metricName = m, !.baseQuery = <<m>>,
                            !.aggregators = Only(agg, AggSuffix(m, agg))]
        /\ getWorkload(wq')
        /\ due' = [due EXCEPT ![agg] = @ \ {m}]
  BY <1>0
<1>2. PICK q : q = wq'
  OBVIOUS
<1>3. /\ q = [metricName |-> m, baseQuery |-> <<m>>, hasSuffix |-> wq.hasSuffix,
              aggregatorAsSuffix |-> wq.aggregatorAsSuffix,
              aggregators |-> Only(agg, AggSuffix(m, agg)),
              aggregatorNames |-> wq.aggregatorNames]
      /\ DOMAIN wq.aggregatorNames = {}
  <2> DEFINE u == Only(agg, AggSuffix(m, agg))
             b == <<m>>
  <2>1. /\ wq = [metricName |-> wq.metricName, baseQuery |-> wq.baseQuery, hasSuffix |-> wq.hasSuffix,
                 aggregatorAsSuffix |-> wq.aggregatorAsSuffix, aggregators |-> wq.aggregators,
                 aggregatorNames |-> wq.aggregatorNames]
        /\ DOMAIN wq.aggregatorNames = {}
    BY DEF QueryKnown
  <2>2. q = [wq EXCEPT !.metricName = m, !.baseQuery = b, !.aggregators = u]
    BY <1>1, <1>2
  <2> HIDE DEF u, b
  <2>3. q = [metricName |-> m, baseQuery |-> b, hasSuffix |-> wq.hasSuffix,
             aggregatorAsSuffix |-> wq.aggregatorAsSuffix, aggregators |-> u,
             aggregatorNames |-> wq.aggregatorNames]
    BY ONLY <2>1, <2>2
  <2> QED BY ONLY <2>1, <2>3 DEF u, b
<1>4. getWorkload(q)
  BY <1>1, <1>2
<1>5. calls \subseteq calls'
  BY <1>4 DEF getWorkload
<1>6. /\ q.metricName = m /\ q.aggregators = Only(agg, AggSuffix(m, agg))
      /\ DOMAIN q.aggregatorNames = {}
  BY <1>3
<1>7. agg \in DOMAIN q.aggregators /\ q.aggregators[agg] = AggSuffix(m, agg)
  BY <1>6 DEF Only
<1>8. Made(m, agg, AggSuffix(m, agg))'
  BY <1>4, <1>6, <1>7, WorkloadMade
<1>9. /\ due' = [a \in {"max", "avg"} |-> due'[a]]
      /\ \A a \in {"max", "avg"} : due'[a] = IF a = agg THEN due[a] \ {m} ELSE due[a]
  BY <1>1
<1>10. ASSUME NEW a \in {"max", "avg"}, NEW x \in all[a] \ due'[a]
       PROVE  Made(x, a, AggSuffix(x, a))'
  <2>1. CASE a = agg /\ x = m
    BY <1>8, <2>1
  <2>2. CASE x \notin due[a]
    BY <1>5, <2>2, MadeKept DEF SeparateMade
  <2> QED BY <1>9, <1>10, <2>1, <2>2
<1>11. QueryKnown'
  <2>1. /\ wq' = [metricName |-> wq'.metricName, baseQuery |-> wq'.baseQuery,
                  hasSuffix |-> wq'.hasSuffix, aggregatorAsSuffix |-> wq'.aggregatorAsSuffix,
                  aggregators |-> wq'.aggregators, aggregatorNames |-> wq'.aggregatorNames]
        /\ DOMAIN wq'.aggregators = {agg} /\ DOMAIN wq'.aggregatorNames = {}
    BY <1>2, <1>3 DEF Only
  <2>2. phase' = phase /\ phase <= 4 /\ ~(phase \in 5 .. 7)
    OBVIOUS
  <2> QED BY <2>1, <2>2 DEF QueryKnown
<1> QED BY <1>5, <1>9, <1>10, <1>11 DEF SeparateMade

\* A call is remembered with those before.
LEMMA CallsGrow ==
  ASSUME NEW q, getWorkload(q)
  PROVE  calls \subseteq calls'
<1>1. \E more : calls' = calls \cup more
  BY DEF getWorkload
<1> QED BY ONLY <1>1

\* A single query asks for its metric, by the aggregators it names or by both, and
\* under the name it gives them.
LEMMA SingleCalls ==
  ASSUME QueryKnown, NEW i \in 1 .. 15, phase = 4 + i, SingleQuery, Wanted(SingleQueries[i].given)
  PROVE  SingleMade(SingleQueries[i])' /\ QueryKnown' /\ calls \subseteq calls'
<1> DEFINE s == SingleQueries[i]
           fields == {"metricName", "baseQuery", "hasSuffix", "aggregatorAsSuffix",
                      "aggregators", "aggregatorNames"}
<1>1. PICK w, q, base :
        /\ w = wq
        /\ q = wq'
        /\ q = Changed([w EXCEPT !.metricName = s.metric, !.baseQuery = base], s.change)
        /\ getWorkload(q)
  <2>1. /\ wq' = Changed([wq EXCEPT !.metricName = s.metric,
                            !.baseQuery = IF s.append THEN Append(@, s.metric) ELSE <<s.metric>>],
                         s.change)
        /\ getWorkload(wq')
    <3>1. phase - 4 = i
      OBVIOUS
    <3> QED BY <3>1 DEF SingleQuery
  <2> HIDE DEF s
  <2> DEFINE base == IF s.append THEN Append(wq.baseQuery, s.metric) ELSE <<s.metric>>
  <2>2. wq' = Changed([wq EXCEPT !.metricName = s.metric, !.baseQuery = base], s.change)
    BY <2>1
  <2> HIDE DEF base
  <2> QED BY <2>1, <2>2
<1>2. /\ w = [metricName |-> w.metricName, baseQuery |-> w.baseQuery, hasSuffix |-> w.hasSuffix,
              aggregatorAsSuffix |-> w.aggregatorAsSuffix, aggregators |-> w.aggregators,
              aggregatorNames |-> w.aggregatorNames]
      /\ i \in 1 .. 3 => w.aggregators = Both
      /\ DOMAIN w.aggregatorNames = {}
  BY <1>1 DEF QueryKnown
<1>3. PICK change, metric : change = s.change /\ metric = s.metric
  OBVIOUS
<1>4. q = [f \in fields |->
             IF f \in DOMAIN change THEN change[f]
             ELSE [metricName |-> metric, baseQuery |-> base, hasSuffix |-> w.hasSuffix,
                   aggregatorAsSuffix |-> w.aggregatorAsSuffix, aggregators |-> w.aggregators,
                   aggregatorNames |-> w.aggregatorNames][f]]
  <2>1. q = Changed([w EXCEPT !.metricName = metric, !.baseQuery = base], change)
    BY <1>1, <1>3
  <2>2. [w EXCEPT !.metricName = metric, !.baseQuery = base]
          = [metricName |-> metric, baseQuery |-> base, hasSuffix |-> w.hasSuffix,
             aggregatorAsSuffix |-> w.aggregatorAsSuffix, aggregators |-> w.aggregators,
             aggregatorNames |-> w.aggregatorNames]
    <3>1. PICK e : e = [w EXCEPT !.metricName = metric, !.baseQuery = base]
      OBVIOUS
    <3>2. w = [metricName |-> w.metricName, baseQuery |-> w.baseQuery, hasSuffix |-> w.hasSuffix,
               aggregatorAsSuffix |-> w.aggregatorAsSuffix, aggregators |-> w.aggregators,
               aggregatorNames |-> w.aggregatorNames]
      BY <1>2
    <3>3. e = [metricName |-> metric, baseQuery |-> base, hasSuffix |-> w.hasSuffix,
               aggregatorAsSuffix |-> w.aggregatorAsSuffix, aggregators |-> w.aggregators,
               aggregatorNames |-> w.aggregatorNames]
      BY ONLY <3>1, <3>2
    <3> QED BY ONLY <3>1, <3>3
  <2> QED BY <2>1, <2>2 DEF Changed
<1>5. /\ q = [metricName |-> q.metricName, baseQuery |-> q.baseQuery, hasSuffix |-> q.hasSuffix,
              aggregatorAsSuffix |-> q.aggregatorAsSuffix, aggregators |-> q.aggregators,
              aggregatorNames |-> q.aggregatorNames]
      /\ "metricName" \notin DOMAIN change => q.metricName = metric
      /\ q.aggregators = IF "aggregators" \in DOMAIN change THEN change.aggregators
                         ELSE w.aggregators
      /\ q.aggregatorNames = IF "aggregatorNames" \in DOMAIN change THEN change.aggregatorNames
                             ELSE w.aggregatorNames
  BY ONLY <1>4
<1>6. /\ phase' = phase + 1
      /\ UNCHANGED <<detectedHolders, detectedOwnershipTypes, exporters>>
  BY DEF SingleQuery, collectorVars, dataVars, ownerVars, metricVars
<1>7. /\ q.metricName = metric /\ DOMAIN q.aggregators = AggregatorsOf(s)
      /\ \A agg \in DOMAIN q.aggregators :
           /\ q.aggregators[agg] = ""
           /\ NameOf(s, agg) = IF agg \in DOMAIN q.aggregatorNames THEN q.aggregatorNames[agg] ELSE agg
      /\ i \in 1 .. 2 => q.aggregators = Both
      /\ i # 15 => DOMAIN q.aggregatorNames = {}
  <2>0. s.change = change /\ s.metric = metric /\ q.metricName = metric
    BY <1>3, <1>5, SinglesDo
  <2>1. CASE i \in 1 .. 3
    <3>1. Plain(s)
      BY <2>1, SinglesDo
    <3> HIDE DEF s
    <3>2. /\ q.aggregators = Both /\ DOMAIN q.aggregatorNames = {}
          /\ AggregatorsOf(s) = {"max", "avg"} /\ \A agg : NameOf(s, agg) = agg
      BY <1>2, <1>5, <2>0, <2>1, <3>1 DEF AggregatorsOf, NameOf, Plain
    <3>3. DOMAIN Both = {"max", "avg"} /\ \A agg \in DOMAIN Both : Both[agg] = ""
      BY DEF Both
    <3> QED BY ONLY <2>0, <3>2, <3>3
  <2>2. CASE i \in 4 .. 14
    <3>1. PICK a : By(s, a)
      BY <2>2, SinglesDo
    <3> HIDE DEF s
    <3>2. q.aggregators = Only(a, "") /\ DOMAIN q.aggregatorNames = {}
      BY <1>2, <1>5, <2>0, <3>1 DEF By
    <3>3. AggregatorsOf(s) = DOMAIN Only(a, "") /\ \A agg : NameOf(s, agg) = agg
      BY <2>0, <3>1 DEF AggregatorsOf, NameOf, By
    <3>4. \A agg \in DOMAIN Only(a, "") : Only(a, "")[agg] = ""
      BY DEF Only
    <3>5. ~(i \in 1 .. 2)
      BY <2>2
    <3> QED BY ONLY <2>0, <3>2, <3>3, <3>4, <3>5
  <2>3. CASE i = 15
    <3>1. Named(s, "sum", "max")
      BY <2>3, SinglesDo
    <3> HIDE DEF s
    <3>2. q.aggregators = Only("sum", "") /\ q.aggregatorNames = Only("sum", "max")
      BY <1>5, <2>0, <3>1 DEF Named
    <3>3. /\ AggregatorsOf(s) = DOMAIN Only("sum", "")
          /\ \A agg : NameOf(s, agg) = Only("sum", "max")[agg]
      BY <2>0, <3>1 DEF AggregatorsOf, NameOf, Named
    <3>4. \A agg \in DOMAIN Only("sum", "") :
            Only("sum", "")[agg] = "" /\ agg \in DOMAIN Only("sum", "max")
      BY DEF Only
    <3>5. ~(i \in 1 .. 2) /\ ~(i # 15)
      BY <2>3
    <3> QED BY ONLY <2>0, <3>2, <3>3, <3>4, <3>5
  <2>4. i \in 1 .. 3 \/ i \in 4 .. 14 \/ i = 15
    OBVIOUS
  <2> QED BY ONLY <2>1, <2>2, <2>3, <2>4
<1>8. ASSUME NEW agg \in AggregatorsOf(s)
      PROVE  Made(s.metric, NameOf(s, agg), "")'
  <2> DEFINE name == IF agg \in DOMAIN q.aggregatorNames THEN q.aggregatorNames[agg] ELSE agg
  <2>1. Made(q.metricName, name, q.aggregators[agg])'
    BY <1>1, <1>6, <1>7, WorkloadMade
  <2>2. q.metricName = s.metric /\ name = NameOf(s, agg) /\ q.aggregators[agg] = ""
    BY <1>3, <1>7
  <2> QED BY <2>1, <2>2
<1>9. SingleMade(s)'
  BY <1>8 DEF SingleMade
<1>10. QueryKnown'
  <2>1. wq' = q /\ phase' = 5 + i
    BY <1>1, <1>6
  <2>2. phase' \in 5 .. 7 => i \in 1 .. 2
    BY <2>1
  <2>3. phase' <= 19 => i # 15
    BY <2>1
  <2>4. ~(phase' <= 4)
    BY <2>1
  <2> QED BY <1>5, <1>7, <2>1, <2>2, <2>3, <2>4 DEF QueryKnown
<1>11. calls \subseteq calls'
  BY <1>1, CallsGrow
<1> QED BY <1>9, <1>10, <1>11

\* Nothing has been asked for to begin with.
LEMMA InitCalls == Init => CallsInv
<1> SUFFICES ASSUME Init PROVE CallsInv
  OBVIOUS
<1>1. phase = 0 /\ wq = NewQuery
  BY DEF Init
<1>2. QueryKnown
  <2>1. NewQuery = [metricName |-> NewQuery.metricName, baseQuery |-> NewQuery.baseQuery,
                    hasSuffix |-> NewQuery.hasSuffix,
                    aggregatorAsSuffix |-> NewQuery.aggregatorAsSuffix,
                    aggregators |-> NewQuery.aggregators,
                    aggregatorNames |-> NewQuery.aggregatorNames]
    BY DEF NewQuery
  <2>2. NewQuery.aggregators = Both /\ NewQuery.aggregatorNames = <<>>
    BY DEF NewQuery, Both
  <2>3. DOMAIN <<>> = {} /\ DOMAIN Both = {"max", "avg"}
    BY DEF Both
  <2>4. DOMAIN NewQuery.aggregatorNames = {} /\ DOMAIN NewQuery.aggregators = {"max", "avg"}
    BY ONLY <2>2, <2>3
  <2>5. wq = NewQuery /\ ~(phase \in 5 .. 7)
    BY <1>1
  <2> QED BY ONLY <2>1, <2>4, <2>5 DEF QueryKnown
<1>3. CallsKnown
  BY <1>1 DEF CallsKnown
<1> QED BY <1>1, <1>2, <1>3 DEF Init, CollectorInit, MetricsInit, CallsInv

\* Nothing of the collector changes once it has finished.
LEMMA FinishedStays ==
  ASSUME IInv, PlacesInv, Finished
  PROVE  ~Collecting
<1>1. Done
  <2> DEFINE n == Len(Stages)
  <2>1. DOMAIN Stages = 1 .. n /\ n \in Nat /\ position > n
    BY StagesLength DEF Finished
  <2> HIDE DEF n
  <2>2. position \notin DOMAIN Stages
    BY ONLY <2>1
  <2> QED BY <2>2 DEF Done
<1>2. position # 4
  BY StagesLength DEF Finished
<1>3. ~asked /\ walk = NoWalk
  BY <1>1, <1>2 DEF IInv, Asking, PlacesInv, PathLeads
<1> QED BY <1>1, <1>3 DEF Collecting, Ask, Series, Walking, Climb, ReachTop, EndStage, SetUpWriters

\* The names of labels a cluster uses have been detected.
HoldersKnown ==
  /\ clusterLabelHolders = [c \in Cluster |-> clusterLabelHolders[c]]
  /\ \A c \in Cluster : clusterLabelHolders[c] # None => clusterLabelHolders[c] \in detectedHolders

\* The names of labels a cluster uses are among those that were detected.
LEMMA HoldersKept ==
  ASSUME IInv, HoldersKnown, Collecting
  PROVE  HoldersKnown'
<1>1. CASE Series
  <2>1. PICK t \in pending :
          /\ TakeSeries(t[1], t[2])
          /\ \/ Own(t[1], t[2])
             \/ Contain(t[1], t[2])
             \/ Measure(t[1], t[2])
             \/ Describe(t[1], t[2])
             \/ Scale(t[1], t[2])
    BY <1>1 DEF Series
  <2>2. t[1] \in Cluster
    BY <2>1 DEF TakeSeries, IInv, Asking
  <2>3. CASE Measure(t[1], t[2])
    <3>1. UNCHANGED <<clusterLabelHolders, detectedHolders>> \/ DetectHolder(t[1], t[2])
      BY <2>3 DEF Measure, GetContainerMetric
    <3>2. CASE UNCHANGED <<clusterLabelHolders, detectedHolders>>
      BY <3>2 DEF HoldersKnown
    <3>3. CASE DetectHolder(t[1], t[2])
      BY <2>2, <3>3 DEF HoldersKnown, DetectHolder
    <3> QED BY <3>1, <3>2, <3>3
  <2>4. CASE Own(t[1], t[2]) \/ Contain(t[1], t[2]) \/ Describe(t[1], t[2]) \/ Scale(t[1], t[2])
    <3>1. UNCHANGED <<clusterLabelHolders, detectedHolders>>
      BY <2>4 DEF Own, Contain, Describe, GetObjectLabels, GetObjectMetric, GetOwnedObjectMetric,
         SetObjectMetric, GetNamespaceMetric, Scale, GetHpa, GetHpaLabels, UnchangedButHpas, metricVars
    <3> QED BY <3>1 DEF HoldersKnown
  <2> QED BY <2>1, <2>3, <2>4
<1>2. CASE Ask \/ Walking \/ EndStage \/ SetUpWriters
  <2>1. UNCHANGED <<clusterLabelHolders, detectedHolders>>
    BY <1>2 DEF Ask, Walking, EndStage, SetUpWriters, dataVars, metricVars
  <2> QED BY <2>1 DEF HoldersKnown
<1> QED BY <1>1, <1>2 DEF Collecting

\* The collector's own steps come before the first phase.
LEMMA CollectingCalls ==
  ASSUME IInv, PlacesInv, CallsInv, Collecting, UNCHANGED outputVars
  PROVE  CallsInv'
<1>1. phase = 0 /\ phase' = 0 /\ UNCHANGED wq
  BY FinishedStays DEF CallsInv, outputVars
<1>2. HoldersKnown'
  BY HoldersKept DEF CallsInv, HoldersKnown
<1>3. QueryKnown'
  BY <1>1 DEF CallsInv, QueryKnown
<1>4. CallsKnown'
  BY <1>1 DEF CallsKnown
<1> QED BY <1>1, <1>2, <1>3, <1>4 DEF CallsInv, HoldersKnown

\* From one phase to the next.
LEMMA NextPhaseCalls ==
  ASSUME CallsInv, NextPhase
  PROVE  QueryKnown' /\ CallsKnown'
<1>1. /\ phase \in 0 .. 4 /\ phase' = phase + 1
      /\ UNCHANGED <<detectedHolders, detectedOwnershipTypes, exporters, calls>>
  BY DEF NextPhase, collectorVars, dataVars, ownerVars, metricVars
<1>2. QueryKnown'
  <2>1. CASE phase = 4
    <3>1. PICK w : w = wq
      OBVIOUS
    <3>2. /\ w = [metricName |-> w.metricName, baseQuery |-> w.baseQuery, hasSuffix |-> w.hasSuffix,
                  aggregatorAsSuffix |-> w.aggregatorAsSuffix, aggregators |-> w.aggregators,
                  aggregatorNames |-> w.aggregatorNames]
          /\ DOMAIN w.aggregators \subseteq {"max", "avg"} /\ DOMAIN w.aggregatorNames = {}
      BY <2>1, <3>1 DEF CallsInv, QueryKnown
    <3> DEFINE u == [a \in {"max", "avg"} \cup DOMAIN w.aggregators |->
                       IF a \in {"max", "avg"} THEN "" ELSE w.aggregators[a]]
    <3>3. u = Both
      <4>1. {"max", "avg"} \cup DOMAIN w.aggregators = {"max", "avg"}
        BY <3>2
      <4> QED BY <4>1 DEF Both
    <3>4. wq' = [w EXCEPT !.aggregators = u]
      BY <2>1, <3>1 DEF NextPhase, ResetAggregators
    <3> HIDE DEF u
    <3>5. wq' = [metricName |-> w.metricName, baseQuery |-> w.baseQuery, hasSuffix |-> w.hasSuffix,
                 aggregatorAsSuffix |-> w.aggregatorAsSuffix, aggregators |-> u,
                 aggregatorNames |-> w.aggregatorNames]
      BY ONLY <3>2, <3>4
    <3>6. /\ wq' = [metricName |-> wq'.metricName, baseQuery |-> wq'.baseQuery,
                    hasSuffix |-> wq'.hasSuffix, aggregatorAsSuffix |-> wq'.aggregatorAsSuffix,
                    aggregators |-> wq'.aggregators, aggregatorNames |-> wq'.aggregatorNames]
          /\ wq'.aggregators = Both /\ DOMAIN wq'.aggregatorNames = {}
      BY ONLY <3>2, <3>3, <3>5
    <3>7. phase' = 5
      BY <1>1, <2>1
    <3> QED BY <3>6, <3>7 DEF QueryKnown
  <2>2. CASE phase \in 0 .. 3
    <3>1. UNCHANGED wq
      BY <2>2 DEF NextPhase
    <3>2. phase <= 4 /\ phase <= 19 /\ ~(phase' \in 5 .. 7)
      BY <1>1, <2>2
    <3> QED BY <3>1, <3>2 DEF CallsInv, QueryKnown
  <2> QED BY <1>1, <2>1, <2>2
<1>3. ASSUME NEW all, phase \in 3 .. 4, due = [a \in {"max", "avg"} |-> due[a]], SeparateMade(all, due)
      PROVE  SeparateMade(all, Nothing)
  <2>1. \A agg \in {"max", "avg"} : due[agg] = {}
    BY <1>3 DEF NextPhase
  <2> QED BY <1>3, <2>1 DEF SeparateMade, Nothing
<1>4. \A all : SeparateMade(all, all)
  BY DEF SeparateMade
<1>5. \A all, left : SeparateMade(all, left) => SeparateMade(all, left)'
  BY <1>1, CallsKept
<1>6. CallsKnown'
  <2>1. ASSUME NEW i \in 1 .. 15 PROVE ~(phase' > 4 + i)
    BY <1>1
  <2>2. CASE phase \in 0 .. 1
    BY <1>1, <2>1, <2>2 DEF CallsKnown
  <2>3. CASE phase = 2
    <3>1. phase' = 3 /\ due' = cpuQueryMap
      BY <1>1, <2>3 DEF NextPhase
    <3> QED BY <1>4, <1>5, <2>1, <3>1 DEF CallsKnown, cpuQueryMap
  <2>4. CASE phase = 3
    <3>1. phase' = 4 /\ due' = memQueryMap
      BY <1>1, <2>4 DEF NextPhase
    <3>2. SeparateMade(cpuQueryMap, Nothing)
      BY <1>3, <2>4 DEF CallsInv, CallsKnown
    <3> QED BY <1>4, <1>5, <2>1, <3>1, <3>2 DEF CallsKnown, memQueryMap
  <2>5. CASE phase = 4
    <3>1. phase' = 5
      BY <1>1, <2>5
    <3>2. SeparateMade(cpuQueryMap, Nothing) /\ SeparateMade(memQueryMap, Nothing)
      BY <1>3, <2>5 DEF CallsInv, CallsKnown
    <3> QED BY <1>5, <2>1, <3>1, <3>2 DEF CallsKnown
  <2> QED BY <1>1, <2>2, <2>3, <2>4, <2>5
<1> QED BY <1>2, <1>6

\* Only the collector's own steps change what is known of containers.
LEMMA OutputKeeps ==
  ASSUME UNCHANGED collectorVars
  PROVE  /\ UNCHANGED <<detectedHolders, detectedOwnershipTypes, exporters, clusterLabelHolders>>
         /\ Finished' = Finished
BY DEF collectorVars, stageVars, dataVars, ownerVars, metricVars, Finished

\* A phase that asks for nothing keeps what has been asked for.
LEMMA IdleCalls ==
  ASSUME CallsInv, UNCHANGED collectorVars, UNCHANGED <<wq, calls>>,
         phase' = phase, phase \in 3 .. 4 => due' = due
  PROVE  QueryKnown' /\ CallsKnown'
<1>1. QueryKnown'
  BY DEF CallsInv, QueryKnown
<1>2. \A all, left : SeparateMade(all, left) => SeparateMade(all, left)'
  BY OutputKeeps, CallsKept
<1>3. \A q : SingleMade(q) => SingleMade(q)'
  BY OutputKeeps, CallsKept
<1>4. CallsKnown'
  <2>1. phase = 3 => due' = due
    BY DEF CallsInv
  <2>2. phase = 4 => due' = due
    BY DEF CallsInv
  <2> QED BY <1>2, <1>3, <2>1, <2>2 DEF CallsInv, CallsKnown, cpuQueryMap, memQueryMap
<1> QED BY <1>1, <1>4

\* The phases of separate queries.
LEMMA SeparatePhases ==
  ASSUME CallsInv, Separate
  PROVE  QueryKnown' /\ CallsKnown'
<1>1. /\ phase' = phase /\ phase \in 3 .. 4
      /\ UNCHANGED <<detectedHolders, detectedOwnershipTypes, exporters>>
  BY OutputKeeps DEF Separate
<1>2. ASSUME NEW i \in 1 .. 15 PROVE ~(phase' > 4 + i)
  BY <1>1
<1>3. CASE phase = 3 /\ SeparateQuery(cpuQueryMap)
  <2>1. due = [a \in {"max", "avg"} |-> due[a]] /\ SeparateMade(cpuQueryMap, due) /\ QueryKnown
    BY <1>3 DEF CallsInv, CallsKnown
  <2>2. /\ due' = [a \in {"max", "avg"} |-> due'[a]] /\ SeparateMade(cpuQueryMap, due)'
        /\ QueryKnown'
    BY <1>1, <1>3, <2>1, SeparateCalls
  <2>3. phase' = 3 /\ ~(phase' > 3) /\ ~(phase' > 4) /\ ~(phase' = 4)
    BY <1>1, <1>3
  <2> QED BY <1>2, <2>2, <2>3 DEF CallsKnown, cpuQueryMap
<1>4. CASE phase = 4 /\ SeparateQuery(memQueryMap)
  <2>1. /\ due = [a \in {"max", "avg"} |-> due[a]] /\ SeparateMade(memQueryMap, due) /\ QueryKnown
        /\ SeparateMade(cpuQueryMap, Nothing)
    BY <1>4 DEF CallsInv, CallsKnown
  <2>2. /\ due' = [a \in {"max", "avg"} |-> due'[a]] /\ SeparateMade(memQueryMap, due)'
        /\ QueryKnown' /\ calls \subseteq calls'
    BY <1>1, <1>4, <2>1, SeparateCalls
  <2>3. SeparateMade(cpuQueryMap, Nothing)'
    BY <1>1, <2>1, <2>2, CallsKept
  <2>4. phase' = 4 /\ ~(phase' > 4) /\ ~(phase' = 3)
    BY <1>1, <1>4
  <2> QED BY <1>2, <2>2, <2>3, <2>4 DEF CallsKnown, cpuQueryMap, memQueryMap
<1> QED BY <1>3, <1>4 DEF Separate

\* One single query after the other, those that aren't wanted left out.
LEMMA SinglePhases ==
  ASSUME CallsInv, SingleQuery
  PROVE  QueryKnown' /\ CallsKnown' /\ phase' \in 0 .. 20
<1>1. PICK i \in 1 .. 15 : phase = 4 + i /\ phase' = 5 + i
  <2>1. phase - 4 \in 1 .. 15 /\ phase' = phase + 1 /\ phase \in 0 .. 20
    BY SinglesKnown DEF SingleQuery, CallsInv
  <2>2. phase = 4 + (phase - 4) /\ phase' = 5 + (phase - 4)
    BY <2>1
  <2> QED BY <2>1, <2>2
<1>2. UNCHANGED <<detectedHolders, detectedOwnershipTypes, exporters>>
  BY OutputKeeps DEF SingleQuery
<1>3. SingleMade(SingleQueries[i])' /\ QueryKnown' /\ calls \subseteq calls'
  <2>1. CASE Wanted(SingleQueries[i].given)
    BY <1>1, <2>1, SingleCalls DEF CallsInv
  <2>2. CASE ~Wanted(SingleQueries[i].given)
    <3>1. UNCHANGED <<wq, calls>>
      <4>1. phase - 4 = i
        BY <1>1
      <4> QED BY <2>2, <4>1 DEF SingleQuery
    <3>2. Wanted(SingleQueries[i].given)' = Wanted(SingleQueries[i].given)
      <4> DEFINE given == SingleQueries[i].given
      <4>1. ASSUME NEW g PROVE Wanted(g)' = Wanted(g)
        BY <1>2 DEF Wanted, HasExporter, DetermineGpuExporter
      <4>2. given' = given
        BY DEF SingleQueries, OtherQueries, RestartQueries, Gpu, Single
      <4> HIDE DEF given
      <4>3. PICK g : g = given
        OBVIOUS
      <4>4. Wanted(given)' = Wanted(g)'
        BY <4>2, <4>3 DEF Wanted
      <4>5. Wanted(given)' = Wanted(given)
        BY <4>1, <4>3, <4>4
      <4> QED BY <4>5 DEF given
    <3>3. SingleMade(SingleQueries[i])'
      BY <2>2, <3>2 DEF SingleMade
    <3>4. phase' \in 5 .. 7 => phase \in 5 .. 7
      BY <1>1
    <3>5. ~(phase' <= 4) /\ phase <= 19
      BY <1>1
    <3>6. QueryKnown'
      BY <3>1, <3>4, <3>5 DEF CallsInv, QueryKnown
    <3> QED BY <3>1, <3>3, <3>6
  <2> QED BY <2>1, <2>2
<1>4. CallsKnown'
  <2>1. SeparateMade(cpuQueryMap, Nothing) /\ SeparateMade(memQueryMap, Nothing)
    BY <1>1 DEF CallsInv, CallsKnown
  <2>2. SeparateMade(cpuQueryMap, Nothing)' /\ SeparateMade(memQueryMap, Nothing)'
    BY <1>2, <1>3, <2>1, CallsKept DEF cpuQueryMap, memQueryMap, Nothing
  <2>3. ASSUME NEW j \in 1 .. 15, phase' > 4 + j PROVE SingleMade(SingleQueries[j])'
    <3>1. j = i \/ phase > 4 + j
      BY <1>1, <2>3
    <3>2. CASE phase > 4 + j
      <4>1. SingleMade(SingleQueries[j])
        BY <3>2 DEF CallsInv, CallsKnown
      <4> QED BY <1>2, <1>3, <4>1, CallsKept
    <3> QED BY <1>3, <3>1, <3>2
  <2>4. phase' # 3 /\ phase' # 4
    BY <1>1
  <2> QED BY <2>2, <2>3, <2>4 DEF CallsKnown
<1> QED BY <1>1, <1>3, <1>4

\* The step of the induction.
LEMMA StepCalls == IInv /\ PlacesInv /\ CallsInv /\ [Next]_vars => CallsInv'
<1> SUFFICES ASSUME IInv, PlacesInv, CallsInv, [Next]_vars PROVE CallsInv'
  OBVIOUS
<1>1. CASE Collecting /\ UNCHANGED outputVars
  BY <1>1, CollectingCalls
<1>2. CASE UNCHANGED collectorVars /\ phase' = phase /\ QueryKnown' /\ CallsKnown'
  BY <1>2, OutputKeeps DEF CallsInv
<1>3. CASE WriteFiles
  <2>1. phase \in {1, 2} /\ UNCHANGED collectorVars /\ phase' = phase /\ UNCHANGED <<wq, calls>>
    BY <1>3 DEF WriteFiles, Writing
  <2>2. ~(phase \in 3 .. 4)
    BY <2>1
  <2> QED BY <1>2, <2>1, <2>2, IdleCalls
<1>4. CASE Separate
  BY <1>2, <1>4, SeparatePhases DEF Separate
<1>5. CASE NextPhase
  <2>1. UNCHANGED collectorVars /\ phase' \in 0 .. 20 /\ Finished
    BY <1>5 DEF NextPhase
  <2> QED BY <1>5, <2>1, OutputKeeps, NextPhaseCalls DEF CallsInv
<1>6. CASE SingleQuery
  <2>1. UNCHANGED collectorVars /\ Finished
    BY <1>6 DEF SingleQuery
  <2> QED BY <1>6, <2>1, OutputKeeps, SinglePhases DEF CallsInv
<1>7. CASE UNCHANGED vars
  <2>1. UNCHANGED collectorVars /\ UNCHANGED <<wq, calls, phase, due>>
    BY <1>7 DEF vars, outputVars
  <2> QED BY <1>2, <2>1, IdleCalls
<1> QED BY <1>1, <1>3, <1>4, <1>5, <1>6, <1>7 DEF Next

\* The clauses of a call of these names reach the container.
LEMMA CallReaches ==
  ASSUME GroupsInv, CallsInv, NEW c \in Cluster, clusterLabelHolders[c] # None,
         NEW cid \in DOMAIN containers[c], NEW m, NEW agg, NEW unit, Made(m, agg, unit)
  PROVE  \E call \in calls :
           /\ call.metric = m /\ call.aggregator = agg
           /\ call.holder = clusterLabelHolders[c]
           /\ call.unit = unit
           /\ \E group \in call.groups : Grouped(c, cid, group)
<1>1. clusterLabelHolders[c] \in detectedHolders
  BY DEF CallsInv
<1>2. PICK call \in calls :
        /\ call.metric = m /\ call.aggregator = agg /\ call.unit = unit
        /\ call.holder = clusterLabelHolders[c] /\ call.groups = buildGroupClauses
  BY <1>1 DEF Made
<1>3. \E group \in buildGroupClauses : Grouped(c, cid, group)
  BY DEF GroupsInv, AllGrouped
<1> QED BY <1>2, <1>3

\* What has been asked for in the end.
LEMMA SeparatesMade ==
  ASSUME CallsInv, phase > 19,
         NEW m \in {"cpuMCores", "mem", "rss", "workingSet"}, NEW agg \in {"max", "avg"}
  PROVE  Made(m, agg, AggSuffix(m, agg))
<1>1. SeparateMade(cpuQueryMap, Nothing) /\ SeparateMade(memQueryMap, Nothing)
  <2>1. phase > 3 /\ phase > 4
    BY DEF CallsInv
  <2> QED BY <2>1 DEF CallsInv, CallsKnown
<1>2. cpuQueryMap[agg] \ Nothing[agg] = {"cpuMCores"}
  BY DEF cpuQueryMap, Nothing
<1>3. memQueryMap[agg] \ Nothing[agg] = {"mem", "rss", "workingSet"}
  BY DEF memQueryMap, Nothing
<1> QED BY <1>1, <1>2, <1>3 DEF SeparateMade

\* The same of the single queries that are wanted.
LEMMA SinglesMade ==
  ASSUME CallsInv, phase > 19, NEW i \in 1 .. 15, Wanted(SingleQueries[i].given)
  PROVE  \A agg \in AggregatorsOf(SingleQueries[i]) :
           Made(SingleQueries[i].metric, NameOf(SingleQueries[i], agg), "")
<1>1. phase > 4 + i
  BY DEF CallsInv
<1> QED BY <1>1 DEF CallsInv, CallsKnown, SingleMade

\* What the single queries ask for that is expected.
LEMMA OthersMade ==
  ASSUME CallsInv, phase > 19
  PROVE  /\ \A m \in {"disk", "cpuThrottlingPercent"} : \A agg \in {"max", "avg"} : Made(m, agg, "")
         /\ Made("cpuThrottlingSeconds", "sum", "") /\ Made("restarts", "max", "")
         /\ HasExporter("ephemeral") =>
              \A agg \in {"max", "avg"} : Made("ephemeralStorageUsageBytes", agg, "")
<1>1. Wanted("always") /\ (HasExporter("ephemeral") => Wanted("ephemeral"))
  BY DEF Wanted
<1>2. \A i \in {1, 2, 3, 4, 15} : i \in 1 .. 15
  OBVIOUS
<1>3. /\ SingleQueries[1] = OtherQueries[1] /\ SingleQueries[2] = OtherQueries[2]
      /\ SingleQueries[3] = OtherQueries[3] /\ SingleQueries[4] = OtherQueries[4]
      /\ SingleQueries[15] = RestartQueries[1]
  BY SinglesKnown
<1>4. /\ OtherQueries[1].metric = "ephemeralStorageUsageBytes" /\ OtherQueries[1].given = "ephemeral"
      /\ OtherQueries[2].metric = "disk" /\ OtherQueries[2].given = "always"
      /\ OtherQueries[3].metric = "cpuThrottlingPercent" /\ OtherQueries[3].given = "always"
      /\ OtherQueries[4].metric = "cpuThrottlingSeconds" /\ OtherQueries[4].given = "always"
  BY DEF OtherQueries, Single
<1>5. RestartQueries[1].metric = "restarts" /\ RestartQueries[1].given = "always"
  BY DEF RestartQueries, Single
<1>6. ASSUME NEW i \in {1, 2, 3}
      PROVE  /\ AggregatorsOf(SingleQueries[i]) = {"max", "avg"}
             /\ \A agg : NameOf(SingleQueries[i], agg) = agg
  BY <1>6, SinglesDo DEF Plain, AggregatorsOf, NameOf
<1>7. /\ AggregatorsOf(SingleQueries[4]) = {"sum"}
      /\ NameOf(SingleQueries[4], "sum") = "sum"
  <2>1. By(OtherQueries[4], "sum")
    BY DEF OtherQueries, Single, By
  <2> QED BY <1>3, <2>1 DEF By, Only, AggregatorsOf, NameOf
<1>8. /\ AggregatorsOf(SingleQueries[15]) = {"sum"}
      /\ NameOf(SingleQueries[15], "sum") = "max"
  BY SinglesDo DEF Named, Only, AggregatorsOf, NameOf
<1>9. Made("cpuThrottlingSeconds", "sum", "")
  BY <1>1, <1>2, <1>3, <1>4, <1>7, SinglesMade
<1>10. Made("restarts", "max", "")
  BY <1>1, <1>2, <1>3, <1>5, <1>8, SinglesMade
<1>11. ASSUME NEW i \in {1, 2, 3}, Wanted(SingleQueries[i].given), NEW agg \in {"max", "avg"}
       PROVE  Made(SingleQueries[i].metric, agg, "")
  <2>1. i \in 1 .. 15 /\ agg \in AggregatorsOf(SingleQueries[i])
    BY <1>2, <1>6
  <2>2. Made(SingleQueries[i].metric, NameOf(SingleQueries[i], agg), "")
    BY <1>11, <2>1, SinglesMade
  <2> QED BY <1>6, <2>2
<1>12. ASSUME NEW agg \in {"max", "avg"} PROVE Made("disk", agg, "")
  BY <1>1, <1>3, <1>4, <1>11
<1>13. ASSUME NEW agg \in {"max", "avg"} PROVE Made("cpuThrottlingPercent", agg, "")
  BY <1>1, <1>3, <1>4, <1>11
<1>14. ASSUME HasExporter("ephemeral"), NEW agg \in {"max", "avg"}
       PROVE  Made("ephemeralStorageUsageBytes", agg, "")
  BY <1>1, <1>3, <1>4, <1>11, <1>14
<1> QED BY <1>9, <1>10, <1>12, <1>13, <1>14

\* The same of the GPUs' if an exporter of them was found.
LEMMA GpusMade ==
  ASSUME CallsInv, phase > 19, DetermineGpuExporter # None,
         NEW m \in {"gpuUtilization", "gpuUtilizationGpus", "gpuMemUsed"}, NEW agg \in {"max", "avg"}
  PROVE  Made(m, agg, "")
<1>1. Wanted("gpu")
  BY DEF Wanted
<1>2. ASSUME NEW i \in 1 .. 15, NEW j \in {1, 2, 4}, SingleQueries[i] = Gpu(agg)[j]
      PROVE  Made(Gpu(agg)[j].metric, agg, "")
  <2>1. By(Gpu(agg)[j], agg) /\ Gpu(agg)[j].given = "gpu"
    BY GpuKnown
  <2>2. AggregatorsOf(Gpu(agg)[j]) = {agg} /\ NameOf(Gpu(agg)[j], agg) = agg
    BY <2>1 DEF By, Only, AggregatorsOf, NameOf
  <2> QED BY <1>1, <1>2, <2>1, <2>2, SinglesMade
<1>3. PICK j \in {1, 2, 4} : Gpu(agg)[j].metric = m
  BY GpuKnown
<1>4. PICK i \in 1 .. 15 : SingleQueries[i] = Gpu(agg)[j]
  <2>1. j \in 1 .. 5 /\ 4 + j \in 1 .. 15 /\ 9 + j \in 1 .. 15
    OBVIOUS
  <2>2. SingleQueries[4 + j] = Gpu("avg")[j] /\ SingleQueries[9 + j] = Gpu("max")[j]
    BY <2>1, SinglesKnown
  <2> QED BY <2>1, <2>2
<1> QED BY <1>2, <1>3, <1>4

\* Every container is reached by the queries for all its time series, in its metrics'
\* units and under the names its cluster uses, in any clusters whose owners outrank what
\* they own.
THEOREM WorkloadsCovered == Spec => []WorkloadCovered
<1>1. GroupsInv /\ CallsInv => WorkloadCovered
  <2> SUFFICES ASSUME GroupsInv, CallsInv, phase > 4 + Len(SingleQueries),
                      NEW c \in Cluster, clusterLabelHolders[c] # None,
                      NEW cid \in DOMAIN containers[c], NEW e \in Expected
               PROVE  \E call \in calls :
                        /\ call.metric = e[1] /\ call.aggregator = e[2]
                        /\ call.holder = clusterLabelHolders[c]
                        /\ call.unit = AggSuffix(e[1], e[2])
                        /\ \E group \in call.groups : Grouped(c, cid, group)
    BY DEF WorkloadCovered
  <2>1. phase > 19
    BY SinglesKnown DEF CallsInv
  <2>2. memQueryMap["avg"] = {"mem", "rss", "workingSet"}
    BY DEF memQueryMap
  <2>3. PICK m, agg : e = <<m, agg>> /\ <<m, agg>> \in Expected
    BY DEF Expected
  <2>4. e[1] = m /\ e[2] = agg
    BY <2>3
  <2>5. Made(m, agg, AggSuffix(m, agg))
    <3>1. CASE m \in {"cpuMCores", "mem", "rss", "workingSet"} /\ agg \in {"max", "avg"}
      BY <2>1, <3>1, SeparatesMade
    <3>2. CASE m \in {"disk", "cpuThrottlingPercent"} /\ agg \in {"max", "avg"}
      <4>1. AggSuffix(m, agg) = ""
        BY <2>2, <3>2 DEF AggSuffix
      <4> QED BY <2>1, <3>2, <4>1, OthersMade
    <3>3. CASE (m = "cpuThrottlingSeconds" /\ agg = "sum") \/ (m = "restarts" /\ agg = "max")
      <4>1. AggSuffix(m, agg) = ""
        BY <2>2, <3>3 DEF AggSuffix
      <4> QED BY <2>1, <3>3, <4>1, OthersMade
    <3>4. CASE /\ HasExporter("ephemeral")
               /\ m = "ephemeralStorageUsageBytes" /\ agg \in {"max", "avg"}
      <4>1. AggSuffix(m, agg) = ""
        BY <2>2, <3>4 DEF AggSuffix
      <4> QED BY <2>1, <3>4, <4>1, OthersMade
    <3>5. CASE /\ DetermineGpuExporter # None
               /\ m \in {"gpuUtilization", "gpuUtilizationGpus", "gpuMemUsed"}
               /\ agg \in {"max", "avg"}
      <4>1. AggSuffix(m, agg) = ""
        BY <2>2, <3>5 DEF AggSuffix
      <4> QED BY <2>1, <3>5, <4>1, GpusMade
    <3>6. \/ m \in {"cpuMCores", "mem", "rss", "workingSet"} /\ agg \in {"max", "avg"}
          \/ m \in {"disk", "cpuThrottlingPercent"} /\ agg \in {"max", "avg"}
          \/ (m = "cpuThrottlingSeconds" /\ agg = "sum") \/ (m = "restarts" /\ agg = "max")
          \/ /\ HasExporter("ephemeral")
             /\ m = "ephemeralStorageUsageBytes" /\ agg \in {"max", "avg"}
          \/ /\ DetermineGpuExporter # None
             /\ m \in {"gpuUtilization", "gpuUtilizationGpus", "gpuMemUsed"}
             /\ agg \in {"max", "avg"}
      BY <2>3 DEF Expected
    <3> QED BY ONLY <3>1, <3>2, <3>3, <3>4, <3>5, <3>6
  <2> QED BY <2>4, <2>5, CallReaches
<1> QED BY <1>1, InitGroups, StepGroups, InitCalls, StepCalls, InitPlaces, StepPlaces,
           OwnershipInvariant, PTL DEF Spec

-----------------------------------------------------------------------------
(* Limits and requests *)

LimitMetric == {"limits", "cpuLimit", "memLimit", "requests", "cpuRequest", "memRequest"}

\* A stage that has nothing to do with limits or requests.
OfOthers(stage) ==
  /\ stage.query # "memRequest"
  /\ stage.handler = "metric" => stage.metric \notin LimitMetric

AllOfOthers(s) ==
  /\ IsSequence(s)
  /\ \A i \in 1 .. Len(s) : OfOthers(s[i])

\* The first two groups of stages, with such stages after them.
WithLimits(s) ==
  /\ IsSequence(s)
  /\ Len(s) >= 19
  /\ \A i \in 1 .. 5 : s[i] = OwnerStages[i]
  /\ \A i \in 1 .. 14 : s[5 + i] = ContainerStages[i]
  /\ \A i \in 20 .. Len(s) : OfOthers(s[i])

\* Each group of stages after those.
LEMMA OthersStages ==
  /\ AllOfOthers(PodStages) /\ AllOfOthers(ObjectStages) /\ AllOfOthers(JobStages)
  /\ AllOfOthers(HpaStages) /\ AllOfOthers(SizeStages)
<1>1. AllOfOthers(PodStages)
  <2>1. Len(PodStages) = 8 /\ PodStages = [i \in 1 .. 8 |-> PodStages[i]]
    BY DEF PodStages
  <2>2. /\ OfOthers(PodStages[1]) /\ OfOthers(PodStages[2]) /\ OfOthers(PodStages[3])
        /\ OfOthers(PodStages[4]) /\ OfOthers(PodStages[5]) /\ OfOthers(PodStages[6])
        /\ OfOthers(PodStages[7]) /\ OfOthers(PodStages[8])
    BY DEF PodStages, Stage, OfOthers, LimitMetric
  <2> QED BY <2>1, <2>2 DEF AllOfOthers, IsSequence
<1>2. AllOfOthers(ObjectStages)
  <2>1. Len(ObjectStages) = 12 /\ ObjectStages = [i \in 1 .. 12 |-> ObjectStages[i]]
    BY DEF ObjectStages
  <2>2. /\ OfOthers(ObjectStages[1]) /\ OfOthers(ObjectStages[2]) /\ OfOthers(ObjectStages[3])
        /\ OfOthers(ObjectStages[4]) /\ OfOthers(ObjectStages[5]) /\ OfOthers(ObjectStages[6])
        /\ OfOthers(ObjectStages[7]) /\ OfOthers(ObjectStages[8]) /\ OfOthers(ObjectStages[9])
        /\ OfOthers(ObjectStages[10]) /\ OfOthers(ObjectStages[11]) /\ OfOthers(ObjectStages[12])
    BY DEF ObjectStages, Stage, OfOthers, LimitMetric
  <2> QED BY <2>1, <2>2 DEF AllOfOthers, IsSequence
<1>3. AllOfOthers(JobStages)
  <2>1. Len(JobStages) = 13 /\ JobStages = [i \in 1 .. 13 |-> JobStages[i]]
    BY DEF JobStages
  <2>2. /\ OfOthers(JobStages[1]) /\ OfOthers(JobStages[2]) /\ OfOthers(JobStages[3])
        /\ OfOthers(JobStages[4]) /\ OfOthers(JobStages[5]) /\ OfOthers(JobStages[6])
        /\ OfOthers(JobStages[7]) /\ OfOthers(JobStages[8]) /\ OfOthers(JobStages[9])
        /\ OfOthers(JobStages[10]) /\ OfOthers(JobStages[11]) /\ OfOthers(JobStages[12])
        /\ OfOthers(JobStages[13])
    BY DEF JobStages, Stage, OfOthers, LimitMetric
  <2> QED BY <2>1, <2>2 DEF AllOfOthers, IsSequence
<1>4. AllOfOthers(HpaStages)
  <2>1. Len(HpaStages) = 4 /\ HpaStages = [i \in 1 .. 4 |-> HpaStages[i]]
    BY DEF HpaStages
  <2>2. /\ OfOthers(HpaStages[1]) /\ OfOthers(HpaStages[2]) /\ OfOthers(HpaStages[3])
        /\ OfOthers(HpaStages[4])
    BY DEF HpaStages, Stage, OfOthers, LimitMetric
  <2> QED BY <2>1, <2>2 DEF AllOfOthers, IsSequence
<1>5. AllOfOthers(SizeStages)
  <2>1. Len(SizeStages) = 8 /\ SizeStages = [i \in 1 .. 8 |-> SizeStages[i]]
    BY DEF SizeStages
  <2>2. /\ OfOthers(SizeStages[1]) /\ OfOthers(SizeStages[2]) /\ OfOthers(SizeStages[3])
        /\ OfOthers(SizeStages[4]) /\ OfOthers(SizeStages[5]) /\ OfOthers(SizeStages[6])
        /\ OfOthers(SizeStages[7]) /\ OfOthers(SizeStages[8])
    BY DEF SizeStages, Stage, OfOthers, LimitMetric
  <2> QED BY <2>1, <2>2 DEF AllOfOthers, IsSequence
<1> QED BY <1>1, <1>2, <1>3, <1>4, <1>5

\* More of the others can be added to the list.
LEMMA WithLimitsExtended ==
  ASSUME NEW s, NEW t, WithLimits(s), AllOfOthers(t)
  PROVE  WithLimits(s \o t)
<1>1. /\ IsSequence(s \o t)
      /\ Len(s \o t) = Len(s) + Len(t) /\ Len(s) \in Nat /\ Len(t) \in Nat /\ Len(s) >= 19
      /\ \A i \in 1 .. Len(s) : (s \o t)[i] = s[i]
      /\ \A i \in (Len(s) + 1) .. Len(s \o t) :
           (s \o t)[i] = t[i - Len(s)] /\ i - Len(s) \in 1 .. Len(t)
  <2>1. IsSequence(s) /\ IsSequence(t) /\ Len(s) >= 19
    BY DEF WithLimits, AllOfOthers
  <2>2. Len(s) \in Nat /\ Len(t) \in Nat
    BY <2>1 DEF IsSequence
  <2> QED BY <2>1, <2>2, Joined
<1>2. ASSUME NEW i \in 20 .. Len(s \o t) PROVE OfOthers((s \o t)[i])
  <2>1. CASE i \in 1 .. Len(s)
    <3>1. i \in 20 .. Len(s)
      BY <1>1, <2>1
    <3> QED BY <1>1, <2>1, <3>1 DEF WithLimits
  <2>2. CASE i \notin 1 .. Len(s)
    <3>1. i \in (Len(s) + 1) .. Len(s \o t)
      BY <1>1, <2>2
    <3> QED BY <1>1, <3>1 DEF AllOfOthers
  <2> QED BY <2>1, <2>2
<1>3. ASSUME NEW i \in 1 .. 14 PROVE (s \o t)[5 + i] = ContainerStages[i]
  <2>1. 5 + i \in 1 .. Len(s)
    BY <1>1
  <2> QED BY <1>1, <2>1 DEF WithLimits
<1>4. Len(s \o t) >= 19 /\ \A i \in 1 .. 5 : (s \o t)[i] = OwnerStages[i]
  <2>1. \A i \in 1 .. 5 : i \in 1 .. Len(s)
    BY <1>1
  <2>2. Len(s \o t) >= 19
    BY <1>1
  <2> QED BY <1>1, <2>1, <2>2 DEF WithLimits
<1> QED BY <1>1, <1>2, <1>3, <1>4 DEF WithLimits

\* The list of all stages.
LEMMA StagesWithLimits == WithLimits(Stages)
<1>1. IsSequence(OwnerStages) /\ Len(OwnerStages) = 5
  BY DEF OwnerStages, IsSequence
<1>2. IsSequence(ContainerStages) /\ Len(ContainerStages) = 14
  BY ContainerStagesLater DEF AllLater, ContainerStages
<1> DEFINE a == OwnerStages
           b == ContainerStages
<1>3. WithLimits(a \o b)
  <2>1. IsJoin(a \o b, a, b)
    BY <1>1, <1>2, JoinedAt
  <2>2. Len(a) = 5 /\ Len(b) = 14
    BY <1>1, <1>2
  <2> HIDE DEF a, b
  <2>3. /\ IsSequence(a \o b) /\ Len(a \o b) = 5 + 14
        /\ \A i \in 1 .. 5 : (a \o b)[i] = a[i]
        /\ \A i \in 1 .. 14 : (a \o b)[5 + i] = b[i]
    BY ONLY <2>1, <2>2 DEF IsJoin
  <2>4. \A i \in 20 .. (5 + 14) : FALSE
    OBVIOUS
  <2>5. 5 + 14 >= 19
    OBVIOUS
  <2> QED BY ONLY <2>3, <2>4, <2>5 DEF WithLimits, a, b
<1> QED BY <1>3, OthersStages, WithLimitsExtended DEF Stages

\* The query by resource, the legacy query, and the number of the stage of that.
Legacy == {<<"limits", "cpuLimit", 11>>, <<"limits", "memLimit", 12>>,
           <<"requests", "cpuRequest", 14>>, <<"requests", "memRequest", 15>>}

\* Where in the list limits and requests are asked for.
LEMMA LimitStages ==
  /\ 15 \in DOMAIN Stages
  /\ \A i \in DOMAIN Stages : Stages[i].query = "memRequest" <=> i = 15
  /\ \A i \in DOMAIN Stages : Stages[i].handler = "metric" /\ Stages[i].metric \in LimitMetric =>
                                Stages[i].query = Stages[i].metric
  /\ \A i \in DOMAIN Stages : i \in 6 .. 15 => Stages[i].handler = "metric"
  /\ \A l \in Legacy : /\ l[3] \in 11 .. 15
                       /\ Stages[l[3]].query = l[2] /\ Stages[l[3]].metric = l[2]
                       /\ Given(Stages[l[3]].given) = SomeMissing(l[1])
<1>1. /\ DOMAIN Stages = 1 .. Len(Stages) /\ Len(Stages) \in Nat /\ Len(Stages) >= 19
  BY StagesWithLimits DEF WithLimits, IsSequence
<1>2. /\ \A i \in 1 .. 5 : Stages[i] = OwnerStages[i]
      /\ \A i \in 1 .. 14 : Stages[5 + i] = ContainerStages[i]
      /\ \A i \in 20 .. Len(Stages) : OfOthers(Stages[i])
  BY StagesWithLimits DEF WithLimits
<1>3. ASSUME NEW i \in 1 .. 5 PROVE OfOthers(OwnerStages[i])
  <2>1. i = 1 \/ i = 2 \/ i = 3 \/ i = 4 \/ i = 5
    OBVIOUS
  <2>2. /\ OfOthers(OwnerStages[1]) /\ OfOthers(OwnerStages[2]) /\ OfOthers(OwnerStages[3])
        /\ OfOthers(OwnerStages[4]) /\ OfOthers(OwnerStages[5])
    BY DEF OwnerStages, Stage, OfOthers
  <2> QED BY <2>1, <2>2
<1>4. \A i \in 1 .. 14 : i = 1 \/ i = 2 \/ i = 3 \/ i = 4 \/ i = 5 \/ i = 6 \/ i = 7 \/ i = 8
                        \/ i = 9 \/ i = 10 \/ i = 11 \/ i = 12 \/ i = 13 \/ i = 14
  OBVIOUS
<1>5. ASSUME NEW i \in 1 .. 14
      PROVE  /\ ContainerStages[i].query = "memRequest" <=> i = 10
             /\ ContainerStages[i].metric \in LimitMetric =>
                  ContainerStages[i].query = ContainerStages[i].metric
             /\ ContainerStages[i].handler = "metric"
  <2>1. \A j \in 1 .. 14 : ContainerStages[j].handler = "metric"
    <3>1. /\ ContainerStages[1].handler = "metric" /\ ContainerStages[2].handler = "metric"
          /\ ContainerStages[3].handler = "metric" /\ ContainerStages[4].handler = "metric"
          /\ ContainerStages[5].handler = "metric" /\ ContainerStages[6].handler = "metric"
          /\ ContainerStages[7].handler = "metric" /\ ContainerStages[8].handler = "metric"
          /\ ContainerStages[9].handler = "metric" /\ ContainerStages[10].handler = "metric"
          /\ ContainerStages[11].handler = "metric" /\ ContainerStages[12].handler = "metric"
          /\ ContainerStages[13].handler = "metric" /\ ContainerStages[14].handler = "metric"
      BY DEF ContainerStages, Stage
    <3> QED BY <1>4, <3>1
  <2>2. \A j \in 1 .. 14 : ContainerStages[j].query = "memRequest" <=> j = 10
    <3>1. /\ ContainerStages[1].query # "memRequest" /\ ContainerStages[2].query # "memRequest"
          /\ ContainerStages[3].query # "memRequest" /\ ContainerStages[4].query # "memRequest"
          /\ ContainerStages[5].query # "memRequest" /\ ContainerStages[6].query # "memRequest"
          /\ ContainerStages[7].query # "memRequest" /\ ContainerStages[8].query # "memRequest"
          /\ ContainerStages[9].query # "memRequest" /\ ContainerStages[10].query = "memRequest"
          /\ ContainerStages[11].query # "memRequest" /\ ContainerStages[12].query # "memRequest"
          /\ ContainerStages[13].query # "memRequest" /\ ContainerStages[14].query # "memRequest"
      BY DEF ContainerStages, Stage
    <3> QED BY <1>4, <3>1
  <2>3. \A j \in 1 .. 14 : ContainerStages[j].metric \in LimitMetric =>
                             ContainerStages[j].query = ContainerStages[j].metric
    <3>1. /\ ContainerStages[1].metric \notin LimitMetric
          /\ ContainerStages[2].metric \notin LimitMetric
          /\ ContainerStages[3].metric \notin LimitMetric
          /\ ContainerStages[4].metric \notin LimitMetric
          /\ ContainerStages[11].metric \notin LimitMetric
          /\ ContainerStages[12].metric \notin LimitMetric
          /\ ContainerStages[13].metric \notin LimitMetric
          /\ ContainerStages[14].metric \notin LimitMetric
      BY DEF ContainerStages, Stage, LimitMetric
    <3>2. /\ ContainerStages[5].query = ContainerStages[5].metric
          /\ ContainerStages[6].query = ContainerStages[6].metric
          /\ ContainerStages[7].query = ContainerStages[7].metric
          /\ ContainerStages[8].query = ContainerStages[8].metric
          /\ ContainerStages[9].query = ContainerStages[9].metric
          /\ ContainerStages[10].query = ContainerStages[10].metric
      BY DEF ContainerStages, Stage
    <3> QED BY <1>4, <3>1, <3>2
  <2> QED BY <2>1, <2>2, <2>3
<1>6. ASSUME NEW i \in DOMAIN Stages
      PROVE  /\ Stages[i].query = "memRequest" <=> i = 15
             /\ Stages[i].handler = "metric" /\ Stages[i].metric \in LimitMetric =>
                  Stages[i].query = Stages[i].metric
             /\ i \in 6 .. 15 => Stages[i].handler = "metric"
  <2> DEFINE n == Len(Stages)
  <2>0. i \in 1 .. n /\ n \in Nat
    BY <1>1
  <2> HIDE DEF n
  <2>1. CASE i \in 1 .. 5
    <3>1. OfOthers(Stages[i]) /\ i # 15 /\ ~(i \in 6 .. 15)
      BY <1>2, <1>3, <2>1
    <3> QED BY <3>1 DEF OfOthers
  <2>2. CASE i \in 6 .. 19
    <3>1. i - 5 \in 1 .. 14 /\ 5 + (i - 5) = i /\ (i = 15 <=> i - 5 = 10)
      BY <2>2
    <3>2. Stages[i] = ContainerStages[i - 5]
      BY ONLY <1>2, <3>1
    <3> QED BY <1>5, <3>1, <3>2
  <2>3. CASE i \in 20 .. n
    <3>1. OfOthers(Stages[i])
      BY <1>2, <2>3 DEF n
    <3>2. i # 15 /\ ~(i \in 6 .. 15)
      BY <2>0, <2>3
    <3> QED BY <3>1, <3>2 DEF OfOthers
  <2>4. i \in 1 .. 5 \/ i \in 6 .. 19 \/ i \in 20 .. n
    BY <2>0
  <2> QED BY <2>1, <2>2, <2>3, <2>4
<1>7. /\ Stages[11] = ContainerStages[6] /\ Stages[12] = ContainerStages[7]
      /\ Stages[14] = ContainerStages[9] /\ Stages[15] = ContainerStages[10]
  <2>1. 5 + 6 = 11 /\ 5 + 7 = 12 /\ 5 + 9 = 14 /\ 5 + 10 = 15
        /\ 6 \in 1 .. 14 /\ 7 \in 1 .. 14 /\ 9 \in 1 .. 14 /\ 10 \in 1 .. 14
    OBVIOUS
  <2> QED BY ONLY <1>2, <2>1
<1>8. /\ ContainerStages[6].given = "limitsMissing" /\ ContainerStages[7].given = "limitsMissing"
      /\ ContainerStages[9].given = "requestsMissing" /\ ContainerStages[10].given = "requestsMissing"
      /\ ContainerStages[6].query = "cpuLimit" /\ ContainerStages[7].query = "memLimit"
      /\ ContainerStages[9].query = "cpuRequest" /\ ContainerStages[10].query = "memRequest"
      /\ ContainerStages[6].metric = "cpuLimit" /\ ContainerStages[7].metric = "memLimit"
      /\ ContainerStages[9].metric = "cpuRequest" /\ ContainerStages[10].metric = "memRequest"
  BY DEF ContainerStages, Stage
<1>9. /\ Given("limitsMissing") = SomeMissing("limits")
      /\ Given("requestsMissing") = SomeMissing("requests")
  BY DEF Given
<1>10. 15 \in DOMAIN Stages
  <2> DEFINE n == Len(Stages)
  <2>1. n \in Nat /\ n >= 19 /\ DOMAIN Stages = 1 .. n
    BY <1>1
  <2> HIDE DEF n
  <2> QED BY ONLY <2>1
<1>11. ASSUME NEW l \in Legacy
       PROVE  /\ l[3] \in 11 .. 15
              /\ Stages[l[3]].query = l[2] /\ Stages[l[3]].metric = l[2]
              /\ Given(Stages[l[3]].given) = SomeMissing(l[1])
  BY <1>7, <1>8, <1>9 DEF Legacy
<1> QED BY <1>6, <1>10, <1>11

-----------------------------------------------------------------------------
\* The series of this cluster has been through the handler of the stage.
Handled(n, c, s) == position > n \/ (position = n /\ asked /\ <<c, s>> \notin pending)

\* The series tells of no container, or by the names that count in its cluster, and the
\* container it tells of has the attribute.
Recorded(c, s, a) ==
  /\ HolderOf(c, s) \in {None, clusterLabelHolders[c]}
  /\ \A cid \in getContainer(c, s) : containers[c][cid].value[a] # UnknownValue

\* So are all series that went through the handlers of the legacy queries.
LegacyRecorded ==
  \A l \in Legacy : \A c \in Cluster : AnswersTo(c, l[1]) = {} =>
    \A s \in AnswersTo(c, l[2]) : Handled(l[3], c, s) => Recorded(c, s, l[2])

\* A container has all attributes, known or not.
Attributed(container) == "value" \in DOMAIN container /\ DOMAIN container.value = Attribute

\* What clusters that only answer the legacy queries have told of is recorded.
LimitsInv ==
  /\ clusterLabelHolders = [c \in Cluster |-> clusterLabelHolders[c]]
  /\ \A c \in Cluster : clusterLabelHolders[c] \in LabelHolder \cup {None}
  /\ \A c \in Cluster : \A cid \in DOMAIN containers[c] : Attributed(containers[c][cid])
  /\ LegacyRecorded

\* A cluster without an answer is missing.
LEMMA MissingKnown ==
  ASSUME NEW c \in Cluster, NEW q, AnswersTo(c, q) = {}
  PROVE  SomeMissing(q)
<1> DEFINE A == {d \in Cluster : AnswersTo(d, q) # {}}
<1>1. A \subseteq Cluster /\ c \notin A
  OBVIOUS
<1> HIDE DEF A
<1>2. /\ A \subseteq Cluster \ {c}
      /\ IsFiniteSet(Cluster \ {c})
      /\ Cardinality(Cluster \ {c}) = Cardinality(Cluster) - 1
      /\ Cardinality(Cluster) \in Nat
  BY <1>1, OwnersAssumption, FS_RemoveElement, FS_CardinalityType
<1>3. Cardinality(A) \in Nat /\ Cardinality(A) <= Cardinality(Cluster \ {c})
  BY <1>2, FS_Subset, FS_CardinalityType
<1>4. Cardinality(A) < Cardinality(Cluster)
  BY <1>2, <1>3
<1> QED BY <1>4 DEF SomeMissing, Answering, A

\* A step that changes no container and no names of labels, and brings no series through.
LEMMA LimitsKept ==
  ASSUME LimitsInv, UNCHANGED <<answers, containers, clusterLabelHolders>>,
         \A l \in Legacy : \A c \in Cluster : \A s \in AnswersTo(c, l[2]) :
           AnswersTo(c, l[1]) = {} /\ Handled(l[3], c, s)' =>
             Handled(l[3], c, s) /\ getContainer(c, s)' = getContainer(c, s)
  PROVE  LimitsInv'
<1>1. LegacyRecorded'
  <2> SUFFICES ASSUME NEW l \in Legacy, NEW c \in Cluster, AnswersTo(c, l[1]) = {},
                      NEW s \in AnswersTo(c, l[2]), Handled(l[3], c, s)'
               PROVE  Recorded(c, s, l[2])'
    BY DEF LegacyRecorded, AnswersTo
  <2>1. Recorded(c, s, l[2]) /\ getContainer(c, s)' = getContainer(c, s)
    BY DEF LimitsInv, LegacyRecorded
  <2>2. HolderOf(c, s)' = HolderOf(c, s)
    BY DEF HolderOf
  <2> QED BY <2>1, <2>2 DEF Recorded
<1> QED BY <1>1 DEF LimitsInv

\* Before the first stage of limits none of their series has been through a handler.
LEMMA NoneHandled ==
  ASSUME position \in 0 .. 10
  PROVE  \A l \in Legacy : \A c, s : ~Handled(l[3], c, s)
BY LimitStages DEF Handled

\* A container after a metric: the attributes it sets are known then.
LEMMA UpdatedKnown ==
  ASSUME NEW x, Attributed(x), NEW metric, NEW c, NEW s, NEW a \in {"cpuLimit", "memLimit", "cpuRequest", "memRequest"},
         metric \in LimitMetric => s.value # UnknownValue,
         x.value[a] # UnknownValue \/ metric = a
  PROVE  Updated(x, metric, c, s).value[a] # UnknownValue
<1>1. a \in Attribute
  BY DEF Attribute
<1>2. CASE metric = "gpuMemoryTotal"
  <2>1. Updated(x, metric, c, s).value = AddGpuMemory(x.value, s.value)
    BY <1>2 DEF Updated, Attributed
  <2>2. PICK v : v = x.value /\ DOMAIN v = Attribute /\ v[a] # UnknownValue
    BY <1>2 DEF Attributed
  <2>3. AddGpuMemory(v, s.value)[a] = v[a]
    BY <1>1, <2>2 DEF AddGpuMemory
  <2> QED BY <2>1, <2>2, <2>3
<1>3. CASE metric # "gpuMemoryTotal"
  <2> DEFINE set == \E e \in EffectsOf(metric, c, s) : e.attribute = a
  <2>1. Updated(x, metric, c, s).value[a] = IF set THEN s.value ELSE x.value[a]
    BY <1>1, <1>3 DEF Updated, Attributed
  <2>2. set => metric \in LimitMetric
    BY DEF EffectsOf, Effects, Effect, LimitMetric
  <2>3. metric = a => set
    <3>1. SUFFICES ASSUME metric = a PROVE \E e \in EffectsOf(a, c, s) : e.attribute = a
      OBVIOUS
    <3>2. \E f : Effect(a, None, a, f, None) \in Effects
      BY DEF Effects
    <3>3. PICK f : Effect(a, None, a, f, None) \in Effects
      BY <3>2
    <3>4. /\ Effect(a, None, a, f, None).metric = a /\ Effect(a, None, a, f, None).resource = None
          /\ Effect(a, None, a, f, None).exporter = None /\ Effect(a, None, a, f, None).attribute = a
      BY DEF Effect
    <3> QED BY <3>3, <3>4 DEF EffectsOf
  <2> HIDE DEF set
  <2> QED BY <2>1, <2>2, <2>3
<1> QED BY <1>2, <1>3

\* A metric leaves a container all its attributes.
LEMMA UpdatedAttributed ==
  ASSUME NEW x, Attributed(x), NEW metric, NEW c, NEW s
  PROVE  Attributed(Updated(x, metric, c, s))
<1>1. DOMAIN AddGpuMemory(x.value, s.value) = Attribute
  <2>1. PICK v : v = x.value /\ DOMAIN v = Attribute
    BY DEF Attributed
  <2>2. DOMAIN AddGpuMemory(v, s.value) = Attribute
    BY <2>1 DEF AddGpuMemory
  <2> QED BY <2>1, <2>2
<1>2. /\ "value" \in DOMAIN Updated(x, metric, c, s)
      /\ Updated(x, metric, c, s).value =
           IF metric = "gpuMemoryTotal" THEN AddGpuMemory(x.value, s.value)
           ELSE [a \in Attribute |-> IF \E e \in EffectsOf(metric, c, s) : e.attribute = a
                                     THEN s.value ELSE x.value[a]]
  BY DEF Updated, Attributed
<1> QED BY <1>1, <1>2 DEF Attributed


\* A series whose cluster's names of labels are decided on is read by those, and the one
\* that decides by the ones it decides on.
LEMMA HolderFixed ==
  ASSUME LimitsInv, NEW c \in Cluster, NEW s, DetectHolder(c, s)
  PROVE  /\ clusterLabelHolders' = [d \in Cluster |-> clusterLabelHolders'[d]]
         /\ \A d \in Cluster : clusterLabelHolders'[d] \in LabelHolder \cup {None}
         /\ HolderOf(c, s)' = HolderOf(c, s)
         /\ HolderOf(c, s) \in {None, clusterLabelHolders'[c]}
         /\ \A d \in Cluster : \A r : HolderOf(d, r) \in {None, clusterLabelHolders[d]} =>
              /\ HolderOf(d, r)' = HolderOf(d, r)
              /\ HolderOf(d, r) \in {None, clusterLabelHolders'[d]}
<1> DEFINE h == HolderOf(c, s)
<1>1. h \in LabelHolder \cup {None} /\ (clusterLabelHolders[c] # None => h \in {None, clusterLabelHolders[c]})
  BY DEF HolderOf, LabelHolder, LimitsInv
<1>2. clusterLabelHolders' = IF h # None THEN [clusterLabelHolders EXCEPT ![c] = h] ELSE clusterLabelHolders
  BY DEF DetectHolder
<1>3. \A d \in Cluster : clusterLabelHolders'[d] = IF d = c /\ h # None THEN h ELSE clusterLabelHolders[d]
  BY <1>2 DEF LimitsInv
<1>4. HolderOf(c, s)' = HolderOf(c, s) /\ h \in {None, clusterLabelHolders'[c]}
  BY <1>1, <1>3, HoldersAssumption DEF HolderOf, LabelHolder, LimitsInv
<1>5. ASSUME NEW d \in Cluster, NEW r, HolderOf(d, r) \in {None, clusterLabelHolders[d]}
      PROVE  /\ HolderOf(d, r)' = HolderOf(d, r)
             /\ HolderOf(d, r) \in {None, clusterLabelHolders'[d]}
  <2>1. CASE clusterLabelHolders'[d] = clusterLabelHolders[d]
    BY <1>5, <2>1 DEF HolderOf
  <2>2. CASE clusterLabelHolders'[d] # clusterLabelHolders[d]
    <3>1. clusterLabelHolders[d] = None /\ HolderOf(d, r) = None
      BY <1>1, <1>3, <1>5, <2>2 DEF LimitsInv
    <3>2. clusterLabelHolders'[d] \in LabelHolder
      BY <1>1, <1>3, <2>2
    <3>3. \A g \in LabelHolder : ~HasLabels(r, LabelNames(g))
      BY <3>1, HoldersAssumption DEF HolderOf, LabelHolder
    <3>4. HolderOf(d, r)' = None
      BY <3>3 DEF HolderOf, LabelHolder
    <3> QED BY <3>1, <3>4
  <2> QED BY <2>1, <2>2
<1>6. /\ clusterLabelHolders' = [d \in Cluster |-> clusterLabelHolders'[d]]
      /\ \A d \in Cluster : clusterLabelHolders'[d] \in LabelHolder \cup {None}
  BY <1>1, <1>2, <1>3 DEF LimitsInv
<1> QED BY <1>4, <1>5, <1>6 DEF h

\* What a series tells of depends on the registered owners, objects and containers, and on
\* the names of labels.
LEMMA ContainerKept ==
  ASSUME UNCHANGED ownerships, NEW c \in Cluster, DOMAIN objects'[c] = DOMAIN objects[c],
         DOMAIN containers'[c] = DOMAIN containers[c]
  PROVE  \A s : HolderOf(c, s)' = HolderOf(c, s) => getContainer(c, s)' = getContainer(c, s)
BY DEF getContainer, getOwner, getOwnerId, TopLevelOwner

\* A series of a metric of containers.
LEMMA MeasureLimits ==
  ASSUME IInv, PlacesInv, LimitsInv, ~Done, NEW t \in pending, TakeSeries(t[1], t[2]),
         Measure(t[1], t[2])
  PROVE  LimitsInv'
<1> DEFINE c == t[1]
           s == t[2]
           m == Current.metric
           found == IF m = "runtime" THEN getOTelContainer(c, s) ELSE getContainer(c, s)
<1>1. /\ asked /\ position \in DOMAIN Stages /\ UNCHANGED <<answers, position, asked>>
      /\ pending' = pending \ {<<c, s>>}
  BY DEF TakeSeries, Done
<1>2. c \in Cluster /\ s \in AnswersTo(c, Current.query)
  BY <1>1 DEF IInv, Asking
<1>3. Current.handler = "metric" /\ GetContainerMetric(m, c, s)
  BY DEF Measure
<1>4. m \in LimitMetric => s.value # UnknownValue
  <2> SUFFICES ASSUME m \in LimitMetric PROVE s.value # UnknownValue
    OBVIOUS
  <2>1. Current.query = m
    BY <1>1, <1>3, LimitStages DEF Current
  <2>2. PICK a, q : a = answers /\ q = m
    OBVIOUS
  <2>3. a \in Answers /\ q \in DOMAIN a[c] /\ s \in a[c][q]
    BY <1>1, <1>2, <2>1, <2>2 DEF IInv, Asking, AnswersTo
  <2>4. q \in {"limits", "cpuLimit", "memLimit", "requests", "cpuRequest", "memRequest"} \cap DOMAIN a[c]
    BY <2>2, <2>3 DEF LimitMetric
  <2> QED BY <1>2, <2>3, <2>4, LimitsReported
<1>5. /\ UNCHANGED ownerships
      /\ \A d \in Cluster : DOMAIN objects'[d] = DOMAIN objects[d] /\ DOMAIN containers'[d] = DOMAIN containers[d]
  BY <1>2, OthersKeep DEF PlacesInv, AllAtHome
<1>6. \A d \in Cluster : \A cid \in DOMAIN containers[d] :
        containers'[d][cid] = IF d = c /\ cid \in found THEN Updated(containers[d][cid], m, c, s)
                              ELSE containers[d][cid]
  <2>1. containers' = [containers EXCEPT
          ![c] = [cid \in DOMAIN containers[c] |->
                    IF cid \in found THEN Updated(containers[c][cid], m, c, s) ELSE containers[c][cid]]]
    BY <1>3 DEF GetContainerMetric
  <2> HIDE DEF found, m, c, s
  <2> QED BY <1>2, <2>1 DEF PlacesInv, AllAtHome
<1>7. UNCHANGED clusterLabelHolders \/ (m # "runtime" /\ DetectHolder(c, s))
  BY <1>3 DEF GetContainerMetric
<1>8. /\ clusterLabelHolders' = [d \in Cluster |-> clusterLabelHolders'[d]]
      /\ \A d \in Cluster : clusterLabelHolders'[d] \in LabelHolder \cup {None}
      /\ \A d \in Cluster : \A r : HolderOf(d, r) \in {None, clusterLabelHolders[d]} =>
           /\ HolderOf(d, r)' = HolderOf(d, r)
           /\ HolderOf(d, r) \in {None, clusterLabelHolders'[d]}
  <2>1. CASE UNCHANGED clusterLabelHolders
    BY <2>1 DEF LimitsInv, HolderOf
  <2>2. CASE DetectHolder(c, s)
    BY <1>2, <2>2, HolderFixed
  <2> QED BY <1>7, <2>1, <2>2
<1>9. \A d \in Cluster : \A cid \in DOMAIN containers'[d] : Attributed(containers'[d][cid])
  <2> HIDE DEF found, m, c, s
  <2> QED BY <1>5, <1>6, UpdatedAttributed DEF LimitsInv
<1>10. ASSUME NEW a \in {"cpuLimit", "memLimit", "cpuRequest", "memRequest"},
              NEW d \in Cluster, NEW cid \in DOMAIN containers[d],
              containers[d][cid].value[a] # UnknownValue \/ (d = c /\ cid \in found /\ m = a)
       PROVE  containers'[d][cid].value[a] # UnknownValue
  <2> HIDE DEF found, m, c, s
  <2>1. Attributed(containers[d][cid])
    BY DEF LimitsInv
  <2>2. CASE d = c /\ cid \in found
    <3>1. PICK x : x = containers[d][cid]
      OBVIOUS
    <3>2. Updated(x, m, c, s).value[a] # UnknownValue
      BY <1>4, <1>10, <2>1, <3>1, UpdatedKnown
    <3> QED BY <1>6, <2>2, <3>1, <3>2
  <2>3. CASE ~(d = c /\ cid \in found)
    BY <1>6, <1>10, <2>3
  <2> QED BY <2>2, <2>3
<1>11. LegacyRecorded'
  <2> SUFFICES ASSUME NEW l \in Legacy, NEW d \in Cluster, AnswersTo(d, l[1]) = {},
                      NEW r \in AnswersTo(d, l[2]), Handled(l[3], d, r)'
               PROVE  Recorded(d, r, l[2])'
    BY <1>1 DEF LegacyRecorded, AnswersTo
  <2>0. l[2] \in {"cpuLimit", "memLimit", "cpuRequest", "memRequest"}
    BY DEF Legacy
  <2>1. \A q : q \in getContainer(d, r) => q \in DOMAIN containers[d]
    BY DEF getContainer
  <2>2. CASE Handled(l[3], d, r)
    <3>1. Recorded(d, r, l[2])
      BY <2>2 DEF LimitsInv, LegacyRecorded
    <3>2. HolderOf(d, r)' = HolderOf(d, r) /\ HolderOf(d, r) \in {None, clusterLabelHolders'[d]}
      BY <1>8, <3>1 DEF Recorded
    <3>3. getContainer(d, r)' = getContainer(d, r)
      BY <1>5, <3>2, ContainerKept
    <3>4. \A cid \in getContainer(d, r) : containers'[d][cid].value[l[2]] # UnknownValue
      BY <1>10, <2>0, <2>1, <3>1 DEF Recorded
    <3> QED BY <3>2, <3>3, <3>4 DEF Recorded
  <2>3. CASE ~Handled(l[3], d, r)
    <3>1. d = c /\ r = s /\ position = l[3]
      BY <1>1, <2>3 DEF Handled
    <3>2. m = l[2] /\ m # "runtime"
      BY <2>0, <3>1, LimitStages DEF Current
    <3>3. DetectHolder(c, s) /\ found = getContainer(c, s)
      BY <1>3, <3>2 DEF GetContainerMetric
    <3>4. HolderOf(c, s)' = HolderOf(c, s) /\ HolderOf(c, s) \in {None, clusterLabelHolders'[c]}
      BY <1>2, <3>3, HolderFixed
    <3>5. getContainer(d, r)' = getContainer(d, r)
      BY <1>5, <3>1, <3>4, ContainerKept
    <3>6. \A cid \in getContainer(d, r) : containers'[d][cid].value[l[2]] # UnknownValue
      BY <1>10, <2>0, <2>1, <3>1, <3>2, <3>3
    <3> QED BY <3>1, <3>4, <3>5, <3>6 DEF Recorded
  <2> QED BY <2>2, <2>3
<1> QED BY <1>8, <1>9, <1>11 DEF LimitsInv


\* A container that is placed has all attributes.
LEMMA PlaceAttributed ==
  ASSUME containers = [c \in Cluster |-> containers[c]],
         \A c \in Cluster : \A cid \in DOMAIN containers[c] : Attributed(containers[c][cid]),
         NEW c \in Cluster, NEW s, NEW owner, Place(c, s, owner)
  PROVE  \A d \in Cluster : \A cid \in DOMAIN containers'[d] : Attributed(containers'[d][cid])
<1>1. Attributed(NewContainer(s))
  BY DEF Attributed, NewContainer
<1>2. PICK n, new : n = NewContainer(s) /\ new = <<Key(owner, s.namespace), s.container>>
  OBVIOUS
<1>3. containers' = [containers EXCEPT ![c] = Assigned(@, new, n)]
  BY <1>2 DEF Place
<1>4. \A d \in Cluster : containers'[d] = IF d = c THEN Assigned(containers[d], new, n) ELSE containers[d]
  BY <1>3
<1>5. ASSUME NEW d \in Cluster, NEW cid \in DOMAIN containers'[d] PROVE Attributed(containers'[d][cid])
  <2>1. CASE d # c
    BY <1>4, <2>1
  <2>2. CASE d = c
    <3>1. containers'[d] = [x \in DOMAIN containers[d] \cup {new} |->
                              IF x = new THEN n ELSE containers[d][x]]
      BY <1>4, <2>2 DEF Assigned
    <3>2. cid \in DOMAIN containers[d] \cup {new}
      BY <3>1
    <3>3. containers'[d][cid] = IF cid = new THEN n ELSE containers[d][cid]
      BY ONLY <3>1, <3>2
    <3> QED BY <1>1, <1>2, <3>2, <3>3
  <2> QED BY <2>1, <2>2
<1> QED BY <1>5

\* A series of any other handler.
LEMMA OtherSeriesLimits ==
  ASSUME IInv, PlacesInv, LimitsInv, ~Done, NEW t \in pending, TakeSeries(t[1], t[2]),
         \/ Own(t[1], t[2])
         \/ Contain(t[1], t[2])
         \/ Describe(t[1], t[2])
         \/ Scale(t[1], t[2])
  PROVE  LimitsInv'
<1>1. /\ asked /\ position \in DOMAIN Stages /\ UNCHANGED <<answers, position, asked>>
      /\ pending' = pending \ {<<t[1], t[2]>>}
  BY DEF TakeSeries, Done
<1>2. t[1] \in Cluster
  BY <1>1 DEF IInv, Asking
<1>3. UNCHANGED clusterLabelHolders
  BY DEF Own, Contain, Describe, GetObjectLabels, GetObjectMetric, GetOwnedObjectMetric,
         SetObjectMetric, GetNamespaceMetric, Scale, GetHpa, GetHpaLabels, UnchangedButHpas, metricVars
<1>4. CASE Own(t[1], t[2]) \/ Contain(t[1], t[2])
  <2>1. position \in 0 .. 10 /\ position' \in 0 .. 10
    <3>1. Current.handler \in {"owner", "container"}
      BY <1>4 DEF Own, Contain
    <3>2. position \in 1 .. 3 \/ position = 4
      BY <1>1, <3>1, StageNumbers DEF Current
    <3> QED BY <1>1, <3>2
  <2>2. LegacyRecorded'
    <3>1. \A l \in Legacy : \A c, s : ~Handled(l[3], c, s)'
      BY <2>1, LimitStages DEF Handled
    <3> QED BY <3>1 DEF LegacyRecorded
  <2>3. \A d \in Cluster : \A cid \in DOMAIN containers'[d] : Attributed(containers'[d][cid])
    <3>1. CASE UNCHANGED containers
      BY <3>1 DEF LimitsInv
    <3>2. CASE \E owner : Place(t[1], t[2], owner)
      BY <1>2, <3>2, PlaceAttributed DEF LimitsInv, PlacesInv, AllAtHome
    <3> QED BY <1>4, <3>1, <3>2 DEF Own, GetOwner, Contain, AddContainer, ownerVars
  <2> QED BY <1>3, <2>2, <2>3 DEF LimitsInv
<1>5. CASE Describe(t[1], t[2]) \/ Scale(t[1], t[2])
  <2>1. UNCHANGED containers
    BY <1>5 DEF Describe, GetObjectLabels, GetObjectMetric, GetOwnedObjectMetric,
       SetObjectMetric, GetNamespaceMetric, Scale, GetHpa, GetHpaLabels, UnchangedButHpas
  <2>2. /\ UNCHANGED ownerships
        /\ \A d \in Cluster : DOMAIN objects'[d] = DOMAIN objects[d] /\ DOMAIN containers'[d] = DOMAIN containers[d]
    BY <1>2, <1>5, OthersKeep DEF PlacesInv, AllAtHome
  <2>3. \A c \in Cluster : \A s : getContainer(c, s)' = getContainer(c, s)
    <3>1. \A c, s : HolderOf(c, s)' = HolderOf(c, s)
      BY <1>3 DEF HolderOf
    <3> QED BY <2>2, <3>1, ContainerKept
  <2>4. ASSUME NEW l \in Legacy, NEW c, NEW s, Handled(l[3], c, s)' PROVE Handled(l[3], c, s)
    <3>1. position # l[3]
      <4>1. Current.handler # "metric"
        BY <1>5 DEF Describe, Scale
      <4>2. l[3] \in 6 .. 15
        BY LimitStages
      <4> QED BY <1>1, <4>1, <4>2, LimitStages DEF Current
    <3> QED BY <1>1, <2>4, <3>1 DEF Handled
  <2> QED BY <1>1, <1>3, <2>1, <2>3, <2>4, LimitsKept
<1> QED BY <1>4, <1>5

\* The steps of a walk come before all limits.
LEMMA WalkingLimits ==
  ASSUME IInv, PlacesInv, LimitsInv, Walking
  PROVE  LimitsInv'
<1>1. walk # NoWalk /\ UNCHANGED <<position, clusterLabelHolders>>
  BY DEF Walking, Climb, ReachTop, stageVars, metricVars
<1>2. position' = 4 /\ walk.cluster \in Cluster
  BY <1>1 DEF PlacesInv, PathLeads, IInv, Rising
<1>3. \A l \in Legacy : \A c, s : ~Handled(l[3], c, s)'
  BY <1>2, LimitStages DEF Handled
<1>4. \A d \in Cluster : \A cid \in DOMAIN containers'[d] : Attributed(containers'[d][cid])
  <2>1. CASE UNCHANGED containers
    BY <2>1 DEF LimitsInv
  <2>2. CASE \E s, owner : Place(walk.cluster, s, owner)
    BY <1>2, <2>2, PlaceAttributed DEF LimitsInv, PlacesInv, AllAtHome
  <2> QED BY <2>1, <2>2 DEF Walking, Climb, ReachTop
<1> QED BY <1>1, <1>3, <1>4 DEF LimitsInv, LegacyRecorded

\* The other steps bring no series of a cluster that only the legacy query reaches through.
LEMMA OtherStepsLimits ==
  ASSUME IInv, PlacesInv, LimitsInv, Ask \/ EndStage \/ SetUpWriters \/ UNCHANGED collectorVars
  PROVE  LimitsInv'
<1>1. UNCHANGED <<answers, ownerships, objects, containers, clusterLabelHolders>>
  BY DEF Ask, EndStage, SetUpWriters, collectorVars, dataVars, ownerVars, metricVars
<1>2. \A c \in Cluster : \A s : getContainer(c, s)' = getContainer(c, s)
  <2>1. \A c, s : HolderOf(c, s)' = HolderOf(c, s)
    BY <1>1 DEF HolderOf
  <2> QED BY <1>1, <2>1, ContainerKept
<1>3. ASSUME NEW l \in Legacy, NEW c \in Cluster, NEW s \in AnswersTo(c, l[2]),
             AnswersTo(c, l[1]) = {}, Handled(l[3], c, s)'
      PROVE  Handled(l[3], c, s)
  <2>0. l[3] \in 11 .. 15 /\ position \in Nat
    BY LimitStages DEF PlacesInv
  <2>1. CASE Ask
    <3>1. UNCHANGED position /\ asked' /\ ~asked /\ position \in DOMAIN Stages
      BY <2>1 DEF Ask, Done
    <3>2. CASE position = l[3]
      <4>1. Given(Current.given) /\ Current.query = l[2]
        BY <1>3, <3>2, LimitStages, MissingKnown DEF Current
      <4>2. <<c, s>> \in pending'
        BY <2>1, <4>1 DEF Ask
      <4> QED BY <1>3, <2>0, <3>1, <3>2, <4>2 DEF Handled
    <3> QED BY <1>3, <3>1, <3>2 DEF Handled
  <2>2. CASE EndStage
    <3>1. /\ asked /\ ~asked' /\ pending = {}
          /\ position' \in {0, position + 1}
      BY <2>2 DEF EndStage
    <3>2. position' > l[3]
      BY <1>3, <3>1 DEF Handled
    <3>3. position > l[3] \/ position = l[3]
      BY <2>0, <3>1, <3>2
    <3> QED BY <3>1, <3>3 DEF Handled
  <2>3. CASE SetUpWriters
    <3>1. /\ position' = position + 1 /\ position \in DOMAIN Stages
          /\ Current.handler \in {"addWriters", "closeWriters"}
      BY <2>3 DEF SetUpWriters, Done
    <3>2. ~(position \in 6 .. 15)
      BY <3>1, LimitStages DEF Current
    <3>3. position' >= l[3]
      BY <1>3, <2>0, <3>1 DEF Handled
    <3>4. position > l[3]
      BY <2>0, <3>1, <3>2, <3>3
    <3> QED BY <3>4 DEF Handled
  <2>4. CASE UNCHANGED collectorVars
    BY <1>3, <2>4 DEF collectorVars, stageVars, Handled
  <2> QED BY <2>1, <2>2, <2>3, <2>4
<1> QED BY <1>1, <1>2, <1>3, LimitsKept

\* The step of the induction.
LEMMA StepLimits == IInv /\ PlacesInv /\ LimitsInv /\ [Next]_vars => LimitsInv'
<1> SUFFICES ASSUME IInv, PlacesInv, LimitsInv, [Next]_vars PROVE LimitsInv'
  OBVIOUS
<1>1. CASE Series
  <2>1. PICK t \in pending :
          /\ TakeSeries(t[1], t[2])
          /\ \/ Own(t[1], t[2])
             \/ Contain(t[1], t[2])
             \/ Measure(t[1], t[2])
             \/ Describe(t[1], t[2])
             \/ Scale(t[1], t[2])
    BY <1>1 DEF Series
  <2>2. ~Done
    BY <1>1 DEF Series
  <2> QED BY <2>1, <2>2, MeasureLimits, OtherSeriesLimits
<1>2. CASE Ask \/ EndStage \/ SetUpWriters \/ UNCHANGED collectorVars
  BY <1>2, OtherStepsLimits
<1>3. CASE Walking
  BY <1>3, WalkingLimits
<1>4. CASE WriteFiles \/ Separate \/ NextPhase \/ SingleQuery \/ UNCHANGED vars
  <2>1. UNCHANGED collectorVars
    BY <1>4 DEF WriteFiles, Separate, NextPhase, SingleQuery, vars
  <2> QED BY <1>2, <2>1
<1> QED BY <1>1, <1>2, <1>3, <1>4 DEF Next, Collecting

\* To begin with no series has told of anything.
LEMMA InitLimits == Init => LimitsInv
<1> SUFFICES ASSUME Init PROVE LimitsInv
  OBVIOUS
<1>1. position = 1 /\ containers = [c \in Cluster |-> <<>>]
      /\ clusterLabelHolders = [c \in Cluster |-> None]
  BY DEF Init, CollectorInit, OwnersInit, MetricsInit
<1>2. LegacyRecorded
  <2>1. position \in 0 .. 10
    BY <1>1
  <2> QED BY <2>1, NoneHandled DEF LegacyRecorded
<1> QED BY <1>1, <1>2 DEF LimitsInv

\* No cluster that answers only the legacy queries for limits and requests goes without
\* them, whatever the other clusters answer, and although each series is matched by names
\* of labels its cluster's first series decided on.
THEOREM LimitsRecorded == Spec => []LimitsKnown
<1>1. PlacesInv /\ LimitsInv => LimitsKnown
  <2> SUFFICES ASSUME PlacesInv, LimitsInv, Past("memRequest"), NEW c \in Cluster,
                      NEW q \in {<<"limits", "cpuLimit">>, <<"limits", "memLimit">>,
                                 <<"requests", "cpuRequest">>, <<"requests", "memRequest">>},
                      AnswersTo(c, q[1]) = {}, NEW s \in AnswersTo(c, q[2]),
                      NEW cid \in getContainer(c, s)
               PROVE  containers[c][cid].value[q[2]] # UnknownValue
    BY DEF LimitsKnown
  <2>1. StageOf("memRequest") = 15
    BY LimitStages DEF StageOf
  <2>2. position > 15 /\ position \in Nat
    BY <2>1 DEF Past, PlacesInv
  <2>3. PICK l \in Legacy : l[1] = q[1] /\ l[2] = q[2] /\ l[3] <= 15
    BY DEF Legacy
  <2>4. Handled(l[3], c, s)
    <3>1. l[3] \in 11 .. 15
      BY LimitStages
    <3>2. position > l[3]
      BY <2>2, <3>1
    <3> QED BY <3>2 DEF Handled
  <2>5. Recorded(c, s, l[2])
    BY <2>3, <2>4 DEF LimitsInv, LegacyRecorded
  <2> QED BY <2>3, <2>5 DEF Recorded
<1> QED BY <1>1, InitLimits, StepLimits, InitPlaces, StepPlaces, OwnershipInvariant, PTL DEF Spec

-----------------------------------------------------------------------------
(* The columns of the files *)

\* A row all of whose cells fit.
LEMMA FitsAligned ==
  ASSUME NEW row, NEW header, Part(row, Len(header), 0, header)
  PROVE  Aligned(row, header)
<1>1. DOMAIN row = 1 .. Len(row) /\ Len(row) \in Nat
  BY DEF Part, Fits, IsSequence
<1>2. \A i \in 1 .. Len(row) : 0 + i = i
  OBVIOUS
<1> QED BY <1>1, <1>2 DEF Part, Fits, Aligned

\* Empty cells fit everywhere.
LEMMA BlankFits ==
  ASSUME NEW n \in Nat, NEW k, NEW header
  PROVE  Part(Blank(n), n, k, header)
<1> DEFINE b == Blank(n)
<1>1. b = [i \in 1 .. n |-> ""]
  BY DEF Blank
<1>2. b = [i \in 1 .. n |-> b[i]] /\ \A i \in 1 .. n : b[i] = ""
  BY <1>1
<1> HIDE DEF b
<1>3. IsSequence(b) /\ Len(b) = n
  BY <1>2, FunctionLength
<1>4. Fits(b, k, header)
  BY <1>2, <1>3 DEF Fits
<1> QED BY <1>3, <1>4 DEF Part, b

\* The cells of autoscalers, whether there is one or not.
LEMMA ScalerCellsFit ==
  ASSUME NEW scaled, NEW header, NEW k \in Nat,
         \A i \in 1 .. 6 : header[k + i] = HpaColumns[i]
  PROVE  Part(HpaCells(scaled), 6, k, header)
<1>1. CASE scaled
  <2>1. IsSequence(HpaColumns) /\ Len(HpaColumns) = 6
    BY DEF HpaColumns, IsSequence
  <2>2. HpaCells(scaled) = HpaColumns
    BY <1>1 DEF HpaCells
  <2> QED BY <2>1, <2>2 DEF Part, Fits
<1>2. CASE ~scaled
  BY <1>2, BlankFits DEF HpaCells
<1> QED BY <1>1, <1>2

\* A container's row of attributes has the columns of its header.
LEMMA AttributeRowAligned ==
  ASSUME NEW scaled
  PROVE  Aligned(ContainerAttributeRow(scaled), AttributeHeader)
<1> DEFINE a == <<"ClusterName", "Namespace", "EntityName", "EntityType",
                  "ContainerName", "ContainerType", "VirtualTechnology",
                  "VirtualDomain", "VirtualDatacenter", "VirtualCluster",
                  "ContainerLabels", "PodLabels", "CpuLimit",
                  "CpuRequest", "MemoryLimit", "MemoryRequest",
                  "GpuLimit", "GpuRequest", "GpuLimitFloat",
                  "GpuRequestFloat", "CurrentNodes", "PowerState",
                  "CreatedByKind", "CreatedByName", "CurrentSize",
                  "CreateTime", "ContainerRestarts", "NamespaceLabels",
                  "NamespaceCpuRequest", "NamespaceCpuLimit",
                  "NamespaceMemoryRequest", "NamespaceMemoryLimit",
                  "NamespacePodsLimit">>
           h == HpaCells(scaled)
           b == <<"QosClass", "GpuModel", "GpuSharingStrategy",
                  "EphemeralStorageRequest", "EphemeralStorageLimit",
                  "Runtimes">>
           header == AttributeHeader
<1>1. ContainerAttributeRow(scaled) = (a \o h) \o b
  BY DEF ContainerAttributeRow
<1>2. IsSequence(a) /\ Len(a) = 33 /\ IsSequence(b) /\ Len(b) = 6
  BY DEF IsSequence
<1>3. Len(header) = 45
  BY DEF AttributeHeader
<1>4. /\ a[1] = header[1] /\ a[2] = header[2] /\ a[3] = header[3] /\ a[4] = header[4]
      /\ a[5] = header[5] /\ a[6] = header[6] /\ a[7] = header[7] /\ a[8] = header[8]
      /\ a[9] = header[9] /\ a[10] = header[10] /\ a[11] = header[11] /\ a[12] = header[12]
      /\ a[13] = header[13] /\ a[14] = header[14] /\ a[15] = header[15] /\ a[16] = header[16]
      /\ a[17] = header[17] /\ a[18] = header[18] /\ a[19] = header[19] /\ a[20] = header[20]
      /\ a[21] = header[21] /\ a[22] = header[22] /\ a[23] = header[23] /\ a[24] = header[24]
      /\ a[25] = header[25] /\ a[26] = header[26] /\ a[27] = header[27] /\ a[28] = header[28]
      /\ a[29] = header[29] /\ a[30] = header[30] /\ a[31] = header[31] /\ a[32] = header[32]
      /\ a[33] = header[33]
  BY DEF AttributeHeader
<1>5. /\ header[34] = HpaColumns[1] /\ header[35] = HpaColumns[2] /\ header[36] = HpaColumns[3]
      /\ header[37] = HpaColumns[4] /\ header[38] = HpaColumns[5] /\ header[39] = HpaColumns[6]
  BY DEF AttributeHeader, HpaColumns
<1>6. /\ b[1] = header[40] /\ b[2] = header[41] /\ b[3] = header[42] /\ b[4] = header[43]
      /\ b[5] = header[44] /\ b[6] = header[45]
  BY DEF AttributeHeader
<1> HIDE DEF a, h, b, header
<1>7. \A i \in 1 .. 33 : a[i] = header[i]
  <2>1. \A i \in 1 .. 33 : \/ i = 1 \/ i = 2 \/ i = 3 \/ i = 4 \/ i = 5 \/ i = 6 \/ i = 7 \/ i = 8 \/ i = 9
                            \/ i = 10 \/ i = 11 \/ i = 12 \/ i = 13 \/ i = 14 \/ i = 15 \/ i = 16 \/ i = 17
                            \/ i = 18 \/ i = 19 \/ i = 20 \/ i = 21 \/ i = 22 \/ i = 23 \/ i = 24 \/ i = 25
                            \/ i = 26 \/ i = 27 \/ i = 28 \/ i = 29 \/ i = 30 \/ i = 31 \/ i = 32 \/ i = 33
    OBVIOUS
  <2> QED BY ONLY <1>4, <2>1
<1>8. \A i \in 1 .. 6 : i = 1 \/ i = 2 \/ i = 3 \/ i = 4 \/ i = 5 \/ i = 6
  OBVIOUS
<1>9. \A i \in 1 .. 6 : header[33 + i] = HpaColumns[i]
  <2>1. 33 + 1 = 34 /\ 33 + 2 = 35 /\ 33 + 3 = 36 /\ 33 + 4 = 37 /\ 33 + 5 = 38 /\ 33 + 6 = 39
    OBVIOUS
  <2> QED BY ONLY <1>5, <1>8, <2>1
<1>10. \A i \in 1 .. 6 : b[i] = header[39 + i]
  <2>1. /\ 39 + 1 = 40 /\ 39 + 2 = 41 /\ 39 + 3 = 42
        /\ 39 + 4 = 43 /\ 39 + 5 = 44 /\ 39 + 6 = 45
    OBVIOUS
  <2> QED BY ONLY <1>6, <1>8, <2>1
<1>11. Part(a, 33, 0, header)
  <2>1. \A i \in 1 .. 33 : 0 + i = i
    OBVIOUS
  <2>2. \A i \in 1 .. 33 : a[i] \in {"", header[0 + i]}
    BY ONLY <1>7, <2>1
  <2> QED BY ONLY <1>2, <2>2 DEF Part, Fits
<1>12. Part(h, 6, 33, header)
  BY <1>9, ScalerCellsFit DEF h
<1>13. Part(b, 6, 39, header)
  BY <1>2, <1>10 DEF Part, Fits
<1>14. 0 + 33 = 33 /\ 33 + 6 = 39 /\ 0 + 39 = 39 /\ 39 + 6 = 45
  OBVIOUS
<1>15. Part(a \o h, 39, 0, header)
  BY ONLY <1>11, <1>12, <1>14, PartsJoin
<1> DEFINE ah == a \o h
<1> HIDE DEF ah
<1>16. Part(ah, 39, 0, header)
  BY <1>15 DEF ah
<1>17. Part(ah \o b, 45, 0, header)
  BY ONLY <1>13, <1>14, <1>16, PartsJoin
<1>18. Aligned(ah \o b, header)
  BY <1>3, <1>17, FitsAligned
<1> QED BY <1>1, <1>18 DEF header, ah

\* Memory sizes are there or not.
LEMMA ConfigRowAligned ==
  ASSUME NEW memory, NEW total, NEW count
  PROVE  Aligned(ContainerConfigRow(memory, total, count), ContainerConfigHeader)
<1> DEFINE a == <<"AuditTime", "ClusterName", "Namespace", "EntityName", "EntityType", "ContainerName">>
           x == IF memory > 0 THEN "HwTotalMemory" ELSE ""
           y == IF count > 0 /\ total \div count > 0 THEN "GpuMemoryTotal" ELSE ""
           xs == <<x>>
           ys == <<y>>
           b == <<"OsName", "HwManufacturer">>
           header == ContainerConfigHeader
<1>1. ContainerConfigRow(memory, total, count) = ((a \o xs) \o ys) \o b
  BY DEF ContainerConfigRow
<1>2. /\ Len(header) = 10
      /\ header[1] = "AuditTime" /\ header[2] = "ClusterName" /\ header[3] = "Namespace"
      /\ header[4] = "EntityName" /\ header[5] = "EntityType" /\ header[6] = "ContainerName"
      /\ header[7] = "HwTotalMemory" /\ header[8] = "GpuMemoryTotal"
      /\ header[9] = "OsName" /\ header[10] = "HwManufacturer"
  BY DEF ContainerConfigHeader
<1>3. /\ IsSequence(a) /\ Len(a) = 6
      /\ a[1] = "AuditTime" /\ a[2] = "ClusterName" /\ a[3] = "Namespace"
      /\ a[4] = "EntityName" /\ a[5] = "EntityType" /\ a[6] = "ContainerName"
  BY DEF IsSequence
<1>4. IsSequence(b) /\ Len(b) = 2 /\ b[1] = "OsName" /\ b[2] = "HwManufacturer"
  BY DEF IsSequence
<1>5. x \in {"", "HwTotalMemory"} /\ y \in {"", "GpuMemoryTotal"}
  OBVIOUS
<1> HIDE DEF x, y
<1>6. IsSequence(xs) /\ Len(xs) = 1 /\ xs[1] = x /\ IsSequence(ys) /\ Len(ys) = 1 /\ ys[1] = y
  BY DEF IsSequence
<1> HIDE DEF a, b, xs, ys, header
<1>7. Part(a, 6, 0, header)
  <2>1. \A i \in 1 .. 6 : i = 1 \/ i = 2 \/ i = 3 \/ i = 4 \/ i = 5 \/ i = 6
    OBVIOUS
  <2>2. 0 + 1 = 1 /\ 0 + 2 = 2 /\ 0 + 3 = 3 /\ 0 + 4 = 4 /\ 0 + 5 = 5 /\ 0 + 6 = 6
    OBVIOUS
  <2>3. \A i \in 1 .. 6 : a[i] = header[0 + i]
    BY ONLY <1>2, <1>3, <2>1, <2>2
  <2> QED BY <1>3, <2>3 DEF Part, Fits
<1>8. Part(xs, 1, 6, header) /\ Part(ys, 1, 7, header)
  <2>1. \A i \in 1 .. 1 : i = 1
    OBVIOUS
  <2>2. 6 + 1 = 7 /\ 7 + 1 = 8
    OBVIOUS
  <2>3. xs[1] \in {"", header[6 + 1]} /\ ys[1] \in {"", header[7 + 1]}
    BY ONLY <1>2, <1>5, <1>6, <2>2
  <2>4. \A i \in 1 .. 1 : xs[i] \in {"", header[6 + i]} /\ ys[i] \in {"", header[7 + i]}
    BY ONLY <2>1, <2>3
  <2> QED BY <1>6, <2>4 DEF Part, Fits
<1>9. Part(b, 2, 8, header)
  <2>1. \A i \in 1 .. 2 : i = 1 \/ i = 2
    OBVIOUS
  <2>2. 8 + 1 = 9 /\ 8 + 2 = 10
    OBVIOUS
  <2>3. \A i \in 1 .. 2 : b[i] = header[8 + i]
    BY ONLY <1>2, <1>4, <2>1, <2>2
  <2> QED BY <1>4, <2>3 DEF Part, Fits
<1>10. /\ 0 + 6 = 6 /\ 6 + 1 = 7 /\ 0 + 7 = 7 /\ 7 + 1 = 8 /\ 0 + 8 = 8 /\ 8 + 2 = 10
  OBVIOUS
<1> DEFINE ax == a \o xs
           axy == ax \o ys
<1>11. Part(ax, 7, 0, header)
  BY ONLY <1>7, <1>8, <1>10, PartsJoin DEF ax
<1> HIDE DEF ax
<1>12. Part(axy, 8, 0, header)
  BY ONLY <1>8, <1>10, <1>11, PartsJoin DEF axy
<1> HIDE DEF axy
<1>13. Part(axy \o b, 10, 0, header)
  BY ONLY <1>9, <1>10, <1>12, PartsJoin
<1>14. Aligned(axy \o b, header)
  BY <1>2, <1>13, FitsAligned
<1> QED BY <1>1, <1>14 DEF ax, axy, header

\* An autoscaler of its own has a row without the columns of an object.
LEMMA ScalerConfigRowAligned == Aligned(HpaConfigRow, HpaConfigHeader)
<1> DEFINE a == <<"AuditTime", "ClusterName", "Namespace">>
           b == <<"HpaName", "OsName", "HwManufacturer">>
           c == Blank(3)
           header == HpaConfigHeader
<1>1. HpaConfigRow = (a \o c) \o b
  BY DEF HpaConfigRow
<1>2. /\ Len(header) = 9
      /\ header[1] = "AuditTime" /\ header[2] = "ClusterName" /\ header[3] = "Namespace"
      /\ header[7] = "HpaName" /\ header[8] = "OsName" /\ header[9] = "HwManufacturer"
  BY DEF HpaConfigHeader
<1>3. /\ IsSequence(a) /\ Len(a) = 3
      /\ a[1] = "AuditTime" /\ a[2] = "ClusterName" /\ a[3] = "Namespace"
  BY DEF IsSequence
<1>4. /\ IsSequence(b) /\ Len(b) = 3
      /\ b[1] = "HpaName" /\ b[2] = "OsName" /\ b[3] = "HwManufacturer"
  BY DEF IsSequence
<1> HIDE DEF a, b, header
<1>5. \A i \in 1 .. 3 : i = 1 \/ i = 2 \/ i = 3
  OBVIOUS
<1>6. Part(a, 3, 0, header)
  <2>1. 0 + 1 = 1 /\ 0 + 2 = 2 /\ 0 + 3 = 3
    OBVIOUS
  <2>2. \A i \in 1 .. 3 : a[i] = header[0 + i]
    BY ONLY <1>2, <1>3, <1>5, <2>1
  <2> QED BY <1>3, <2>2 DEF Part, Fits
<1>7. Part(b, 3, 6, header)
  <2>1. 6 + 1 = 7 /\ 6 + 2 = 8 /\ 6 + 3 = 9
    OBVIOUS
  <2>2. \A i \in 1 .. 3 : b[i] = header[6 + i]
    BY ONLY <1>2, <1>4, <1>5, <2>1
  <2> QED BY <1>4, <2>2 DEF Part, Fits
<1>8. Part(c, 3, 3, header)
  BY BlankFits
<1> HIDE DEF c
<1>9. 0 + 3 = 3 /\ 3 + 3 = 6 /\ 0 + 6 = 6 /\ 6 + 3 = 9
  OBVIOUS
<1> DEFINE ac == a \o c
<1>10. Part(ac, 6, 0, header)
  BY ONLY <1>6, <1>8, <1>9, PartsJoin DEF ac
<1> HIDE DEF ac
<1>11. Part(ac \o b, 9, 0, header)
  BY ONLY <1>7, <1>9, <1>10, PartsJoin
<1>12. Aligned(ac \o b, header)
  BY <1>2, <1>11, FitsAligned
<1> QED BY <1>1, <1>12 DEF ac, header

\* Up to the container's name such an attribute row fits, and has an empty cell too many then.
LEMMA ScalerAttributeRowShifted == Shifted(HpaAttributeRow, HpaAttributeHeader, 6)
<1> DEFINE a == <<"ClusterName", "Namespace">>
           p == <<"ClusterName", "Namespace", "EntityName", "EntityType", "ContainerName">>
           c == Blank(4)
           h == HpaCells(TRUE)
           header == HpaAttributeHeader
           padded == [i \in 1 .. Len(header) + 1 |->
                        IF i < 6 THEN header[i] ELSE IF i = 6 THEN "" ELSE header[i - 1]]
<1>1. HpaAttributeRow = (a \o c) \o h
  BY DEF HpaAttributeRow
<1>2. IsSequence(p) /\ Len(p) = 5 /\ IsSequence(HpaColumns) /\ Len(HpaColumns) = 6
  BY DEF IsSequence, HpaColumns
<1>3. IsSequence(a) /\ Len(a) = 2 /\ a[1] = p[1] /\ a[2] = p[2]
  BY DEF IsSequence
<1>4. header = p \o HpaColumns
  BY DEF HpaAttributeHeader
<1> HIDE DEF a, p, header
<1>5. IsJoin(header, p, HpaColumns)
  BY <1>2, <1>4, JoinedAt
<1>6. /\ Len(header) = 11
      /\ \A i \in 1 .. 5 : header[i] = p[i]
      /\ \A i \in 1 .. 6 : header[5 + i] = HpaColumns[i]
  BY <1>2, <1>5 DEF IsJoin
<1>7. /\ padded = [i \in 1 .. 12 |->
                     IF i < 6 THEN header[i] ELSE IF i = 6 THEN "" ELSE header[i - 1]]
      /\ Len(padded) = 12
  <2>1. padded = [i \in 1 .. 12 |->
                    IF i < 6 THEN header[i] ELSE IF i = 6 THEN "" ELSE header[i - 1]]
    BY <1>6
  <2>2. padded = [i \in 1 .. 12 |-> padded[i]]
    BY ONLY <2>1
  <2> HIDE DEF padded
  <2>3. Len(padded) = 12
    BY <2>2, FunctionLength
  <2> QED BY <2>1, <2>3
<1> HIDE DEF padded
<1>8. /\ padded[1] = a[1] /\ padded[2] = a[2]
      /\ \A i \in 1 .. 6 : padded[6 + i] = HpaColumns[i]
  <2>1. padded[1] = header[1] /\ padded[2] = header[2]
    <3>1. 1 \in 1 .. 12 /\ 1 < 6 /\ 2 \in 1 .. 12 /\ 2 < 6
      OBVIOUS
    <3>2. padded[1] = header[1]
      BY ONLY <1>7, <3>1
    <3>3. padded[2] = header[2]
      BY ONLY <1>7, <3>1
    <3> QED BY <3>2, <3>3
  <2>2. ASSUME NEW i \in 1 .. 6 PROVE padded[6 + i] = header[5 + i]
    <3>1. 6 + i \in 1 .. 12 /\ ~(6 + i < 6) /\ 6 + i # 6 /\ (6 + i) - 1 = 5 + i
      OBVIOUS
    <3> QED BY ONLY <1>7, <3>1
  <2> QED BY <1>3, <1>6, <2>1, <2>2
<1>9. Part(a, 2, 0, padded)
  <2>1. \A i \in 1 .. 2 : i = 1 \/ i = 2
    OBVIOUS
  <2>2. 0 + 1 = 1 /\ 0 + 2 = 2
    OBVIOUS
  <2>3. \A i \in 1 .. 2 : a[i] = padded[0 + i]
    BY ONLY <1>8, <2>1, <2>2
  <2> QED BY <1>3, <2>3 DEF Part, Fits
<1>10. Part(c, 4, 2, padded)
  BY BlankFits
<1>11. Part(h, 6, 6, padded)
  BY <1>8, ScalerCellsFit DEF h
<1> HIDE DEF c, h
<1>12. 0 + 2 = 2 /\ 2 + 4 = 6 /\ 0 + 6 = 6 /\ 6 + 6 = 12
  OBVIOUS
<1> DEFINE ac == a \o c
<1>13. Part(ac, 6, 0, padded)
  BY ONLY <1>9, <1>10, <1>12, PartsJoin DEF ac
<1> HIDE DEF ac
<1>14. Part(ac \o h, 12, 0, padded)
  BY ONLY <1>11, <1>12, <1>13, PartsJoin
<1>15. Aligned(ac \o h, padded)
  BY <1>7, <1>14, FitsAligned
<1> QED BY <1>1, <1>15 DEF ac, padded, header, Shifted

-----------------------------------------------------------------------------
(* What is registered *)

\* Containers are in objects and namespaces that are registered, and so is the
\* namespace of the container whose top-level owner is being looked for.
Registered ==
  /\ position \in 0 .. Len(Stages) + 1
  /\ namespaces = [c \in Cluster |-> namespaces[c]]
  /\ \A c \in Cluster : \A cid \in DOMAIN containers[c] :
       cid[1] \in DOMAIN objects[c] /\ cid[1][3] \in DOMAIN namespaces[c]
  /\ walk # NoWalk => walk.series.namespace \in DOMAIN namespaces[walk.cluster]

\* An autoscaler belongs to a registered object, or to none.
Belongs(h, c) == "obj" \in DOMAIN h /\ (isClassified(h) => h.obj \in DOMAIN objects[c])
AllBelong == \A id \in DOMAIN hpas : id[1] \in Cluster /\ Belongs(hpas[id], id[1])

\* The rows of all files have their headers' columns, or are shifted as they are printed.
AllAligned ==
  \A id \in DOMAIN files : \A e \in DOMAIN files[id].rows :
    RowFits(id, files[id].rows[e], files[id].header)

\* Objects and namespaces stay.
NoneLost ==
  \A c \in Cluster : /\ DOMAIN objects[c] \subseteq DOMAIN objects'[c]
                     /\ DOMAIN namespaces[c] \subseteq DOMAIN namespaces'[c]

\* A file that is written has rows that fit.
LEMMA WriteAligned ==
  ASSUME AllAligned, NEW id, NEW creatable, NEW header, NEW all,
         \A e \in DOMAIN all : RowFits(id, all[e], header), WriteFile(id, creatable, header, all)
  PROVE  AllAligned'
<1>1. CASE UNCHANGED files
  BY <1>1 DEF AllAligned
<1>2. CASE ~UNCHANGED files
  <2>1. PICK kept \in SUBSET DOMAIN all :
          files' = [f \in DOMAIN files \cup {id} |->
                      IF f = id THEN [header |-> header, rows |-> [e \in kept |-> all[e]]]
                      ELSE files[f]]
    <3>1. PICK kept \in IF id \in interrupted THEN SUBSET DOMAIN all ELSE {DOMAIN all} :
            files' = [f \in DOMAIN files \cup {id} |->
                        IF f = id THEN [header |-> header, rows |-> [e \in kept |-> all[e]]]
                        ELSE files[f]]
      BY <1>2 DEF WriteFile
    <3>2. kept \in SUBSET DOMAIN all
      OBVIOUS
    <3> QED BY <3>1, <3>2
  <2> DEFINE new == [header |-> header, rows |-> [e \in kept |-> all[e]]]
  <2>2. new.header = header /\ DOMAIN new.rows = kept /\ \A e \in kept : new.rows[e] = all[e]
    OBVIOUS
  <2> HIDE DEF new
  <2>3. /\ DOMAIN files' = DOMAIN files \cup {id}
        /\ \A f \in DOMAIN files' : files'[f] = IF f = id THEN new ELSE files[f]
    BY <2>1 DEF new
  <2> SUFFICES ASSUME NEW f \in DOMAIN files', NEW e \in DOMAIN files'[f].rows
               PROVE  RowFits(f, files'[f].rows[e], files'[f].header)
    BY DEF AllAligned
  <2>4. CASE f = id
    <3>1. files'[f] = new
      BY <2>3, <2>4
    <3>2. e \in kept /\ new.rows[e] = all[e]
      BY <2>2, <3>1
    <3> QED BY <2>2, <2>4, <3>1, <3>2
  <2>5. CASE f # id
    BY <2>3, <2>5 DEF AllAligned
  <2> QED BY <2>4, <2>5
<1> QED BY <1>1, <1>2

\* Each of the four kinds of files.
LEMMA WriteOneAligned ==
  ASSUME AllAligned, NEW id, WriteOne(id)
  PROVE  AllAligned'
<1> DEFINE c == id[1]
           creatable == id \notin unwritable
<1>1. CASE /\ id[2] = "container_config"
           /\ WriteFile(id, creatable, ContainerConfigHeader, ConfigRows(c))
  <2>1. \A e \in DOMAIN ConfigRows(c) : RowFits(id, ConfigRows(c)[e], ContainerConfigHeader)
    BY <1>1, ConfigRowAligned DEF ConfigRows, RowFits
  <2> QED BY <1>1, <2>1, WriteAligned
<1>2. CASE /\ id[2] = "container_attributes"
           /\ WriteFile(id, creatable, AttributeHeader, AttributeRows(c))
  <2>1. \A e \in DOMAIN AttributeRows(c) : RowFits(id, AttributeRows(c)[e], AttributeHeader)
    BY <1>2, AttributeRowAligned DEF AttributeRows, RowFits
  <2> QED BY <1>2, <2>1, WriteAligned
<1>3. CASE /\ id[2] = "hpa_extra_config"
           /\ WriteFile(id, creatable, HpaConfigHeader, [h \in unclassifiedHpas(c) |-> HpaConfigRow])
  <2> DEFINE all == [h \in unclassifiedHpas(c) |-> HpaConfigRow]
  <2>1. \A e \in DOMAIN all : RowFits(id, all[e], HpaConfigHeader)
    BY <1>3, ScalerConfigRowAligned DEF RowFits
  <2> HIDE DEF all
  <2>2. WriteFile(id, creatable, HpaConfigHeader, all)
    BY <1>3 DEF all
  <2> QED BY <2>1, <2>2, WriteAligned
<1>4. CASE /\ id[2] = "hpa_extra_attributes"
           /\ WriteFile(id, creatable, HpaAttributeHeader, [h \in unclassifiedHpas(c) |-> HpaAttributeRow])
  <2> DEFINE all == [h \in unclassifiedHpas(c) |-> HpaAttributeRow]
  <2>1. \A e \in DOMAIN all : RowFits(id, all[e], HpaAttributeHeader)
    BY <1>4, ScalerAttributeRowShifted DEF RowFits
  <2> HIDE DEF all
  <2>2. WriteFile(id, creatable, HpaAttributeHeader, all)
    BY <1>4 DEF all
  <2> QED BY <2>1, <2>2, WriteAligned
<1> QED BY <1>1, <1>2, <1>3, <1>4 DEF WriteOne

\* The step of the induction.
LEMMA StepAligned == AllAligned /\ [Next]_vars => AllAligned'
<1> SUFFICES ASSUME AllAligned, [Next]_vars PROVE AllAligned'
  OBVIOUS
<1>1. CASE WriteFiles
  BY <1>1, WriteOneAligned DEF WriteFiles
<1>2. CASE UNCHANGED files
  BY <1>2 DEF AllAligned
<1> QED BY <1>1, <1>2 DEF Next, outputVars, Separate, NextPhase, SingleQuery, vars

\* Placing a container registers its object.
LEMMA PlaceRegisters ==
  ASSUME objects = [c \in Cluster |-> objects[c]], containers = [c \in Cluster |-> containers[c]],
         NEW c \in Cluster, NEW s, NEW owner, Place(c, s, owner)
  PROVE  /\ \A d \in Cluster : DOMAIN objects[d] \subseteq DOMAIN objects'[d]
         /\ \A d \in Cluster : \A cid \in DOMAIN containers'[d] :
              \/ cid \in DOMAIN containers[d]
              \/ d = c /\ cid[1] \in DOMAIN objects'[c] /\ cid[1][3] = s.namespace
<1> DEFINE k == Key(owner, s.namespace)
           new == <<k, s.container>>
<1>1. /\ objects' = [objects EXCEPT ![c] = AssignedOnce(objects[c], k, NewObject)]
      /\ containers' = [containers EXCEPT ![c] = Assigned(containers[c], new, NewContainer(s))]
  BY DEF Place
<1>2. k[3] = s.namespace /\ new[1] = k
  BY DEF Key
<1> HIDE DEF k, new
<1>3. \A m, x, v : DOMAIN Assigned(m, x, v) = DOMAIN m \cup {x}
  BY DEF Assigned
<1>4. DOMAIN objects'[c] = DOMAIN objects[c] \cup {k} /\ \A d \in Cluster \ {c} : objects'[d] = objects[d]
  BY <1>1, <1>3 DEF AssignedOnce
<1>5. /\ DOMAIN containers'[c] = DOMAIN containers[c] \cup {new}
      /\ \A d \in Cluster \ {c} : containers'[d] = containers[d]
  BY <1>1, <1>3
<1>6. ASSUME NEW d \in Cluster, NEW cid \in DOMAIN containers'[d]
      PROVE  \/ cid \in DOMAIN containers[d]
             \/ d = c /\ cid[1] \in DOMAIN objects'[c] /\ cid[1][3] = s.namespace
  BY <1>2, <1>4, <1>5
<1> QED BY <1>4, <1>6

\* A series of a description leaves the namespaces it finds.
LEMMA NamespacesKept ==
  ASSUME namespaces = [c \in Cluster |-> namespaces[c]],
         NEW c \in Cluster, NEW s, Own(c, s) \/ Measure(c, s) \/ Describe(c, s) \/ Scale(c, s)
  PROVE  /\ namespaces' = [d \in Cluster |-> namespaces'[d]]
         /\ \A d \in Cluster : DOMAIN namespaces'[d] = DOMAIN namespaces[d]
<1>1. CASE UNCHANGED namespaces
  BY <1>1
<1>2. CASE \E metric : GetNamespaceMetric(metric, c, s)
  <2>1. CASE namespaces' = getNamespaceMetricString(c, s)
    <3>1. CASE namespaces' = [namespaces EXCEPT ![c][s.namespace].labelMap = @ \cup Labels(s)]
      <4>1. PICK ns : ns = s.namespace
        OBVIOUS
      <4>2. PICK labels : labels = namespaces[c][ns].labelMap \cup Labels(s)
        OBVIOUS
      <4>3. namespaces' = [namespaces EXCEPT ![c][ns].labelMap = labels]
        BY <3>1, <4>1, <4>2
      <4> QED BY ONLY <4>3, namespaces = [d \in Cluster |-> namespaces[d]], c \in Cluster
    <3>2. CASE UNCHANGED namespaces
      BY <3>2
    <3> QED BY <2>1, <3>1, <3>2 DEF getNamespaceMetricString
  <2>2. CASE namespaces' = getNamespaceLimits(c, s)
    <3>1. CASE namespaces' = [namespaces EXCEPT ![c][s.namespace].limits =
                 [l \in DOMAIN @ |-> IF l \in LimitOf(s.resource) THEN s.value ELSE @[l]]]
      <4>1. PICK ns : ns = s.namespace
        OBVIOUS
      <4>2. PICK limits : limits = [l \in DOMAIN namespaces[c][ns].limits |->
                            IF l \in LimitOf(s.resource) THEN s.value ELSE namespaces[c][ns].limits[l]]
        OBVIOUS
      <4>3. namespaces' = [namespaces EXCEPT ![c][ns].limits = limits]
        BY <3>1, <4>1, <4>2
      <4> QED BY ONLY <4>3, namespaces = [d \in Cluster |-> namespaces[d]], c \in Cluster
    <3>2. CASE UNCHANGED namespaces
      BY <3>2
    <3> QED BY <2>2, <3>1, <3>2 DEF getNamespaceLimits
  <2> QED BY <1>2, <2>1, <2>2 DEF GetNamespaceMetric
<1> QED BY <1>1, <1>2 DEF Own, GetOwner, Measure, GetContainerMetric, Describe, GetObjectLabels,
       GetObjectMetric, GetOwnedObjectMetric, SetObjectMetric, Scale, GetHpa, GetHpaLabels, UnchangedButHpas

\* A step that registers no less and places no container.
LEMMA RegisteredKept ==
  ASSUME Registered, NoneLost, position' \in 0 .. Len(Stages) + 1,
         namespaces' = [c \in Cluster |-> namespaces'[c]], UNCHANGED walk,
         \A c \in Cluster : DOMAIN containers'[c] = DOMAIN containers[c],
         walk # NoWalk => walk.cluster \in Cluster
  PROVE  Registered'
<1>1. \A c \in Cluster : \A cid \in DOMAIN containers'[c] :
        cid[1] \in DOMAIN objects'[c] /\ cid[1][3] \in DOMAIN namespaces'[c]
  BY DEF Registered, NoneLost
<1>2. walk' # NoWalk => walk'.series.namespace \in DOMAIN namespaces'[walk'.cluster]
  BY DEF Registered, NoneLost
<1> QED BY <1>1, <1>2 DEF Registered

\* A container is placed where namespace and object are registered.
LEMMA AddContainerRegisters ==
  ASSUME IInv, PlacesInv, Registered, NEW c \in Cluster, NEW s, AddContainer(c, s), UNCHANGED position
  PROVE  Registered' /\ NoneLost
<1> DEFINE ns == s.namespace
<1>1. objects = [d \in Cluster |-> objects[d]] /\ containers = [d \in Cluster |-> containers[d]]
      /\ namespaces = [d \in Cluster |-> namespaces[d]] /\ walk = NoWalk
  BY DEF PlacesInv, AllAtHome, Registered, AddContainer
<1>2. CASE HasLabels(s, {"namespace", "pod", "container"})
  <2>1. namespaces' = [namespaces EXCEPT ![c] = AssignedOnce(namespaces[c], ns, NewNamespace)]
    BY <1>2 DEF AddContainer
  <2> HIDE DEF ns
  <2>2. /\ namespaces' = [d \in Cluster |-> namespaces'[d]]
        /\ DOMAIN namespaces'[c] = DOMAIN namespaces[c] \cup {ns}
        /\ \A d \in Cluster \ {c} : namespaces'[d] = namespaces[d]
    <3>1. DOMAIN AssignedOnce(namespaces[c], ns, NewNamespace) = DOMAIN namespaces[c] \cup {ns}
      BY DEF AssignedOnce, Assigned
    <3> QED BY <1>1, <2>1, <3>1
  <2>3. CASE PodKey(s) \in DOMAIN ownerships[c]
    <3>1. UNCHANGED <<objects, containers>> /\ walk' = [cluster |-> c, series |-> s, path |-> <<PodKey(s)>>]
      BY <1>2, <2>3 DEF AddContainer
    <3>2. walk'.series.namespace = ns /\ walk'.cluster = c
      BY <3>1 DEF ns
    <3>3. NoneLost
      BY <2>2, <3>1 DEF NoneLost
    <3> QED BY <2>2, <3>1, <3>2, <3>3 DEF Registered, NoneLost
  <2>4. CASE PodKey(s) \notin DOMAIN ownerships[c]
    <3>1. Place(c, s, <<"pod", s.pod>>) /\ UNCHANGED walk
      BY <1>2, <2>4 DEF AddContainer
    <3>2. /\ \A d \in Cluster : DOMAIN objects[d] \subseteq DOMAIN objects'[d]
          /\ \A d \in Cluster : \A cid \in DOMAIN containers'[d] :
               \/ cid \in DOMAIN containers[d]
               \/ d = c /\ cid[1] \in DOMAIN objects'[c] /\ cid[1][3] = ns
      BY <1>1, <3>1, PlaceRegisters DEF ns
    <3>3. NoneLost
      BY <2>2, <3>2 DEF NoneLost
    <3>4. \A d \in Cluster : \A cid \in DOMAIN containers'[d] :
            cid[1] \in DOMAIN objects'[d] /\ cid[1][3] \in DOMAIN namespaces'[d]
      BY <2>2, <3>2, <3>3 DEF Registered, NoneLost
    <3> QED BY <1>1, <2>2, <3>1, <3>3, <3>4 DEF Registered
  <2> QED BY <2>3, <2>4
<1>3. CASE ~HasLabels(s, {"namespace", "pod", "container"})
  <2>1. UNCHANGED <<namespaces, objects, containers, walk>>
    BY <1>3 DEF AddContainer
  <2> QED BY <1>1, <2>1 DEF Registered, NoneLost
<1> QED BY <1>2, <1>3

\* The steps of a walk.
LEMMA WalkingRegisters ==
  ASSUME IInv, PlacesInv, Registered, Walking
  PROVE  Registered' /\ NoneLost
<1>1. /\ walk # NoWalk /\ UNCHANGED <<position, namespaces>> /\ walk.cluster \in Cluster
      /\ objects = [d \in Cluster |-> objects[d]] /\ containers = [d \in Cluster |-> containers[d]]
      /\ walk = [cluster |-> walk.cluster, series |-> walk.series, path |-> walk.path]
  BY DEF Walking, Climb, ReachTop, stageVars, IInv, Rising, PlacesInv, AllAtHome
<1>2. CASE Climb
  <2>1. UNCHANGED <<objects, containers>> /\ walk' = [walk EXCEPT !.path = Append(@, Above)]
    BY <1>2 DEF Climb
  <2>2. walk'.series = walk.series /\ walk'.cluster = walk.cluster
    BY <1>1, <2>1
  <2> QED BY <1>1, <2>1, <2>2 DEF Registered, NoneLost
<1>3. CASE ReachTop
  <2> DEFINE c == walk.cluster
             s == walk.series
  <2>1. walk' = NoWalk /\ \E owner : Place(c, s, owner)
    BY <1>3 DEF ReachTop
  <2>2. s.namespace \in DOMAIN namespaces[c]
    BY <1>1 DEF Registered
  <2>3. c \in Cluster
    BY <1>1
  <2> HIDE DEF c, s
  <2>4. /\ \A d \in Cluster : DOMAIN objects[d] \subseteq DOMAIN objects'[d]
        /\ \A d \in Cluster : \A cid \in DOMAIN containers'[d] :
             \/ cid \in DOMAIN containers[d]
             \/ d = c /\ cid[1] \in DOMAIN objects'[c] /\ cid[1][3] = s.namespace
    BY <1>1, <2>1, <2>3, PlaceRegisters
  <2>5. NoneLost
    BY <1>1, <2>4 DEF NoneLost
  <2>6. \A d \in Cluster : \A cid \in DOMAIN containers'[d] :
          cid[1] \in DOMAIN objects'[d] /\ cid[1][3] \in DOMAIN namespaces'[d]
    BY <1>1, <2>2, <2>4, <2>5 DEF Registered, NoneLost
  <2> QED BY <1>1, <2>1, <2>5, <2>6 DEF Registered
<1> QED BY <1>2, <1>3 DEF Walking

\* The step of the induction.
LEMMA StepRegistered == IInv /\ PlacesInv /\ Registered /\ [Next]_vars => Registered' /\ NoneLost
<1> SUFFICES ASSUME IInv, PlacesInv, Registered, [Next]_vars PROVE Registered' /\ NoneLost
  OBVIOUS
<1>0. walk # NoWalk => walk.cluster \in Cluster
  BY DEF IInv, Rising
<1>1. CASE Series
  <2>1. PICK t \in pending :
          /\ TakeSeries(t[1], t[2])
          /\ \/ Own(t[1], t[2])
             \/ Contain(t[1], t[2])
             \/ Measure(t[1], t[2])
             \/ Describe(t[1], t[2])
             \/ Scale(t[1], t[2])
    BY <1>1 DEF Series
  <2>2. t[1] \in Cluster /\ UNCHANGED position
    BY <2>1 DEF IInv, Asking, TakeSeries
  <2>3. CASE Contain(t[1], t[2])
    <3>1. CASE UNCHANGED <<namespaces, objects, containers, walk>>
      BY <2>2, <3>1 DEF Registered, NoneLost
    <3> QED BY <2>2, <2>3, <3>1, AddContainerRegisters DEF Contain, ownerVars
  <2>4. CASE Own(t[1], t[2])
    <3>1. UNCHANGED <<namespaces, objects, containers, walk>>
      BY <2>4 DEF Own, GetOwner
    <3> QED BY <2>2, <3>1 DEF Registered, NoneLost
  <2>5. CASE Measure(t[1], t[2]) \/ Describe(t[1], t[2]) \/ Scale(t[1], t[2])
    <3>1. /\ \A d \in Cluster : DOMAIN objects'[d] = DOMAIN objects[d] /\ DOMAIN containers'[d] = DOMAIN containers[d]
          /\ UNCHANGED walk
      BY <2>2, <2>5, OthersKeep DEF PlacesInv, AllAtHome
    <3>2. /\ namespaces' = [d \in Cluster |-> namespaces'[d]]
          /\ \A d \in Cluster : DOMAIN namespaces'[d] = DOMAIN namespaces[d]
      BY <2>2, <2>5, NamespacesKept DEF Registered
    <3>3. NoneLost
      BY <3>1, <3>2 DEF NoneLost
    <3>4. position' \in 0 .. Len(Stages) + 1
      BY <2>2 DEF Registered
    <3> QED BY <1>0, <3>1, <3>2, <3>3, <3>4, RegisteredKept
  <2> QED BY <2>1, <2>3, <2>4, <2>5
<1>2. CASE Walking
  BY <1>2, WalkingRegisters
<1>3. CASE Ask \/ EndStage \/ SetUpWriters \/ UNCHANGED collectorVars
  <2>1. UNCHANGED <<namespaces, objects, containers, walk>>
    BY <1>3 DEF Ask, EndStage, SetUpWriters, collectorVars, dataVars, ownerVars
  <2>2. position' \in 0 .. Len(Stages) + 1
    <3> DEFINE n == Len(Stages)
    <3>1. n \in Nat /\ DOMAIN Stages = 1 .. n
      BY StagesLength
    <3>2. position \in 0 .. n + 1
      BY DEF Registered
    <3>3. position' = position \/ (position \in DOMAIN Stages /\ position' \in {0, position + 1})
      BY <1>3 DEF Ask, EndStage, SetUpWriters, collectorVars, stageVars, IInv, Asking, Done
    <3> HIDE DEF n
    <3>4. position' \in 0 .. n + 1
      BY ONLY <3>1, <3>2, <3>3
    <3> QED BY <3>4 DEF n
  <2> QED BY <2>1, <2>2 DEF Registered, NoneLost
<1>4. CASE WriteFiles \/ Separate \/ NextPhase \/ SingleQuery \/ UNCHANGED vars
  <2>1. UNCHANGED collectorVars
    BY <1>4 DEF WriteFiles, Separate, NextPhase, SingleQuery, vars
  <2> QED BY <1>3, <2>1
<1> QED BY <1>1, <1>2, <1>3, <1>4 DEF Next, Collecting

\* The object of an autoscaler's name is registered, if there is one.
LEMMA GuessedRegistered ==
  ASSUME NEW c, NEW name, NEW ns
  PROVE  GuessedTarget(c, name, ns) # None => GuessedTarget(c, name, ns) \in DOMAIN objects[c]
<1> DEFINE found == {i \in DOMAIN hpaTargets : Key(<<hpaTargets[i], name>>, ns) \in DOMAIN objects[c]}
           first == CHOOSE i \in found : \A j \in found : i <= j
<1>1. GuessedTarget(c, name, ns) = IF found = {} THEN None ELSE Key(<<hpaTargets[first], name>>, ns)
  BY DEF GuessedTarget
<1>2. found # {} => first \in found
  <2> SUFFICES ASSUME found # {} PROVE \E i \in found : \A j \in found : i <= j
    OBVIOUS
  <2>1. DOMAIN hpaTargets = 1 .. 5
    BY DEF hpaTargets
  <2>2. found \in SUBSET Nat
    BY <2>1
  <2> HIDE DEF found
  <2> QED BY <2>2, LeastElement
<1>3. found # {} => Key(<<hpaTargets[first], name>>, ns) \in DOMAIN objects[c]
  BY <1>2
<1> QED BY <1>1, <1>3

\* Autoscalers keep their objects when they get more metrics or labels.
LEMMA MergedObject ==
  ASSUME NEW h, "obj" \in DOMAIN h, NEW metric
  PROVE  "obj" \in DOMAIN merge(h, metric) /\ merge(h, metric).obj = h.obj
<1> DEFINE all == [h EXCEPT !.targetMetrics = Append(@, metric)]
           more == [all EXCEPT !.metricNames = Append(@, metric.name),
                               !.metricTarget = [type |-> "", value |-> UnknownValue]]
<1>1. "obj" \in DOMAIN all /\ all.obj = h.obj
  OBVIOUS
<1>2. "obj" \in DOMAIN more /\ more.obj = h.obj
  <2> HIDE DEF all
  <2> QED BY <1>1
<1>3. merge(h, metric) \in {all, more}
  BY DEF merge
<1> HIDE DEF all, more
<1> QED BY <1>1, <1>2, <1>3

LEMMA LabelledObject ==
  ASSUME NEW h, "obj" \in DOMAIN h, NEW s
  PROVE  "obj" \in DOMAIN WithLabels(h, s) /\ WithLabels(h, s).obj = h.obj
BY DEF WithLabels

LEMMA MergedBelongs ==
  ASSUME NEW h, NEW c, Belongs(h, c), NEW metric
  PROVE  Belongs(merge(h, metric), c)
BY MergedObject DEF Belongs, isClassified

LEMMA LabelledBelongs ==
  ASSUME NEW h, NEW c, Belongs(h, c), NEW s
  PROVE  Belongs(WithLabels(h, s), c)
BY LabelledObject DEF Belongs, isClassified

\* A step that changes no autoscaler and loses no object.
LEMMA BelongKept == AllBelong /\ NoneLost /\ UNCHANGED hpas => AllBelong'
<1> SUFFICES ASSUME AllBelong, NoneLost, UNCHANGED hpas, NEW id \in DOMAIN hpas
             PROVE  id[1] \in Cluster /\ Belongs(hpas[id], id[1])'
  BY DEF AllBelong
<1>1. id[1] \in Cluster /\ Belongs(hpas[id], id[1])
  BY DEF AllBelong
<1> QED BY <1>1 DEF Belongs, isClassified, NoneLost

\* An autoscaler that becomes known, or more of it.
LEMMA SetHpaBelongs ==
  ASSUME AllBelong, NoneLost, NEW c \in Cluster, NEW id, id[1] = c, NEW h, Belongs(h, c), SetHpa(c, id, h)
  PROVE  AllBelong'
<1>1. hpas' = [x \in DOMAIN hpas \cup {id} |-> IF x = id THEN h ELSE hpas[x]]
  BY DEF SetHpa, Assigned
<1>2. \A x \in DOMAIN hpas' : x[1] \in Cluster /\ Belongs(hpas'[x], x[1])
  BY <1>1 DEF AllBelong
<1>3. \A x \in DOMAIN hpas' : Belongs(hpas[x], x[1])'
  BY <1>2 DEF Belongs, isClassified, NoneLost
<1> QED BY <1>2, <1>3 DEF AllBelong

\* A series about an autoscaler.
LEMMA ScaleBelongs ==
  ASSUME AllBelong, NoneLost, NEW c \in Cluster, NEW s, Scale(c, s)
  PROVE  AllBelong'
<1>1. CASE UNCHANGED hpas
  BY <1>1, BelongKept
<1>2. CASE ~UNCHANGED hpas
  <2>1. CASE \E kind : GetHpa(kind, c, s)
    <3>1. PICK kind : GetHpa(kind, c, s)
      BY <2>1
    <3> DEFINE target == Key(<<ToLower(s.scaletargetref_kind), s.scaletargetref_name>>, s.namespace)
               id == <<c, s.namespace, s[TypeLabelName(kind)]>>
               metric == [name |-> s.metric_name, type |-> s.metric_target_type, value |-> s.value]
               h == IF id \in DOMAIN hpas THEN merge(hpas[id], metric) ELSE newHpa(target, <<metric>>)
    <3>2. target \in DOMAIN objects[c] /\ SetHpa(c, id, WithLabels(h, s))
      BY <1>2, <3>1 DEF GetHpa
    <3>3. id[1] = c
      OBVIOUS
    <3> HIDE DEF target, id, metric
    <3>4. Belongs(newHpa(target, <<metric>>), c)
      BY <3>2 DEF Belongs, newHpa, isClassified
    <3>5. id \in DOMAIN hpas => Belongs(hpas[id], c)
      BY <3>3 DEF AllBelong
    <3>6. Belongs(h, c)
      <4>1. CASE id \in DOMAIN hpas
        <5>1. PICK g : g = hpas[id]
          OBVIOUS
        <5> QED BY <3>5, <4>1, <5>1, MergedBelongs
      <4> QED BY <3>4, <4>1
    <3> HIDE DEF h
    <3> QED BY <3>2, <3>3, <3>6, LabelledBelongs, SetHpaBelongs
  <2>2. CASE \E kind : GetHpaLabels(kind, c, s)
    <3>1. PICK kind : GetHpaLabels(kind, c, s)
      BY <2>2
    <3> DEFINE label == TypeLabelName(kind)
               id == <<c, s.namespace, s[label]>>
               target == GuessedTarget(c, s[label], s.namespace)
               h == IF id \in DOMAIN hpas THEN hpas[id] ELSE newHpa(target, <<>>)
    <3>2. SetHpa(c, id, WithLabels(h, s))
      BY <1>2, <3>1 DEF GetHpaLabels
    <3>3. id[1] = c
      OBVIOUS
    <3>4. target # None => target \in DOMAIN objects[c]
      BY GuessedRegistered
    <3> HIDE DEF target, id
    <3>5. Belongs(newHpa(target, <<>>), c)
      BY <3>4 DEF Belongs, newHpa, isClassified
    <3>6. Belongs(h, c)
      BY <3>3, <3>5 DEF AllBelong
    <3> HIDE DEF h
    <3> QED BY <3>2, <3>3, <3>6, LabelledBelongs, SetHpaBelongs
  <2> QED BY <2>1, <2>2 DEF Scale
<1> QED BY <1>1, <1>2

\* The step of the induction.
LEMMA StepBelong == IInv /\ AllBelong /\ NoneLost /\ [Next]_vars => AllBelong'
<1> SUFFICES ASSUME IInv, AllBelong, NoneLost, [Next]_vars PROVE AllBelong'
  OBVIOUS
<1>1. CASE UNCHANGED hpas
  BY <1>1, BelongKept
<1>2. CASE Series /\ ~UNCHANGED hpas
  <2>1. PICK t \in pending : TakeSeries(t[1], t[2]) /\ Scale(t[1], t[2])
    BY <1>2 DEF Series, Own, Contain, Measure, Describe, GetObjectLabels, GetObjectMetric,
       GetOwnedObjectMetric, SetObjectMetric, GetNamespaceMetric
  <2>2. t[1] \in Cluster
    BY <2>1 DEF IInv, Asking, TakeSeries
  <2> QED BY <2>1, <2>2, ScaleBelongs
<1> QED BY <1>1, <1>2 DEF Next, Collecting, Ask, Walking, EndStage, SetUpWriters, WriteFiles, Separate,
       NextPhase, SingleQuery, vars, collectorVars, dataVars

\* What refers to something refers to what is registered, whatever the clusters answer
\* and in whatever order, and each row of the files has the columns of its header, but
\* for those writeHpaAttrs shifts by a sixth, empty cell.
THEOREM TypesHold == Spec => []TypeOK
<1>1. Init => Registered /\ AllBelong /\ AllAligned
  <2> SUFFICES ASSUME Init PROVE Registered /\ AllBelong /\ AllAligned
    OBVIOUS
  <2>1. /\ position = 1 /\ walk = NoWalk
        /\ containers = [c \in Cluster |-> <<>>] /\ namespaces = [c \in Cluster |-> <<>>]
        /\ hpas = <<>> /\ files = <<>>
    BY DEF Init, CollectorInit, OwnersInit
  <2>2. position \in 0 .. Len(Stages) + 1
    BY <2>1, StagesLength
  <2>3. Registered
    BY <2>1, <2>2 DEF Registered
  <2>4. AllBelong /\ AllAligned
    BY <2>1 DEF AllBelong, AllAligned
  <2> QED BY <2>3, <2>4
<1>2. IInv /\ CallsInv /\ LimitsInv /\ Registered /\ AllBelong /\ AllAligned => TypeOK
  <2> SUFFICES ASSUME IInv, CallsInv, LimitsInv, Registered, AllBelong, AllAligned PROVE TypeOK
    OBVIOUS
  <2>1. position \in 0 .. Len(Stages) + 1
    BY DEF Registered
  <2>2. phase \in 0 .. 4 + Len(SingleQueries) + 1
    BY SinglesKnown DEF CallsInv
  <2>3. \A c \in Cluster : \A cid \in DOMAIN containers[c] :
          /\ cid[1] \in DOMAIN objects[c]
          /\ cid[1][3] \in DOMAIN namespaces[c]
          /\ DOMAIN containers[c][cid].value = Attribute
    BY DEF Registered, LimitsInv, Attributed
  <2>4. walk # NoWalk => \A i \in DOMAIN walk.path : walk.path[i] \in DOMAIN ownerships[walk.cluster]
    BY DEF IInv, Rising
  <2>5. \A id \in DOMAIN hpas : isClassified(hpas[id]) => hpas[id].obj \in DOMAIN objects[id[1]]
    BY DEF AllBelong, Belongs
  <2>6. \A id \in DOMAIN files : \A e \in DOMAIN files[id].rows :
          RowFits(id, files[id].rows[e], files[id].header)
    BY DEF AllAligned
  <2> QED BY <2>1, <2>2, <2>3, <2>4, <2>5, <2>6 DEF TypeOK
<1>3. Init => LimitsInv
  BY InitLimits
<1> QED BY <1>1, <1>2, <1>3, StepRegistered, StepBelong, StepAligned, StepLimits, InitCalls, StepCalls,
           InitPlaces, StepPlaces, OwnershipInvariant, PTL DEF Spec

-----------------------------------------------------------------------------
(* Autoscalers *)

\* The names of the label, the stages of the queries for metrics, and whether they are asked.
Kind == DOMAIN TargetsQuery
Scaling == StageOf("newhpaTargets")
TargetsStage == [newhpa |-> Scaling, hpa |-> Scaling + 2]
AskedFor(kind) == Given(Stages[TargetsStage[kind]].given)

\* Objects say whose targets they are, and their namespaces are registered.
ObjectsMade ==
  \A c \in Cluster : \A k \in DOMAIN objects[c] :
    "hpa" \in DOMAIN objects[c][k] /\ k[3] \in DOMAIN namespaces[c]

\* The series of the autoscaler's metrics has been noted, if its target is registered.
Attached(c, kind, s) ==
  TargetOf(s) \in DOMAIN objects[c] =>
    /\ Handled(TargetsStage[kind], c, s) => ScalerOf(c, kind, s) \in DOMAIN hpas
    /\ ScalerOf(c, kind, s) \in DOMAIN hpas => hpas[ScalerOf(c, kind, s)].obj = TargetOf(s)

\* No autoscaler is known before their stages; a known one has the target its metrics name,
\* whichever series told of it first; and a target that was found has an autoscaler.
ScalersInv ==
  /\ position \in 1 .. Scaling - 1 => DOMAIN hpas = {}
  /\ \A c \in Cluster : \A kind \in Kind : AskedFor(kind) =>
       \A s \in AnswersTo(c, TargetsQuery[kind]) : Attached(c, kind, s)
  /\ \A id \in DOMAIN hpas : isClassified(hpas[id]) => objects[id[1]][hpas[id].obj].hpa # None

\* A stage that has nothing to do with autoscalers.
NotScaling(stage) ==
  /\ stage.handler \notin {"hpa", "hpaLabels"}
  /\ stage.query \notin {"newhpaTargets", "hpaTargets", "hpaLabels"}

NoneScales(s) ==
  /\ IsSequence(s)
  /\ \A i \in 1 .. Len(s) : NotScaling(s[i])

\* Each group of stages but that of autoscalers.
LEMMA OthersDoNotScale ==
  /\ NoneScales(OwnerStages) /\ NoneScales(ContainerStages) /\ NoneScales(PodStages)
  /\ NoneScales(ObjectStages) /\ NoneScales(JobStages) /\ NoneScales(SizeStages)
<1>1. NoneScales(OwnerStages)
  <2>1. Len(OwnerStages) = 5 /\ OwnerStages = [i \in 1 .. 5 |-> OwnerStages[i]]
    BY DEF OwnerStages
  <2>2. /\ NotScaling(OwnerStages[1]) /\ NotScaling(OwnerStages[2]) /\ NotScaling(OwnerStages[3])
        /\ NotScaling(OwnerStages[4]) /\ NotScaling(OwnerStages[5])
    BY DEF OwnerStages, Stage, NotScaling
  <2> QED BY <2>1, <2>2 DEF NoneScales, IsSequence
<1>2. NoneScales(ContainerStages)
  <2>1. Len(ContainerStages) = 14 /\ ContainerStages = [i \in 1 .. 14 |-> ContainerStages[i]]
    BY DEF ContainerStages
  <2>2. /\ NotScaling(ContainerStages[1]) /\ NotScaling(ContainerStages[2]) /\ NotScaling(ContainerStages[3])
        /\ NotScaling(ContainerStages[4]) /\ NotScaling(ContainerStages[5]) /\ NotScaling(ContainerStages[6])
        /\ NotScaling(ContainerStages[7]) /\ NotScaling(ContainerStages[8]) /\ NotScaling(ContainerStages[9])
        /\ NotScaling(ContainerStages[10]) /\ NotScaling(ContainerStages[11]) /\ NotScaling(ContainerStages[12])
        /\ NotScaling(ContainerStages[13]) /\ NotScaling(ContainerStages[14])
    BY DEF ContainerStages, Stage, NotScaling
  <2> QED BY <2>1, <2>2 DEF NoneScales, IsSequence
<1>3. NoneScales(PodStages)
  <2>1. Len(PodStages) = 8 /\ PodStages = [i \in 1 .. 8 |-> PodStages[i]]
    BY DEF PodStages
  <2>2. /\ NotScaling(PodStages[1]) /\ NotScaling(PodStages[2]) /\ NotScaling(PodStages[3])
        /\ NotScaling(PodStages[4]) /\ NotScaling(PodStages[5]) /\ NotScaling(PodStages[6])
        /\ NotScaling(PodStages[7]) /\ NotScaling(PodStages[8])
    BY DEF PodStages, Stage, NotScaling
  <2> QED BY <2>1, <2>2 DEF NoneScales, IsSequence
<1>4. NoneScales(ObjectStages)
  <2>1. Len(ObjectStages) = 12 /\ ObjectStages = [i \in 1 .. 12 |-> ObjectStages[i]]
    BY DEF ObjectStages
  <2>2. /\ NotScaling(ObjectStages[1]) /\ NotScaling(ObjectStages[2]) /\ NotScaling(ObjectStages[3])
        /\ NotScaling(ObjectStages[4]) /\ NotScaling(ObjectStages[5]) /\ NotScaling(ObjectStages[6])
        /\ NotScaling(ObjectStages[7]) /\ NotScaling(ObjectStages[8]) /\ NotScaling(ObjectStages[9])
        /\ NotScaling(ObjectStages[10]) /\ NotScaling(ObjectStages[11]) /\ NotScaling(ObjectStages[12])
    BY DEF ObjectStages, Stage, NotScaling
  <2> QED BY <2>1, <2>2 DEF NoneScales, IsSequence
<1>5. NoneScales(JobStages)
  <2>1. Len(JobStages) = 13 /\ JobStages = [i \in 1 .. 13 |-> JobStages[i]]
    BY DEF JobStages
  <2>2. /\ NotScaling(JobStages[1]) /\ NotScaling(JobStages[2]) /\ NotScaling(JobStages[3])
        /\ NotScaling(JobStages[4]) /\ NotScaling(JobStages[5]) /\ NotScaling(JobStages[6])
        /\ NotScaling(JobStages[7]) /\ NotScaling(JobStages[8]) /\ NotScaling(JobStages[9])
        /\ NotScaling(JobStages[10]) /\ NotScaling(JobStages[11]) /\ NotScaling(JobStages[12])
        /\ NotScaling(JobStages[13])
    BY DEF JobStages, Stage, NotScaling
  <2> QED BY <2>1, <2>2 DEF NoneScales, IsSequence
<1>6. NoneScales(SizeStages)
  <2>1. Len(SizeStages) = 8 /\ SizeStages = [i \in 1 .. 8 |-> SizeStages[i]]
    BY DEF SizeStages
  <2>2. /\ NotScaling(SizeStages[1]) /\ NotScaling(SizeStages[2]) /\ NotScaling(SizeStages[3])
        /\ NotScaling(SizeStages[4]) /\ NotScaling(SizeStages[5]) /\ NotScaling(SizeStages[6])
        /\ NotScaling(SizeStages[7]) /\ NotScaling(SizeStages[8])
    BY DEF SizeStages, Stage, NotScaling
  <2> QED BY <2>1, <2>2 DEF NoneScales, IsSequence
<1> QED BY <1>1, <1>2, <1>3, <1>4, <1>5, <1>6

\* More of them can be added to the list.
LEMMA NoneScalesExtended ==
  ASSUME NEW s, NEW t, NoneScales(s), NoneScales(t)
  PROVE  NoneScales(s \o t)
<1>1. /\ IsSequence(s \o t)
      /\ Len(s \o t) = Len(s) + Len(t) /\ Len(s) \in Nat /\ Len(t) \in Nat
      /\ \A i \in 1 .. Len(s) : (s \o t)[i] = s[i]
      /\ \A i \in (Len(s) + 1) .. Len(s \o t) :
           (s \o t)[i] = t[i - Len(s)] /\ i - Len(s) \in 1 .. Len(t)
  <2>1. IsSequence(s) /\ IsSequence(t)
    BY DEF NoneScales
  <2>2. Len(s) \in Nat /\ Len(t) \in Nat
    BY <2>1 DEF IsSequence
  <2> QED BY <2>1, <2>2, Joined
<1>2. ASSUME NEW i \in 1 .. Len(s \o t) PROVE NotScaling((s \o t)[i])
  <2>1. CASE i \in 1 .. Len(s)
    BY <1>1, <2>1 DEF NoneScales
  <2>2. CASE i \notin 1 .. Len(s)
    <3>1. i \in (Len(s) + 1) .. Len(s \o t)
      BY <1>1, <2>2
    <3> QED BY <1>1, <3>1 DEF NoneScales
  <2> QED BY <2>1, <2>2
<1> QED BY <1>1, <1>2 DEF NoneScales

\* The stages of autoscalers follow each other, with none of the others among them.
LEMMA ScalingFound ==
  \E n \in Nat :
    /\ n + 4 <= Len(Stages)
    /\ \A i \in 1 .. 4 : Stages[n + i] = HpaStages[i]
    /\ \A i \in DOMAIN Stages : i \in (n + 1) .. (n + 4) \/ NotScaling(Stages[i])
<1> DEFINE a == OwnerStages \o ContainerStages \o PodStages \o ObjectStages \o JobStages
           b == HpaStages
           d == SizeStages
           n == Len(a)
<1>1. NoneScales(a) /\ NoneScales(d)
  BY OthersDoNotScale, NoneScalesExtended
<1>2. IsSequence(b) /\ Len(b) = 4 /\ Len(d) = 8
  BY HpaStagesLater DEF AllLater, HpaStages, SizeStages
<1>3. Stages = (a \o b) \o d
  BY DEF Stages
<1> HIDE DEF a, b, d
<1>4. IsSequence(a) /\ IsSequence(d) /\ n \in Nat
  BY <1>1 DEF NoneScales, IsSequence
<1>5. /\ IsSequence(a \o b) /\ Len(a \o b) = n + 4
      /\ \A i \in 1 .. n : (a \o b)[i] = a[i]
      /\ \A i \in (n + 1) .. (n + 4) : (a \o b)[i] = b[i - n]
  <2>1. /\ IsSequence(a \o b) /\ Len(a \o b) = Len(a) + Len(b)
        /\ \A i \in 1 .. Len(a) : (a \o b)[i] = a[i]
        /\ \A i \in (Len(a) + 1) .. Len(a \o b) :
             (a \o b)[i] = b[i - Len(a)] /\ i - Len(a) \in 1 .. Len(b)
    BY ONLY <1>2, <1>4, Joined, ZenonT(40)
  <2> QED BY ONLY <2>1, <1>2
<1> DEFINE e == a \o b
<1>6. Stages = e \o d /\ IsSequence(e) /\ Len(e) = n + 4
      /\ (\A i \in 1 .. n : e[i] = a[i]) /\ \A i \in (n + 1) .. (n + 4) : e[i] = b[i - n]
  BY <1>3, <1>5
<1> HIDE DEF e, n
<1>7. /\ IsSequence(e \o d) /\ Len(e \o d) = n + 12
      /\ \A i \in 1 .. (n + 4) : (e \o d)[i] = e[i]
      /\ \A i \in (n + 5) .. (n + 12) : (e \o d)[i] = d[i - (n + 4)] /\ i - (n + 4) \in 1 .. 8
  <2>1. /\ IsSequence(e \o d) /\ Len(e \o d) = Len(e) + Len(d)
        /\ \A i \in 1 .. Len(e) : (e \o d)[i] = e[i]
        /\ \A i \in (Len(e) + 1) .. Len(e \o d) : (e \o d)[i] = d[i - Len(e)] /\ i - Len(e) \in 1 .. Len(d)
    BY <1>4, <1>6, Joined
  <2>2. Len(e \o d) = n + 12 /\ (n + 4) + 1 = n + 5
    BY <1>2, <1>4, <1>6, <2>1
  <2> QED BY ONLY <2>1, <2>2, <1>2, <1>6
<1>8. ASSUME NEW i \in 1 .. 4 PROVE Stages[n + i] = b[i]
  <2>1. n + i \in (n + 1) .. (n + 4) /\ n + i \in 1 .. (n + 4) /\ (n + i) - n = i
    BY <1>4
  <2> QED BY ONLY <1>6, <1>7, <2>1
<1>9. ASSUME NEW i \in DOMAIN Stages, i \notin (n + 1) .. (n + 4) PROVE NotScaling(Stages[i])
  <2>1. i \in 1 .. (n + 12)
    BY <1>6, <1>7 DEF IsSequence
  <2>2. CASE i \in 1 .. n
    <3>1. i \in 1 .. (n + 4)
      BY ONLY <1>4, <2>2
    <3> QED BY <1>1, <1>6, <1>7, <2>2, <3>1 DEF NoneScales, n
  <2>3. CASE i \in (n + 5) .. (n + 12)
    BY <1>1, <1>2, <1>6, <1>7, <2>3 DEF NoneScales
  <2>4. i \in 1 .. n \/ i \in (n + 5) .. (n + 12)
    BY ONLY <1>4, <1>9, <2>1
  <2> QED BY <2>2, <2>3, <2>4
<1>10. n + 4 <= Len(Stages)
  BY ONLY <1>4, <1>6, <1>7
<1> QED BY <1>4, <1>8, <1>9, <1>10 DEF b

\* Where autoscalers are asked for.
LEMMA ScalerStages ==
  /\ Scaling \in Nat /\ Scaling > 5
  /\ \A i \in Scaling .. Scaling + 3 : i \in DOMAIN Stages /\ Stages[i] = HpaStages[i - Scaling + 1]
  /\ \A i \in DOMAIN Stages : i \in Scaling .. Scaling + 3 \/ NotScaling(Stages[i])
  /\ TargetsStage["newhpa"] = Scaling /\ TargetsStage["hpa"] = Scaling + 2
  /\ \A kind \in Kind : StageOf(TargetsQuery[kind]) = TargetsStage[kind]
  /\ StageOf("hpaLabels") = Scaling + 3
<1>1. PICK n \in Nat :
        /\ n + 4 <= Len(Stages)
        /\ \A i \in 1 .. 4 : Stages[n + i] = HpaStages[i]
        /\ \A i \in DOMAIN Stages : i \in (n + 1) .. (n + 4) \/ NotScaling(Stages[i])
  BY ScalingFound
<1>2. /\ HpaStages[1].query = "newhpaTargets" /\ HpaStages[2].query = "newhpaLabels"
      /\ HpaStages[3].query = "hpaTargets" /\ HpaStages[4].query = "hpaLabels"
      /\ HpaStages[1].handler = "hpa"
  BY DEF HpaStages, Stage
<1>3. \A i \in (n + 1) .. (n + 4) : i \in DOMAIN Stages
  <2> DEFINE m == Len(Stages)
  <2>1. DOMAIN Stages = 1 .. m /\ m \in Nat /\ n + 4 <= m
    BY <1>1, StagesLength
  <2> HIDE DEF m
  <2> QED BY ONLY <2>1, n \in Nat
<1>4. /\ n + 1 \in DOMAIN Stages /\ n + 2 \in DOMAIN Stages
      /\ n + 3 \in DOMAIN Stages /\ n + 4 \in DOMAIN Stages
  BY <1>3
<1>5. /\ Stages[n + 1] = HpaStages[1] /\ Stages[n + 2] = HpaStages[2]
      /\ Stages[n + 3] = HpaStages[3] /\ Stages[n + 4] = HpaStages[4]
  BY <1>1
<1>6. ASSUME NEW i \in DOMAIN Stages
      PROVE  i = n + 1 \/ i = n + 2 \/ i = n + 3 \/ i = n + 4 \/ NotScaling(Stages[i])
  <2>1. \A j \in (n + 1) .. (n + 4) : j = n + 1 \/ j = n + 2 \/ j = n + 3 \/ j = n + 4
    OBVIOUS
  <2> QED BY <1>1, <2>1
<1>7. /\ \A i \in DOMAIN Stages : Stages[i].query = "newhpaTargets" <=> i = n + 1
      /\ \A i \in DOMAIN Stages : Stages[i].query = "hpaTargets" <=> i = n + 3
      /\ \A i \in DOMAIN Stages : Stages[i].query = "hpaLabels" <=> i = n + 4
  BY <1>2, <1>4, <1>5, <1>6 DEF NotScaling
<1>8. Scaling = n + 1 /\ StageOf("hpaTargets") = n + 3 /\ StageOf("hpaLabels") = n + 4
  BY <1>4, <1>7 DEF Scaling, StageOf
<1>9. /\ TargetsStage["newhpa"] = Scaling /\ TargetsStage["hpa"] = Scaling + 2
      /\ Kind = {"newhpa", "hpa"}
      /\ TargetsQuery["newhpa"] = "newhpaTargets" /\ TargetsQuery["hpa"] = "hpaTargets"
  BY DEF TargetsStage, Kind, TargetsQuery
<1>10. n + 1 > 5
  <2>1. ~(n + 1 \in 1 .. 5)
    <3>1. ASSUME NEW i \in 1 .. 5 PROVE Stages[i].handler # "hpa"
      <4>1. NotScaling(OwnerStages[i]) /\ Stages[i] = OwnerStages[i]
        <5>1. Len(OwnerStages) = 5
          BY DEF OwnerStages
        <5> QED BY <5>1, OthersDoNotScale, StagesKnown DEF NoneScales
      <4> QED BY <4>1 DEF NotScaling
    <3> QED BY <1>2, <1>5, <3>1
  <2> QED BY <2>1
<1>11. ASSUME NEW i \in Scaling .. Scaling + 3
       PROVE  i \in DOMAIN Stages /\ Stages[i] = HpaStages[i - Scaling + 1]
  <2>1. i - Scaling + 1 \in 1 .. 4 /\ i = n + (i - Scaling + 1) /\ i \in (n + 1) .. (n + 4)
    BY <1>8
  <2> QED BY ONLY <1>1, <1>3, <2>1
<1>12. Scaling \in Nat /\ Scaling > 5 /\ Scaling .. Scaling + 3 = (n + 1) .. (n + 4)
       /\ Scaling + 2 = n + 3 /\ Scaling + 3 = n + 4
  BY <1>8, <1>10
<1>13. /\ \A i \in DOMAIN Stages : i \in Scaling .. Scaling + 3 \/ NotScaling(Stages[i])
       /\ StageOf("hpaLabels") = Scaling + 3
  BY <1>1, <1>8, <1>12
<1>14. \A kind \in Kind : StageOf(TargetsQuery[kind]) = TargetsStage[kind]
  BY <1>8, <1>9, <1>12 DEF Scaling
<1> QED BY <1>9, <1>11, <1>12, <1>13, <1>14

\* What is asked for, and when.
LEMMA ScalerHandlers ==
  /\ Stages[Scaling].handler = "hpa" /\ Stages[Scaling].kind = "newhpa"
  /\ Stages[Scaling + 1].handler = "hpaLabels" /\ Stages[Scaling + 1].kind = "newhpa"
  /\ Stages[Scaling + 2].handler = "hpa" /\ Stages[Scaling + 2].kind = "hpa"
  /\ Stages[Scaling + 3].handler = "hpaLabels" /\ Stages[Scaling + 3].kind = "hpa"
  /\ Stages[Scaling].query = "newhpaTargets" /\ Stages[Scaling + 1].query = "newhpaLabels"
  /\ Stages[Scaling + 2].query = "hpaTargets" /\ Stages[Scaling + 3].query = "hpaLabels"
  /\ Stages[Scaling].given = "always" /\ Stages[Scaling + 1].given = "always"
  /\ Stages[Scaling + 2].given = "olderHpas" /\ Stages[Scaling + 3].given = "olderHpas"
<1>1. Scaling \in Nat
  BY ScalerStages
<1>2. /\ Scaling \in Scaling .. Scaling + 3 /\ Scaling + 1 \in Scaling .. Scaling + 3
      /\ Scaling + 2 \in Scaling .. Scaling + 3 /\ Scaling + 3 \in Scaling .. Scaling + 3
      /\ Scaling - Scaling + 1 = 1 /\ Scaling + 1 - Scaling + 1 = 2
      /\ Scaling + 2 - Scaling + 1 = 3 /\ Scaling + 3 - Scaling + 1 = 4
  BY <1>1
<1>3. \A i \in Scaling .. Scaling + 3 : Stages[i] = HpaStages[i - Scaling + 1]
  BY ScalerStages
<1>4. /\ Stages[Scaling] = HpaStages[1] /\ Stages[Scaling + 1] = HpaStages[2]
      /\ Stages[Scaling + 2] = HpaStages[3] /\ Stages[Scaling + 3] = HpaStages[4]
  <2> DEFINE first == Scaling
  <2>1. /\ first \in first .. first + 3 /\ first + 1 \in first .. first + 3
        /\ first + 2 \in first .. first + 3 /\ first + 3 \in first .. first + 3
        /\ first - first + 1 = 1 /\ first + 1 - first + 1 = 2
        /\ first + 2 - first + 1 = 3 /\ first + 3 - first + 1 = 4
        /\ \A i \in first .. first + 3 : Stages[i] = HpaStages[i - first + 1]
    BY <1>2, <1>3
  <2> HIDE DEF first
  <2>2. /\ Stages[first] = HpaStages[1] /\ Stages[first + 1] = HpaStages[2]
        /\ Stages[first + 2] = HpaStages[3] /\ Stages[first + 3] = HpaStages[4]
    BY ONLY <2>1
  <2> QED BY <2>2 DEF first
<1>5. /\ HpaStages[1].query = "newhpaTargets" /\ HpaStages[1].handler = "hpa"
      /\ HpaStages[1].kind = "newhpa" /\ HpaStages[1].given = "always"
      /\ HpaStages[2].query = "newhpaLabels" /\ HpaStages[2].handler = "hpaLabels"
      /\ HpaStages[2].kind = "newhpa" /\ HpaStages[2].given = "always"
      /\ HpaStages[3].query = "hpaTargets" /\ HpaStages[3].handler = "hpa"
      /\ HpaStages[3].kind = "hpa" /\ HpaStages[3].given = "olderHpas"
      /\ HpaStages[4].query = "hpaLabels" /\ HpaStages[4].handler = "hpaLabels"
      /\ HpaStages[4].kind = "hpa" /\ HpaStages[4].given = "olderHpas"
  BY DEF HpaStages, Stage
<1> QED BY ONLY <1>4, <1>5

-----------------------------------------------------------------------------
\* An object that is described says as before whose target it is.
LEMMA DescribedKept ==
  ASSUME NEW obj, "hpa" \in DOMAIN obj
  PROVE  /\ \A labels : "hpa" \in DOMAIN Described(obj, labels) /\ Described(obj, labels).hpa = obj.hpa
         /\ \A metric, s : /\ "hpa" \in DOMAIN UpdatedObject(obj, metric, s)
                           /\ UpdatedObject(obj, metric, s).hpa = obj.hpa
<1>1. \A labels : "hpa" \in DOMAIN Described(obj, labels) /\ Described(obj, labels).hpa = obj.hpa
  BY DEF Described
<1>2. ASSUME NEW metric, NEW s
      PROVE  "hpa" \in DOMAIN UpdatedObject(obj, metric, s) /\ UpdatedObject(obj, metric, s).hpa = obj.hpa
  <2>1. \A v : /\ "hpa" \in DOMAIN [obj EXCEPT !.currentSize = v] /\ [obj EXCEPT !.currentSize = v].hpa = obj.hpa
               /\ "hpa" \in DOMAIN [obj EXCEPT !.createTime = v] /\ [obj EXCEPT !.createTime = v].hpa = obj.hpa
               /\ "hpa" \in DOMAIN [obj EXCEPT !.qosClass = v] /\ [obj EXCEPT !.qosClass = v].hpa = obj.hpa
               /\ "hpa" \in DOMAIN [obj EXCEPT !.labelMap = v] /\ [obj EXCEPT !.labelMap = v].hpa = obj.hpa
    OBVIOUS
  <2>2. \/ \E v : UpdatedObject(obj, metric, s) = [obj EXCEPT !.currentSize = v]
        \/ \E v : UpdatedObject(obj, metric, s) = [obj EXCEPT !.createTime = v]
        \/ \E v : UpdatedObject(obj, metric, s) = [obj EXCEPT !.qosClass = v]
        \/ \E v : UpdatedObject(obj, metric, s) = [obj EXCEPT !.labelMap = v]
    BY DEF UpdatedObject
  <2> QED BY <2>1, <2>2
<1> QED BY <1>1, <1>2

\* No object is lost or becomes another one's target.
Kept ==
  \A d \in Cluster : /\ DOMAIN objects'[d] = DOMAIN objects[d]
                     /\ \A k \in DOMAIN objects[d] :
                          "hpa" \in DOMAIN objects'[d][k] /\ objects'[d][k].hpa = objects[d][k].hpa

\* The handlers that are about neither containers nor autoscalers leave objects so.
LEMMA ObjectsKept ==
  ASSUME PlacesInv, ObjectsMade, NEW c \in Cluster, NEW s, Own(c, s) \/ Measure(c, s) \/ Describe(c, s)
  PROVE  Kept
<1>1. objects = [d \in Cluster |-> objects[d]]
  BY DEF PlacesInv, AllAtHome
<1>2. CASE UNCHANGED objects
  BY <1>2 DEF ObjectsMade, Kept
<1>3. CASE \E kind, all : GetObjectLabels(kind, all, c, s)
  <2>0. PICK kind, all : GetObjectLabels(kind, all, c, s)
    BY <1>3
  <2>1. PICK keys, labels :
          objects' = [objects EXCEPT
            ![c] = [k \in DOMAIN @ |-> IF k \in keys THEN Described(@[k], labels) ELSE @[k]]]
    BY <2>0 DEF GetObjectLabels
  <2>2. /\ objects'[c] = [k \in DOMAIN objects[c] |-> IF k \in keys THEN Described(objects[c][k], labels)
                                                      ELSE objects[c][k]]
        /\ \A d \in Cluster \ {c} : objects'[d] = objects[d]
    BY <1>1, <2>1
  <2> QED BY <2>2, DescribedKept DEF ObjectsMade, Kept
<1>4. CASE \E metric, keys : SetObjectMetric(metric, keys, c, s)
  <2>1. PICK metric, keys : SetObjectMetric(metric, keys, c, s)
    BY <1>4
  <2>2. objects' = [objects EXCEPT
          ![c] = [k \in DOMAIN @ |-> IF k \in keys THEN UpdatedObject(@[k], metric, s) ELSE @[k]]]
    BY <2>1 DEF SetObjectMetric
  <2>3. /\ objects'[c] = [k \in DOMAIN objects[c] |-> IF k \in keys THEN UpdatedObject(objects[c][k], metric, s)
                                                      ELSE objects[c][k]]
        /\ \A d \in Cluster \ {c} : objects'[d] = objects[d]
    BY <1>1, <2>2
  <2> QED BY <2>3, DescribedKept DEF ObjectsMade, Kept
<1> QED BY <1>2, <1>3, <1>4 DEF Own, GetOwner, Measure, GetContainerMetric, Describe, GetObjectMetric,
       GetOwnedObjectMetric, GetNamespaceMetric

\* A placed container's object is as registration makes it.
LEMMA PlaceMakes ==
  ASSUME PlacesInv, ObjectsMade, NoneLost, NEW c \in Cluster, NEW s, NEW owner, Place(c, s, owner),
         s.namespace \in DOMAIN namespaces'[c]
  PROVE  ObjectsMade'
<1> DEFINE k == Key(owner, s.namespace)
<1>1. objects' = [objects EXCEPT ![c] = AssignedOnce(objects[c], k, NewObject)]
  BY DEF Place
<1>2. k[3] = s.namespace /\ "hpa" \in DOMAIN NewObject
  BY DEF Key, NewObject
<1> HIDE DEF k
<1>3. /\ objects'[c] = AssignedOnce(objects[c], k, NewObject)
      /\ \A d \in Cluster \ {c} : objects'[d] = objects[d]
  BY <1>1 DEF PlacesInv, AllAtHome
<1>4. ASSUME NEW x \in DOMAIN objects'[c]
      PROVE  "hpa" \in DOMAIN objects'[c][x] /\ x[3] \in DOMAIN namespaces'[c]
  <2>1. \/ x \in DOMAIN objects[c] /\ objects'[c][x] = objects[c][x]
        \/ x = k /\ objects'[c][x] = NewObject
    BY <1>3 DEF AssignedOnce, Assigned
  <2> QED BY <1>2, <2>1 DEF ObjectsMade, NoneLost
<1> QED BY <1>3, <1>4 DEF ObjectsMade, NoneLost

\* An object an autoscaler becomes known of.
LEMMA SetHpaMakes ==
  ASSUME PlacesInv, ObjectsMade, NoneLost, NEW c \in Cluster, NEW id, NEW h, SetHpa(c, id, h)
  PROVE  /\ ObjectsMade'
         /\ \A d \in Cluster : DOMAIN objects'[d] = DOMAIN objects[d]
         /\ \A d \in Cluster : \A k \in DOMAIN objects[d] :
              objects'[d][k].hpa =
                IF id \notin DOMAIN hpas /\ isClassified(h) /\ d = c /\ k = h.obj THEN id
                ELSE objects[d][k].hpa
<1>1. CASE UNCHANGED objects /\ ~(id \notin DOMAIN hpas /\ isClassified(h))
  BY <1>1 DEF ObjectsMade, NoneLost
<1>2. CASE id \notin DOMAIN hpas /\ isClassified(h)
  <2>1. PICK o : o = h.obj
    OBVIOUS
  <2>2. objects' = [objects EXCEPT ![c] = [objects[c] EXCEPT ![o] = [objects[c][o] EXCEPT !.hpa = id]]]
    BY <1>2, <2>1 DEF SetHpa
  <2>3. PICK new : new = [objects[c][o] EXCEPT !.hpa = id]
    OBVIOUS
  <2>4. /\ objects'[c] = [objects[c] EXCEPT ![o] = new]
        /\ \A d \in Cluster \ {c} : objects'[d] = objects[d]
    BY <2>2, <2>3 DEF PlacesInv, AllAtHome
  <2>5. o \in DOMAIN objects[c] => "hpa" \in DOMAIN new /\ new.hpa = id
    BY <2>3 DEF ObjectsMade
  <2>6. \A d \in Cluster : DOMAIN objects'[d] = DOMAIN objects[d]
    BY <2>4
  <2>7. ASSUME NEW d \in Cluster, NEW k \in DOMAIN objects[d]
        PROVE  /\ "hpa" \in DOMAIN objects'[d][k]
               /\ objects'[d][k].hpa = IF d = c /\ k = o THEN id ELSE objects[d][k].hpa
    <3>1. CASE d = c /\ k = o
      BY <2>4, <2>5, <3>1
    <3>2. CASE ~(d = c /\ k = o)
      <4>1. objects'[d][k] = objects[d][k]
        BY <2>4, <3>2
      <4> QED BY <3>2, <4>1 DEF ObjectsMade
    <3> QED BY <3>1, <3>2
  <2>8. ObjectsMade'
    BY <2>6, <2>7 DEF ObjectsMade, NoneLost
  <2> QED BY <1>2, <2>1, <2>6, <2>7, <2>8
<1> QED BY <1>1, <1>2 DEF SetHpa

\* A step that keeps all objects as they are, but for what is described of them.
LEMMA MadeAsKept == ObjectsMade /\ NoneLost /\ Kept => ObjectsMade'
BY DEF ObjectsMade, NoneLost, Kept

\* The step of the induction.
LEMMA StepObjects ==
  IInv /\ PlacesInv /\ Registered /\ ObjectsMade /\ NoneLost /\ [Next]_vars => ObjectsMade'
<1> SUFFICES ASSUME IInv, PlacesInv, Registered, ObjectsMade, NoneLost, [Next]_vars PROVE ObjectsMade'
  OBVIOUS
<1>1. CASE UNCHANGED objects
  BY <1>1 DEF ObjectsMade, NoneLost
<1>2. CASE Series
  <2>1. PICK t \in pending :
          /\ TakeSeries(t[1], t[2])
          /\ \/ Own(t[1], t[2])
             \/ Contain(t[1], t[2])
             \/ Measure(t[1], t[2])
             \/ Describe(t[1], t[2])
             \/ Scale(t[1], t[2])
    BY <1>2 DEF Series
  <2>2. t[1] \in Cluster
    BY <2>1 DEF IInv, Asking, TakeSeries
  <2>3. CASE Own(t[1], t[2]) \/ Measure(t[1], t[2]) \/ Describe(t[1], t[2])
    BY <2>2, <2>3, ObjectsKept, MadeAsKept
  <2>4. CASE Scale(t[1], t[2])
    <3>1. UNCHANGED objects \/ \E id, h : SetHpa(t[1], id, h)
      BY <2>4 DEF Scale, GetHpa, GetHpaLabels
    <3> QED BY <1>1, <2>2, <3>1, SetHpaMakes
  <2>5. CASE Contain(t[1], t[2])
    <3>1. AddContainer(t[1], t[2]) \/ UNCHANGED ownerVars
      BY <2>5 DEF Contain
    <3>2. UNCHANGED objects
          \/ \E owner : Place(t[1], t[2], owner)
             /\ namespaces' = [namespaces EXCEPT ![t[1]] = AssignedOnce(@, t[2].namespace, NewNamespace)]
      BY <3>1 DEF AddContainer, ownerVars
    <3>3. ASSUME NEW owner, Place(t[1], t[2], owner),
                 namespaces' = [namespaces EXCEPT ![t[1]] = AssignedOnce(@, t[2].namespace, NewNamespace)]
          PROVE  ObjectsMade'
      <4>1. namespaces'[t[1]] = AssignedOnce(namespaces[t[1]], t[2].namespace, NewNamespace)
        BY <2>2, <3>3 DEF Registered
      <4>2. t[2].namespace \in DOMAIN namespaces'[t[1]]
        BY <4>1 DEF AssignedOnce, Assigned
      <4> QED BY <2>2, <3>3, <4>2, PlaceMakes
    <3> QED BY <1>1, <3>2, <3>3
  <2> QED BY <2>1, <2>3, <2>4, <2>5
<1>3. CASE Walking
  <2>1. walk # NoWalk /\ UNCHANGED namespaces /\ walk.cluster \in Cluster
    BY <1>3 DEF Walking, Climb, ReachTop, IInv, Rising
  <2>2. walk.series.namespace \in DOMAIN namespaces'[walk.cluster]
    BY <2>1 DEF Registered
  <2>3. UNCHANGED objects \/ \E owner : Place(walk.cluster, walk.series, owner)
    BY <1>3 DEF Walking, Climb, ReachTop
  <2> QED BY <1>1, <2>1, <2>2, <2>3, PlaceMakes
<1>4. CASE Ask \/ EndStage \/ SetUpWriters \/ WriteFiles \/ Separate \/ NextPhase \/ SingleQuery \/ UNCHANGED vars
  <2>1. UNCHANGED objects
    BY <1>4 DEF Ask, EndStage, SetUpWriters, WriteFiles, Separate, NextPhase, SingleQuery, vars,
       collectorVars, dataVars, ownerVars
  <2> QED BY <1>1, <2>1
<1> QED BY <1>2, <1>3, <1>4 DEF Next, Collecting

-----------------------------------------------------------------------------
\* What is reported of autoscalers, in terms of the answers at hand.
LEMMA ReportsKnown ==
  ASSUME answers \in Answers, NEW c \in Cluster
  PROVE  /\ \A kind \in Kind : \A s \in AnswersTo(c, TargetsQuery[kind]) :
              /\ HasLabels(s, {"namespace", "scaletargetref_kind", "scaletargetref_name",
                               TypeLabelName(kind), "metric_name", "metric_target_type"})
              /\ ScalerOf(c, kind, s) # None /\ TargetOf(s) # None
              /\ \A k \in Kind : \A r \in AnswersTo(c, TargetsQuery[k]) :
                   ScalerOf(c, k, r) = ScalerOf(c, kind, s) => TargetOf(r) = TargetOf(s)
         /\ \A kind \in Kind : \A s \in AnswersTo(c, LabelsQuery[kind]) :
              HasLabels(s, {"namespace", TypeLabelName(kind)}) => ScalerOf(c, kind, s) # None
         /\ \A s \in AnswersTo(c, "newhpaLabels"), r \in AnswersTo(c, "hpaTargets") :
              /\ HasLabels(s, {"namespace", TypeLabelName("newhpa")})
              /\ ScalerOf(c, "newhpa", s) = ScalerOf(c, "hpa", r)
              => \E t \in AnswersTo(c, "newhpaTargets") : ScalerOf(c, "newhpa", t) = ScalerOf(c, "newhpa", s)
<1>1. \A q : AnswersTo(c, q) = Reported(answers, c, q)
  BY DEF AnswersTo, Reported
<1> DEFINE complete(kind, s) ==
             HasLabels(s, {"namespace", "scaletargetref_kind", "scaletargetref_name",
                           TypeLabelName(kind), "metric_name", "metric_target_type"})
           named(kind, s) == HasLabels(s, {"namespace", TypeLabelName(kind)})
<1>2. \A kind, s : complete(kind, s) => named(kind, s)
  BY DEF HasLabels
<1>3. ASSUME NEW kind \in Kind, NEW s \in AnswersTo(c, TargetsQuery[kind])
      PROVE  /\ complete(kind, s)
             /\ ScalerOf(c, kind, s) # None /\ TargetOf(s) # None
             /\ \A k \in Kind : \A r \in AnswersTo(c, TargetsQuery[k]) :
                  ScalerOf(c, k, r) = ScalerOf(c, kind, s) => TargetOf(r) = TargetOf(s)
  <2>1. s \in Reported(answers, c, TargetsQuery[kind])
    BY <1>1
  <2>2. /\ complete(kind, s) /\ TargetOf(s) # None
        /\ \A k \in Kind : \A r \in Reported(answers, c, TargetsQuery[k]) :
             ScalerOf(c, k, r) = ScalerOf(c, kind, s) => TargetOf(r) = TargetOf(s)
        /\ named(kind, s) => ScalerOf(c, kind, s) # None
    BY <2>1, ScalersReported DEF Kind
  <2>3. ScalerOf(c, kind, s) # None
    BY <1>2, <2>2
  <2> HIDE DEF complete, named
  <2> QED BY <1>1, <2>2, <2>3
<1>4. ASSUME NEW kind \in Kind, NEW s \in AnswersTo(c, LabelsQuery[kind]), named(kind, s)
      PROVE  ScalerOf(c, kind, s) # None
  <2>1. s \in Reported(answers, c, LabelsQuery[kind])
    BY <1>1
  <2>2. HasLabels(s, {"namespace", TypeLabelName(kind)}) => ScalerOf(c, kind, s) # None
    <3>1. kind \in DOMAIN TargetsQuery
      BY DEF Kind
    <3>2. \A k \in DOMAIN TargetsQuery :
            \A r \in Reported(answers, c, TargetsQuery[k]) \cup Reported(answers, c, LabelsQuery[k]) :
              HasLabels(r, {"namespace", TypeLabelName(k)}) => ScalerOf(c, k, r) # None
      BY ScalersReported
    <3> QED BY ONLY <2>1, <3>1, <3>2
  <2> QED BY ONLY <1>4, <2>2
<1>5. ASSUME NEW s \in AnswersTo(c, "newhpaLabels"), NEW r \in AnswersTo(c, "hpaTargets"),
             named("newhpa", s), ScalerOf(c, "newhpa", s) = ScalerOf(c, "hpa", r)
      PROVE  \E t \in AnswersTo(c, "newhpaTargets") : ScalerOf(c, "newhpa", t) = ScalerOf(c, "newhpa", s)
  BY <1>1, <1>5, ScalersReported
<1> QED BY <1>3, <1>4, <1>5

\* Before the stages of autoscalers there is nothing to say about them.
LEMMA NoScalers ==
  DOMAIN hpas = {} /\ position \in 1 .. Scaling - 1 => ScalersInv
<1>1. SUFFICES ASSUME DOMAIN hpas = {}, position \in 1 .. Scaling - 1 PROVE ScalersInv
  OBVIOUS
<1>2. \A kind \in Kind : \A c, s : ~Handled(TargetsStage[kind], c, s)
  <2>1. \A kind \in Kind : TargetsStage[kind] \in {Scaling, Scaling + 2}
    BY ScalerStages DEF Kind, TargetsQuery
  <2>2. Scaling \in Nat
    BY ScalerStages
  <2>3. ~(position > Scaling) /\ ~(position > Scaling + 2) /\ position # Scaling /\ position # Scaling + 2
    BY ONLY <1>1, <2>2
  <2> QED BY <2>1, <2>3 DEF Handled
<1> QED BY <1>1, <1>2 DEF ScalersInv, Attached

\* Which queries are asked depends on the answers.
LEMMA AskedKept ==
  ASSUME UNCHANGED answers
  PROVE  \A kind \in Kind : AskedFor(kind)' <=> AskedFor(kind)
<1>1. SomeMissing("newhpaLabels")' <=> SomeMissing("newhpaLabels")
  BY DEF SomeMissing, Answering, AnswersTo
<1>2. /\ Given("always") /\ Given("always")'
      /\ Given("olderHpas") = SomeMissing("newhpaLabels")
      /\ Given("olderHpas")' = SomeMissing("newhpaLabels")'
  BY DEF Given
<1>3. \A kind \in Kind : Stages[TargetsStage[kind]].given \in {"always", "olderHpas"}
  BY ScalerStages, ScalerHandlers DEF Kind, TargetsQuery
<1> QED BY <1>1, <1>2, <1>3 DEF AskedFor

\* A step that brings no series through whose target is registered, and changes nothing of
\* autoscalers.
LEMMA ScalersKept ==
  ASSUME ScalersInv, AllBelong, Kept, UNCHANGED <<answers, hpas>>,
         position' \in 1 .. Scaling - 1 => position \in 1 .. Scaling - 1,
         \A kind \in Kind : AskedFor(kind) => \A c \in Cluster : \A s \in AnswersTo(c, TargetsQuery[kind]) :
           Handled(TargetsStage[kind], c, s)' =>
             Handled(TargetsStage[kind], c, s) \/ TargetOf(s) \notin DOMAIN objects[c]
  PROVE  ScalersInv'
<1>1. \A c, q : AnswersTo(c, q)' = AnswersTo(c, q)
  BY DEF AnswersTo
<1>2. \A kind \in Kind : AskedFor(kind)' <=> AskedFor(kind)
  BY AskedKept
<1>3. ASSUME NEW c \in Cluster, NEW kind \in Kind, AskedFor(kind), NEW s \in AnswersTo(c, TargetsQuery[kind])
      PROVE  Attached(c, kind, s)'
  <2>1. Attached(c, kind, s)
    BY <1>3 DEF ScalersInv
  <2>2. DOMAIN objects'[c] = DOMAIN objects[c]
    BY DEF Kept
  <2>3. TargetOf(s) \in DOMAIN objects[c] => (Handled(TargetsStage[kind], c, s)' => Handled(TargetsStage[kind], c, s))
    BY <1>3
  <2> QED BY <2>1, <2>2, <2>3 DEF Attached
<1>4. ASSUME NEW id \in DOMAIN hpas, isClassified(hpas[id])
      PROVE  objects'[id[1]][hpas[id].obj].hpa # None
  <2>1. id[1] \in Cluster /\ hpas[id].obj \in DOMAIN objects[id[1]]
    BY <1>4 DEF AllBelong, Belongs
  <2>2. objects[id[1]][hpas[id].obj].hpa # None
    BY <1>4 DEF ScalersInv
  <2> QED BY <2>1, <2>2 DEF Kept
<1>5. position' \in 1 .. Scaling - 1 => DOMAIN hpas' = {}
  BY DEF ScalersInv
<1> QED BY <1>1, <1>2, <1>3, <1>4, <1>5 DEF ScalersInv, isClassified

\* A series that makes an autoscaler known, or more of it: one that becomes known has the
\* target its metrics name, if they name any, and only its own series have come through.
LEMMA SetHpaScalers ==
  ASSUME PlacesInv, AllBelong, ObjectsMade, NoneLost, ScalersInv, UNCHANGED answers,
         position' \notin 1 .. Scaling - 1,
         NEW c \in Cluster, NEW id, id[1] = c, id # None, NEW h, Belongs(h, c), SetHpa(c, id, h),
         id \in DOMAIN hpas => h.obj = hpas[id].obj,
         id \notin DOMAIN hpas =>
           \A kind \in Kind : AskedFor(kind) => \A s \in AnswersTo(c, TargetsQuery[kind]) :
             ScalerOf(c, kind, s) = id /\ TargetOf(s) \in DOMAIN objects[c] => h.obj = TargetOf(s),
         \A kind \in Kind : \A d \in Cluster : \A s \in AnswersTo(d, TargetsQuery[kind]) :
           Handled(TargetsStage[kind], d, s)' =>
             Handled(TargetsStage[kind], d, s) \/ ScalerOf(d, kind, s) = id
  PROVE  ScalersInv'
<1>1. hpas' = [x \in DOMAIN hpas \cup {id} |-> IF x = id THEN h ELSE hpas[x]]
  BY DEF SetHpa, Assigned
<1>2. /\ \A d \in Cluster : DOMAIN objects'[d] = DOMAIN objects[d]
      /\ \A d \in Cluster : \A k \in DOMAIN objects[d] :
           objects'[d][k].hpa =
             IF id \notin DOMAIN hpas /\ isClassified(h) /\ d = c /\ k = h.obj THEN id
             ELSE objects[d][k].hpa
  BY SetHpaMakes
<1>3. \A d, q : AnswersTo(d, q)' = AnswersTo(d, q)
  BY DEF AnswersTo
<1>4. \A kind \in Kind : AskedFor(kind)' <=> AskedFor(kind)
  BY AskedKept
<1>5. ASSUME NEW d \in Cluster, NEW kind \in Kind, AskedFor(kind), NEW s \in AnswersTo(d, TargetsQuery[kind])
      PROVE  Attached(d, kind, s)'
  <2>1. Attached(d, kind, s)
    BY <1>5 DEF ScalersInv
  <2> SUFFICES ASSUME TargetOf(s) \in DOMAIN objects[d]
               PROVE  /\ Handled(TargetsStage[kind], d, s)' => ScalerOf(d, kind, s) \in DOMAIN hpas'
                      /\ ScalerOf(d, kind, s) \in DOMAIN hpas' =>
                           hpas'[ScalerOf(d, kind, s)].obj = TargetOf(s)
    BY <1>2 DEF Attached
  <2>2. Handled(TargetsStage[kind], d, s)' => ScalerOf(d, kind, s) \in DOMAIN hpas'
    BY <1>1, <2>1 DEF Attached
  <2>3. CASE ScalerOf(d, kind, s) = id
    <3>1. d = c
      BY <2>3 DEF ScalerOf
    <3>2. h.obj = TargetOf(s)
      BY <1>5, <2>1, <2>3, <3>1 DEF Attached
    <3> QED BY <1>1, <2>2, <2>3, <3>2
  <2>4. CASE ScalerOf(d, kind, s) # id
    BY <1>1, <2>1, <2>2, <2>4 DEF Attached
  <2> QED BY <2>3, <2>4
<1>6. ASSUME NEW x \in DOMAIN hpas', isClassified(hpas'[x])
      PROVE  objects'[x[1]][hpas'[x].obj].hpa # None
  <2>1. CASE x \in DOMAIN hpas
    <3>1. hpas'[x].obj = hpas[x].obj /\ isClassified(hpas[x])
      BY <1>1, <1>6, <2>1 DEF isClassified
    <3>2. x[1] \in Cluster /\ hpas[x].obj \in DOMAIN objects[x[1]]
      BY <2>1, <3>1 DEF AllBelong, Belongs
    <3>3. objects[x[1]][hpas[x].obj].hpa # None
      BY <2>1, <3>1 DEF ScalersInv
    <3> QED BY <1>2, <3>1, <3>2, <3>3
  <2>2. CASE x \notin DOMAIN hpas
    <3>1. x = id /\ hpas'[x] = h
      BY <1>1, <2>2
    <3>2. isClassified(h) /\ h.obj \in DOMAIN objects[c]
      BY <1>6, <3>1 DEF Belongs
    <3>3. objects'[c][h.obj].hpa = id
      BY <1>2, <2>2, <3>1, <3>2
    <3> QED BY <3>1, <3>3
  <2> QED BY <2>1, <2>2
<1> QED BY <1>3, <1>4, <1>5, <1>6 DEF ScalersInv

\* A series of an autoscaler's metrics.
LEMMA GetHpaScalers ==
  ASSUME IInv, PlacesInv, AllBelong, ObjectsMade, NoneLost, ScalersInv,
         NEW kind \in Kind, position = TargetsStage[kind], asked, UNCHANGED <<answers, position, asked>>,
         NEW c \in Cluster, NEW s \in AnswersTo(c, TargetsQuery[kind]), pending' = pending \ {<<c, s>>},
         GetHpa(kind, c, s)
  PROVE  ScalersInv'
<1> DEFINE label == TypeLabelName(kind)
           target == TargetOf(s)
           id == ScalerOf(c, kind, s)
           metric == [name |-> s.metric_name, type |-> s.metric_target_type, value |-> s.value]
           h == IF id \in DOMAIN hpas THEN merge(hpas[id], metric) ELSE newHpa(target, <<metric>>)
<1>1. position \notin 1 .. Scaling - 1 /\ \A k \in Kind : k # kind => position # TargetsStage[k]
  <2>1. Kind = {"newhpa", "hpa"}
    BY DEF Kind, TargetsQuery
  <2>2. Scaling \in Nat /\ TargetsStage["newhpa"] = Scaling /\ TargetsStage["hpa"] = Scaling + 2
    BY ScalerStages
  <2> QED BY <2>1, <2>2
<1>2. ASSUME NEW k \in Kind, NEW d, NEW r, Handled(TargetsStage[k], d, r)'
      PROVE  Handled(TargetsStage[k], d, r) \/ (k = kind /\ d = c /\ r = s)
  BY <1>1, <1>2 DEF Handled
<1>3. /\ HasLabels(s, {"scaletargetref_kind", "scaletargetref_name", label,
                       "metric_name", "metric_target_type", "namespace"})
      /\ id # None
      /\ \A k \in Kind : \A r \in AnswersTo(c, TargetsQuery[k]) :
           ScalerOf(c, k, r) = id => TargetOf(r) = target
  BY ReportsKnown DEF HasLabels, IInv, Asking
<1>4. CASE target \in DOMAIN objects[c]
  <2>1. s.namespace \in DOMAIN namespaces[c]
    BY <1>4 DEF ObjectsMade, TargetOf, Key
  <2>2. InNamespace(c, s, {"scaletargetref_kind", "scaletargetref_name", label,
                           "metric_name", "metric_target_type"})
    BY <1>3, <2>1 DEF InNamespace, HasLabels
  <2>3. SetHpa(c, id, WithLabels(h, s))
    BY <1>4, <2>2 DEF GetHpa, TargetOf, ScalerOf
  <2>4. id[1] = c
    BY DEF ScalerOf
  <2> HIDE DEF id, target, metric
  <2>5. /\ "obj" \in DOMAIN h
        /\ h.obj = IF id \in DOMAIN hpas THEN hpas[id].obj ELSE target
    <3>1. "obj" \in DOMAIN newHpa(target, <<metric>>) /\ newHpa(target, <<metric>>).obj = target
      BY DEF newHpa
    <3>2. CASE id \in DOMAIN hpas
      <4>1. PICK g : g = hpas[id]
        OBVIOUS
      <4>2. "obj" \in DOMAIN g
        BY <3>2, <4>1 DEF AllBelong, Belongs
      <4> QED BY <3>2, <4>1, <4>2, MergedObject
    <3> QED BY <3>1, <3>2
  <2> HIDE DEF h
  <2>6. "obj" \in DOMAIN WithLabels(h, s) /\ WithLabels(h, s).obj = h.obj
    BY <2>5, LabelledObject
  <2> DEFINE g == WithLabels(h, s)
  <2>7. SetHpa(c, id, g) /\ "obj" \in DOMAIN g /\ g.obj = IF id \in DOMAIN hpas THEN hpas[id].obj ELSE target
    BY <2>3, <2>5, <2>6
  <2> HIDE DEF g
  <2>8. Belongs(g, c)
    BY <1>4, <2>4, <2>7 DEF AllBelong, Belongs, isClassified
  <2>9. \A k \in Kind : \A d \in Cluster : \A r \in AnswersTo(d, TargetsQuery[k]) :
          Handled(TargetsStage[k], d, r)' => Handled(TargetsStage[k], d, r) \/ ScalerOf(d, k, r) = id
    <3>1. id = ScalerOf(c, kind, s)
      BY DEF id
    <3>2. ASSUME NEW k \in Kind, NEW d \in Cluster, NEW r \in AnswersTo(d, TargetsQuery[k]),
                 Handled(TargetsStage[k], d, r)'
          PROVE  Handled(TargetsStage[k], d, r) \/ ScalerOf(d, k, r) = id
      <4>1. Handled(TargetsStage[k], d, r) \/ (k = kind /\ d = c /\ r = s)
        BY ONLY <1>2, <3>2
      <4> QED BY ONLY <3>1, <4>1
    <3> QED BY ONLY <3>2
  <2> QED BY <1>1, <1>3, <2>4, <2>7, <2>8, <2>9, SetHpaScalers
<1>5. CASE target \notin DOMAIN objects[c]
  <2>1. UNCHANGED <<hpas, objects>>
    BY <1>5 DEF GetHpa, TargetOf
  <2>2. Kept
    BY <2>1 DEF Kept, ObjectsMade
  <2>3. ASSUME NEW k \in Kind, NEW d \in Cluster, NEW r \in AnswersTo(d, TargetsQuery[k]),
               Handled(TargetsStage[k], d, r)'
        PROVE  Handled(TargetsStage[k], d, r) \/ TargetOf(r) \notin DOMAIN objects[d]
    <3>1. Handled(TargetsStage[k], d, r) \/ (k = kind /\ d = c /\ r = s)
      BY <1>2, <2>3
    <3>2. TargetOf(s) \notin DOMAIN objects[c]
      BY <1>5
    <3> QED BY ONLY <3>1, <3>2
  <2>4. UNCHANGED <<answers, hpas>> /\ position' \notin 1 .. Scaling - 1
    BY <1>1, <2>1
  <2> QED BY <2>2, <2>3, <2>4, ScalersKept
<1> QED BY <1>4, <1>5

\* A series of an autoscaler's labels: its metrics, which say what its target is, have all
\* come through before.
LEMMA GetHpaLabelsScalers ==
  ASSUME IInv, PlacesInv, AllBelong, ObjectsMade, NoneLost, ScalersInv,
         NEW kind \in Kind, position = TargetsStage[kind] + 1, UNCHANGED <<answers, position>>,
         NEW c \in Cluster, NEW s \in AnswersTo(c, LabelsQuery[kind]), GetHpaLabels(kind, c, s)
  PROVE  ScalersInv'
<1> DEFINE label == TypeLabelName(kind)
           id == ScalerOf(c, kind, s)
           target == GuessedTarget(c, s[label], s.namespace)
           h == IF id \in DOMAIN hpas THEN hpas[id] ELSE newHpa(target, <<>>)
<1>1. /\ Kind = {"newhpa", "hpa"} /\ Scaling \in Nat
      /\ TargetsStage["newhpa"] = Scaling /\ TargetsStage["hpa"] = Scaling + 2
      /\ TargetsQuery["newhpa"] = "newhpaTargets" /\ TargetsQuery["hpa"] = "hpaTargets"
      /\ LabelsQuery["newhpa"] = "newhpaLabels"
  BY ScalerStages DEF Kind, TargetsQuery, LabelsQuery
<1>2. /\ position \notin 1 .. Scaling - 1 /\ \A k \in Kind : position # TargetsStage[k]
      /\ position > TargetsStage["newhpa"]
      /\ kind = "hpa" => position > TargetsStage["hpa"]
  BY <1>1
<1>3. \A k \in Kind : \A d, r : Handled(TargetsStage[k], d, r)' <=> Handled(TargetsStage[k], d, r)
  BY <1>2 DEF Handled
<1>4. CASE InNamespace(c, s, {label})
  <2>1. SetHpa(c, id, WithLabels(h, s)) /\ id[1] = c
    BY <1>4 DEF GetHpaLabels, ScalerOf
  <2>2. HasLabels(s, {"namespace", label})
    BY <1>4 DEF InNamespace, HasLabels
  <2>3. id # None
    BY <2>2, ReportsKnown DEF IInv, Asking
  <2>4. target # None => target \in DOMAIN objects[c]
    BY GuessedRegistered
  <2>5. ASSUME id \notin DOMAIN hpas, NEW k \in Kind, AskedFor(k), NEW r \in AnswersTo(c, TargetsQuery[k]),
               ScalerOf(c, k, r) = id, TargetOf(r) \in DOMAIN objects[c]
        PROVE  FALSE
    <3>1. ~Handled(TargetsStage[k], c, r)
      BY <2>5 DEF ScalersInv, Attached
    <3>2. k = "hpa" /\ kind = "newhpa"
      BY <1>1, <1>2, <3>1 DEF Handled
    <3>3. PICK t \in AnswersTo(c, TargetsQuery["newhpa"]) : ScalerOf(c, "newhpa", t) = id
      <4>1. ScalerOf(c, "newhpa", s) = ScalerOf(c, "hpa", r) /\ id = ScalerOf(c, "newhpa", s)
        BY <2>5, <3>2
      <4>2. /\ s \in AnswersTo(c, "newhpaLabels") /\ r \in AnswersTo(c, "hpaTargets")
            /\ HasLabels(s, {"namespace", TypeLabelName("newhpa")})
        BY ONLY <1>1, <2>2, <3>2
      <4> HIDE DEF id
      <4> QED BY <1>1, <4>1, <4>2, ReportsKnown DEF IInv, Asking
    <3>4. TargetOf(t) = TargetOf(r)
      BY <1>1, <2>5, <3>2, <3>3, ReportsKnown DEF IInv, Asking
    <3>5. AskedFor("newhpa")
      BY <1>1, ScalerHandlers DEF AskedFor, Given
    <3>6. Handled(TargetsStage["newhpa"], c, t)
      BY <1>2 DEF Handled
    <3> QED BY <1>1, <2>5, <3>3, <3>4, <3>5, <3>6 DEF ScalersInv, Attached
  <2> HIDE DEF id, target
  <2>6. "obj" \in DOMAIN newHpa(target, <<>>) /\ newHpa(target, <<>>).obj = target
    BY DEF newHpa
  <2>7. /\ "obj" \in DOMAIN h
        /\ h.obj = IF id \in DOMAIN hpas THEN hpas[id].obj ELSE target
    BY <2>6 DEF AllBelong, Belongs
  <2> HIDE DEF h
  <2> DEFINE g == WithLabels(h, s)
  <2>8. SetHpa(c, id, g) /\ "obj" \in DOMAIN g /\ g.obj = IF id \in DOMAIN hpas THEN hpas[id].obj ELSE target
    BY <2>1, <2>7, LabelledObject
  <2> HIDE DEF g
  <2>9. Belongs(g, c)
    BY <2>1, <2>4, <2>8 DEF AllBelong, Belongs, isClassified
  <2> QED BY <1>2, <1>3, <2>1, <2>3, <2>5, <2>8, <2>9, SetHpaScalers
<1>5. CASE ~InNamespace(c, s, {label})
  <2>1. UNCHANGED <<hpas, objects>>
    BY <1>5 DEF GetHpaLabels
  <2>2. Kept
    BY <2>1 DEF Kept, ObjectsMade
  <2> QED BY <1>2, <1>3, <2>1, <2>2, ScalersKept
<1> QED BY <1>4, <1>5

\* A series of a stage, whose handler is the stage's.
LEMMA SeriesScalers ==
  ASSUME IInv, PlacesInv, Registered, AllBelong, ObjectsMade, NoneLost, ScalersInv,
         ~Done, NEW t \in pending, TakeSeries(t[1], t[2]),
         \/ Own(t[1], t[2])
         \/ Contain(t[1], t[2])
         \/ Measure(t[1], t[2])
         \/ Describe(t[1], t[2])
         \/ Scale(t[1], t[2])
  PROVE  ScalersInv'
<1>1. /\ asked /\ position \in DOMAIN Stages /\ UNCHANGED <<answers, position, asked>>
      /\ pending' = pending \ {<<t[1], t[2]>>}
  BY DEF TakeSeries, Done
<1>2. t[1] \in Cluster /\ t[2] \in AnswersTo(t[1], Current.query)
  BY <1>1 DEF IInv, Asking
<1>3. /\ Kind = {"newhpa", "hpa"} /\ Scaling \in Nat
      /\ TargetsStage["newhpa"] = Scaling /\ TargetsStage["hpa"] = Scaling + 2
      /\ TargetsQuery["newhpa"] = "newhpaTargets" /\ TargetsQuery["hpa"] = "hpaTargets"
      /\ LabelsQuery["newhpa"] = "newhpaLabels" /\ LabelsQuery["hpa"] = "hpaLabels"
  BY ScalerStages DEF Kind, TargetsQuery, LabelsQuery
<1>4. \A i \in Scaling .. Scaling + 3 : i = Scaling \/ i = Scaling + 1 \/ i = Scaling + 2 \/ i = Scaling + 3
  BY <1>3
<1>5. CASE Scale(t[1], t[2])
  <2>1. position = Scaling \/ position = Scaling + 1 \/ position = Scaling + 2 \/ position = Scaling + 3
    <3>1. ~NotScaling(Current)
      BY <1>5 DEF Scale, NotScaling
    <3> QED BY <1>1, <1>4, <3>1, ScalerStages DEF Current
  <2>2. CASE position = Scaling
    <3>1. Current.handler = "hpa" /\ Current.kind = "newhpa" /\ Current.query = "newhpaTargets"
      BY <2>2, ScalerHandlers DEF Current
    <3>2. GetHpa("newhpa", t[1], t[2])
      BY <1>5, <3>1 DEF Scale
    <3> QED BY <1>1, <1>2, <1>3, <2>2, <3>1, <3>2, GetHpaScalers
  <2>3. CASE position = Scaling + 1
    <3>1. Current.handler = "hpaLabels" /\ Current.kind = "newhpa" /\ Current.query = "newhpaLabels"
      BY <2>3, ScalerHandlers DEF Current
    <3>2. GetHpaLabels("newhpa", t[1], t[2])
      BY <1>5, <3>1 DEF Scale
    <3> QED BY <1>1, <1>2, <1>3, <2>3, <3>1, <3>2, GetHpaLabelsScalers
  <2>4. CASE position = Scaling + 2
    <3>1. Current.handler = "hpa" /\ Current.kind = "hpa" /\ Current.query = "hpaTargets"
      BY <2>4, ScalerHandlers DEF Current
    <3>2. GetHpa("hpa", t[1], t[2])
      BY <1>5, <3>1 DEF Scale
    <3> QED BY <1>1, <1>2, <1>3, <2>4, <3>1, <3>2, GetHpaScalers
  <2>5. CASE position = Scaling + 3
    <3>1. Current.handler = "hpaLabels" /\ Current.kind = "hpa" /\ Current.query = "hpaLabels"
      BY <2>5, ScalerHandlers DEF Current
    <3>2. GetHpaLabels("hpa", t[1], t[2])
      BY <1>5, <3>1 DEF Scale
    <3>3. position = TargetsStage["hpa"] + 1
      BY <1>3, <2>5
    <3> QED BY <1>1, <1>2, <1>3, <3>1, <3>2, <3>3, GetHpaLabelsScalers
  <2> QED BY <2>1, <2>2, <2>3, <2>4, <2>5
<1>6. CASE Contain(t[1], t[2])
  <2>1. position = 4 /\ UNCHANGED hpas
    BY <1>1, <1>6, StageNumbers DEF Contain, Current
  <2>2. position \in 1 .. Scaling - 1 /\ position' \in 1 .. Scaling - 1
    BY <1>1, <2>1, ScalerStages
  <2>3. DOMAIN hpas' = {} /\ position' \in 1 .. Scaling - 1
    BY <2>1, <2>2 DEF ScalersInv
  <2>4. (DOMAIN hpas = {} /\ position \in 1 .. Scaling - 1 => ScalersInv)'
    BY NoScalers, PTL
  <2> QED BY <2>3, <2>4
<1>7. CASE Own(t[1], t[2]) \/ Measure(t[1], t[2]) \/ Describe(t[1], t[2])
  <2>1. Kept
    BY <1>2, <1>7, ObjectsKept
  <2>2. UNCHANGED hpas
    BY <1>7 DEF Own, Measure, Describe, GetObjectLabels, GetObjectMetric, GetOwnedObjectMetric,
       SetObjectMetric, GetNamespaceMetric
  <2>3. position # Scaling /\ position # Scaling + 2
    <3>1. Current.handler # "hpa"
      BY <1>7 DEF Own, Measure, Describe
    <3> QED BY <3>1, ScalerHandlers DEF Current
  <2>4. \A k \in Kind : \A d, r : Handled(TargetsStage[k], d, r)' => Handled(TargetsStage[k], d, r)
    BY <1>1, <1>3, <2>3 DEF Handled
  <2> QED BY <1>1, <2>1, <2>2, <2>4, ScalersKept
<1> QED BY <1>5, <1>6, <1>7

\* The steps that are no series bring none through that counts.
LEMMA OtherStepsScalers ==
  ASSUME IInv, PlacesInv, AllBelong, ObjectsMade, ScalersInv,
         Ask \/ EndStage \/ SetUpWriters \/ UNCHANGED collectorVars
  PROVE  ScalersInv'
<1>1. UNCHANGED <<answers, objects, hpas>>
  BY DEF Ask, EndStage, SetUpWriters, collectorVars, dataVars, ownerVars
<1>2. Kept
  BY <1>1 DEF Kept, ObjectsMade
<1>3. /\ Kind = {"newhpa", "hpa"} /\ Scaling \in Nat /\ Scaling > 5
      /\ TargetsStage["newhpa"] = Scaling /\ TargetsStage["hpa"] = Scaling + 2
      /\ TargetsQuery["newhpa"] = "newhpaTargets" /\ TargetsQuery["hpa"] = "hpaTargets"
  BY ScalerStages DEF Kind, TargetsQuery
<1>4. \A kind \in Kind : /\ TargetsStage[kind] \in Nat
                         /\ Stages[TargetsStage[kind]].query = TargetsQuery[kind]
                         /\ Stages[TargetsStage[kind]].handler = "hpa"
  BY <1>3, ScalerHandlers
<1>5. position \in Nat
  BY DEF PlacesInv
<1>6. position' = position \/ position' = 0 \/ (position' = position + 1 /\ position \in DOMAIN Stages)
  BY DEF Ask, EndStage, SetUpWriters, collectorVars, stageVars, IInv, Asking, Done
<1>7. position' \in 1 .. Scaling - 1 => position \in 1 .. Scaling - 1
  <2>1. position \in DOMAIN Stages => position >= 1
    <3> DEFINE n == Len(Stages)
    <3>1. DOMAIN Stages = 1 .. n /\ n \in Nat
      BY StagesLength
    <3> HIDE DEF n
    <3> QED BY <3>1
  <2> QED BY ONLY <1>3, <1>5, <1>6, <2>1
<1>8. ASSUME NEW kind \in Kind, AskedFor(kind), NEW c \in Cluster, NEW s \in AnswersTo(c, TargetsQuery[kind]),
             Handled(TargetsStage[kind], c, s)'
      PROVE  Handled(TargetsStage[kind], c, s)
  <2> DEFINE n == TargetsStage[kind]
  <2>0. n \in Nat
    BY <1>4
  <2>1. CASE Ask
    <3>1. UNCHANGED position
      BY <2>1 DEF Ask
    <3>2. CASE position = n
      <4>1. Given(Current.given) /\ Current.query = TargetsQuery[kind]
        BY <1>4, <1>8, <3>2 DEF Current, AskedFor
      <4>2. <<c, s>> \in pending'
        BY <2>1, <4>1 DEF Ask
      <4>3. ~(position' > n)
        BY <2>0, <3>1, <3>2
      <4> QED BY <1>8, <4>2, <4>3 DEF Handled
    <3> QED BY <1>8, <3>1, <3>2 DEF Handled
  <2>2. CASE EndStage
    <3>1. asked /\ ~asked' /\ pending = {} /\ position' \in {0, position + 1}
      BY <2>2 DEF EndStage
    <3>2. position' > n
      BY <1>8, <3>1 DEF Handled
    <3>3. position > n \/ position = n
      BY <1>5, <2>0, <3>1, <3>2
    <3> QED BY <3>1, <3>3 DEF Handled
  <2>3. CASE SetUpWriters
    <3>1. position' = position + 1 /\ Current.handler \in {"addWriters", "closeWriters"}
      BY <2>3 DEF SetUpWriters
    <3>2. position # n
      BY <1>4, <3>1 DEF Current
    <3>3. position' > n
      <4>1. ~asked'
        BY <2>3, <3>1 DEF SetUpWriters, IInv, Asking
      <4> QED BY <1>8, <4>1 DEF Handled
    <3>4. position > n
      BY <1>5, <2>0, <3>1, <3>2, <3>3
    <3> QED BY <3>4 DEF Handled
  <2>4. CASE UNCHANGED collectorVars
    BY <1>8, <2>4 DEF collectorVars, stageVars, Handled
  <2> QED BY <2>1, <2>2, <2>3, <2>4
<1> QED BY <1>1, <1>2, <1>7, <1>8, ScalersKept

\* The step of the induction.
LEMMA StepScalers ==
  /\ IInv /\ PlacesInv /\ Registered /\ AllBelong /\ ObjectsMade /\ NoneLost /\ ScalersInv
  /\ [Next]_vars
  => ScalersInv'
<1> SUFFICES ASSUME IInv, PlacesInv, Registered, AllBelong, ObjectsMade, NoneLost, ScalersInv, [Next]_vars
             PROVE  ScalersInv'
  OBVIOUS
<1>1. CASE Series
  <2>1. PICK t \in pending :
          /\ TakeSeries(t[1], t[2])
          /\ \/ Own(t[1], t[2])
             \/ Contain(t[1], t[2])
             \/ Measure(t[1], t[2])
             \/ Describe(t[1], t[2])
             \/ Scale(t[1], t[2])
    BY <1>1 DEF Series
  <2>2. ~Done
    BY <1>1 DEF Series
  <2> QED BY <2>1, <2>2, SeriesScalers
<1>2. CASE Ask \/ EndStage \/ SetUpWriters \/ UNCHANGED collectorVars
  BY <1>2, OtherStepsScalers
<1>3. CASE Walking
  <2>1. walk # NoWalk /\ UNCHANGED <<position, hpas>>
    BY <1>3 DEF Walking, Climb, ReachTop, stageVars
  <2>2. position = 4
    BY <2>1 DEF PlacesInv, PathLeads
  <2>3. position \in 1 .. Scaling - 1 /\ position' \in 1 .. Scaling - 1
    BY <2>1, <2>2, ScalerStages
  <2>4. DOMAIN hpas' = {}
    BY <2>1, <2>3 DEF ScalersInv
  <2>5. (DOMAIN hpas = {} /\ position \in 1 .. Scaling - 1 => ScalersInv)'
    BY NoScalers, PTL
  <2> QED BY <2>3, <2>4, <2>5
<1>4. CASE WriteFiles \/ Separate \/ NextPhase \/ SingleQuery \/ UNCHANGED vars
  <2>1. UNCHANGED collectorVars
    BY <1>4 DEF WriteFiles, Separate, NextPhase, SingleQuery, vars
  <2> QED BY <1>2, <2>1
<1> QED BY <1>1, <1>2, <1>3, <1>4 DEF Next, Collecting

\* To begin with nothing is registered.
LEMMA InitScalers == Init => Registered /\ AllBelong /\ ObjectsMade /\ ScalersInv
<1> SUFFICES ASSUME Init PROVE Registered /\ AllBelong /\ ObjectsMade /\ ScalersInv
  OBVIOUS
<1>1. /\ position = 1 /\ walk = NoWalk /\ hpas = <<>>
      /\ containers = [c \in Cluster |-> <<>>] /\ namespaces = [c \in Cluster |-> <<>>]
      /\ objects = [c \in Cluster |-> <<>>]
  BY DEF Init, CollectorInit, OwnersInit
<1>2. position \in 0 .. Len(Stages) + 1
  BY <1>1, StagesLength
<1>3. Registered
  BY <1>1, <1>2 DEF Registered
<1>4. AllBelong
  BY <1>1 DEF AllBelong
<1>5. ObjectsMade
  BY <1>1 DEF ObjectsMade
<1>6. DOMAIN hpas = {} /\ position \in 1 .. Scaling - 1
  BY <1>1, ScalerStages
<1> QED BY <1>3, <1>4, <1>5, <1>6, NoScalers

\* Whichever series tells of an autoscaler first, and under whichever name of its label, it
\* ends up with the object its metrics name, and that object with an autoscaler.
THEOREM ScalersFound == Spec => []ScalersAttached
<1>1. IInv /\ PlacesInv /\ ScalersInv => ScalersAttached
  <2> SUFFICES ASSUME IInv, PlacesInv, ScalersInv, Past("hpaLabels"), NEW c \in Cluster, NEW kind \in Kind,
                      Given(Stages[StageOf(TargetsQuery[kind])].given),
                      NEW s \in AnswersTo(c, TargetsQuery[kind]), TargetOf(s) \in DOMAIN objects[c]
               PROVE  /\ hpas[ScalerOf(c, kind, s)].obj = TargetOf(s)
                      /\ objects[c][TargetOf(s)].hpa # None
    BY DEF ScalersAttached, Kind
  <2>1. /\ position > Scaling + 3 /\ position \in Nat /\ Scaling \in Nat
        /\ TargetsStage[kind] \in {Scaling, Scaling + 2} /\ AskedFor(kind)
    BY ScalerStages DEF Past, PlacesInv, AskedFor, Kind, TargetsQuery
  <2>2. Handled(TargetsStage[kind], c, s)
    <3>1. position > TargetsStage[kind]
      BY <2>1
    <3> QED BY <3>1 DEF Handled
  <2> DEFINE id == ScalerOf(c, kind, s)
  <2>3. id \in DOMAIN hpas /\ hpas[id].obj = TargetOf(s) /\ id[1] = c
    BY <2>1, <2>2 DEF ScalersInv, Attached, ScalerOf
  <2>4. isClassified(hpas[id])
    BY <2>3, ReportsKnown DEF isClassified, IInv, Asking
  <2> QED BY <2>3, <2>4 DEF ScalersInv
<1> QED BY <1>1, InitScalers, StepScalers, StepObjects, StepRegistered, StepBelong, InitPlaces, StepPlaces,
           OwnershipInvariant, PTL DEF Spec
=============================================================================
