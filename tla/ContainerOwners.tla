--------------------------- MODULE ContainerOwners ---------------------------
(***************************************************************************)
(* Who owns a container (internal/container/container.go, and the lookups  *)
(* of internal/container/collection.go).                                   *)
(*                                                                         *)
(* Three queries report direct owners, of pods, replica sets and jobs.     *)
(* The query of containers then creates, for the top-level owner of each   *)
(* container's pod, an object that holds the container.  All later metrics *)
(* find the container, or the object, by walking the same registry again.  *)
(*                                                                         *)
(* A series is a record of its labels and its last value; a label it lacks *)
(* is a field it lacks.                                                    *)
(***************************************************************************)
EXTENDS Integers, Sequences, FiniteSets, TLC

CONSTANTS
  Cluster,  \* the clusters' names
  None      \* no top-level owner, no label holder

ASSUME OwnersAssumption == Cluster # {} /\ IsFiniteSet(Cluster) /\ None \notin Cluster

UnknownValue == -1

VARIABLES
  ownerships,       \* by cluster and key, who owns the object of that key
  detectedOwners,   \* by cluster, the keys of direct owners of relevant objects
  detectedOwnershipTypes,  \* <<owned kind, cluster, owner kind>>
  namespaces,       \* by cluster and name, the limits of namespaces with containers
  objects,          \* by cluster and key, the objects that hold containers
  containers,       \* by cluster and <<key of the object, name>>, their attributes
  walk              \* the series whose top-level owner is being looked for, and the
                    \* keys of the ownerships passed on the way

ownerVars == <<ownerships, detectedOwners, detectedOwnershipTypes, namespaces,
               objects, containers, walk>>

NoWalk == [cluster |-> None, series |-> None, path |-> <<>>]

\* A map after m[k] = v, and after the same if k had no value.
Assigned(m, k, v) == [x \in DOMAIN m \cup {k} |-> IF x = k THEN v ELSE m[x]]
AssignedOnce(m, k, v) == IF k \in DOMAIN m THEN m ELSE Assigned(m, k, v)

HasLabels(s, names) == names \subseteq DOMAIN s

\* An objectId is <<kind, name>>.  The key of an object is its id and namespace.
Key(oid, ns) == <<oid[1], oid[2], ns>>
Id(k) == <<k[1], k[2]>>

\* strings.ToLower of the kinds an owner may have.
ToLower(kind) ==
  CASE kind = "ReplicaSet" -> "replicaset" [] kind = "Deployment" -> "deployment"
    [] kind = "Rollout" -> "rollout"       [] kind = "Job" -> "job"
    [] kind = "CronJob" -> "cronjob"       [] kind = "Node" -> "node"
    [] kind = "ReplicationController" -> "replicationcontroller"
    [] kind = "DaemonSet" -> "daemonset"   [] kind = "StatefulSet" -> "statefulset"
    [] OTHER -> kind

newOwnership(kind, name) == [direct |-> <<ToLower(kind), name>>, top |-> None]

TopLevelOwner(o) == IF o.top # None THEN o.top ELSE o.direct

\* A type holder's label is its kind, but for jobs and the newer autoscalers.
TypeLabelName(kind) ==
  CASE kind = "job" -> "job_name"
    [] kind = "newhpa" -> "horizontalpodautoscaler"
    [] OTHER -> kind

\* Only what owns something with containers is worth looking at.
isRelevant(c, oid, ns) == oid[1] = "pod" \/ Key(oid, ns) \in detectedOwners[c]

OwnersInit ==
  /\ ownerships = [c \in Cluster |-> <<>>]
  /\ detectedOwners = [c \in Cluster |-> {}]
  /\ detectedOwnershipTypes = {}
  /\ namespaces = [c \in Cluster |-> <<>>]
  /\ objects = [c \in Cluster |-> <<>>]
  /\ containers = [c \in Cluster |-> <<>>]
  /\ walk = NoWalk

\* One series of getOwners: the owner of an object of this kind.  Of several
\* owners reported for one object the last one counts.
GetOwner(kind, c, s) ==
  /\ IF HasLabels(s, {"namespace", "owner_kind", "owner_name"})
     THEN LET owShip == newOwnership(s.owner_kind, s.owner_name)
              owned == <<kind, s[TypeLabelName(kind)]>>
          IN /\ ownerships' = [ownerships EXCEPT
                  ![c] = Assigned(@, Key(owned, s.namespace), owShip)]
             /\ IF isRelevant(c, owned, s.namespace)
                THEN /\ detectedOwners' = [detectedOwners EXCEPT
                          ![c] = @ \cup {Key(owShip.direct, s.namespace)}]
                     /\ detectedOwnershipTypes' =
                          detectedOwnershipTypes \cup {<<kind, c, owShip.direct[1]>>}
                ELSE UNCHANGED <<detectedOwners, detectedOwnershipTypes>>
     ELSE UNCHANGED <<ownerships, detectedOwners, detectedOwnershipTypes>>
  /\ UNCHANGED <<namespaces, objects, containers, walk>>

-----------------------------------------------------------------------------
(* Containers and their objects *)

Attribute == {"memory", "gpuMemTotal", "gpuMemCount", "cpuLimit", "cpuRequest",
  "memLimit", "memRequest", "gpuLimit", "gpuRequest", "powerState",
  "ephemeralStorageLimit", "ephemeralStorageRequest"}
NamespaceLimit == {"cpuLimit", "cpuRequest", "memLimit", "memRequest", "podsLimit"}

NewNamespace == [limits |-> [l \in NamespaceLimit |-> UnknownValue], labelMap |-> {}]
NewObject == [currentSize |-> UnknownValue, createTime |-> 0, labelMap |-> {},
              hpa |-> None, qosClass |-> ""]
NewContainer(s) ==
  [value |-> [a \in Attribute |-> UnknownValue],
   restarts |-> 0,
   labelMap |-> {},
   type |-> IF HasLabels(s, {"restart_policy"}) /\ s.restart_policy = "Always"
            THEN "nativeSidecar" ELSE "regular"]

\* The object of this owner, created if there is none, gets a new container
\* that replaces one of the same name.
Place(c, s, owner) ==
  LET k == Key(owner, s.namespace)
  IN /\ objects' = [objects EXCEPT ![c] = AssignedOnce(@, k, NewObject)]
     /\ containers' = [containers EXCEPT
          ![c] = Assigned(@, <<k, s.container>>, NewContainer(s))]

PodKey(s) == Key(<<"pod", s.pod>>, s.namespace)

\* One series of addContainerAndOwners, up to its walk: a pod of no known owner
\* owns itself.
AddContainer(c, s) ==
  /\ walk = NoWalk
  /\ IF HasLabels(s, {"namespace", "pod", "container"})
     THEN /\ namespaces' = [namespaces EXCEPT ![c] = AssignedOnce(@, s.namespace, NewNamespace)]
          /\ IF PodKey(s) \in DOMAIN ownerships[c]
             THEN /\ walk' = [cluster |-> c, series |-> s, path |-> <<PodKey(s)>>]
                  /\ UNCHANGED <<ownerships, objects, containers>>
             ELSE /\ ownerships' = [ownerships EXCEPT
                       ![c] = Assigned(@, PodKey(s), newOwnership("pod", s.pod))]
                  /\ Place(c, s, <<"pod", s.pod>>)
                  /\ UNCHANGED walk
     ELSE UNCHANGED <<ownerships, namespaces, objects, containers, walk>>
  /\ UNCHANGED <<detectedOwners, detectedOwnershipTypes>>

\* The ownership the walk has come to, and the key of its direct owner.
Here == ownerships[walk.cluster][walk.path[Len(walk.path)]]
Above == Key(Here.direct, walk.series.namespace)

\* Mutant: any parent is followed, those of pods that own themselves too.
AnyParent ==
  Above \in DOMAIN ownerships[walk.cluster]

\* A pod that owns itself is not a parent.
HasParent ==
  /\ Above \in DOMAIN ownerships[walk.cluster]
  /\ ownerships[walk.cluster][Above].direct[1] # "pod"

Climb ==
  /\ walk # NoWalk
  /\ HasParent
  /\ walk' = [walk EXCEPT !.path = Append(@, Above)]
  /\ UNCHANGED <<ownerships, detectedOwners, detectedOwnershipTypes, namespaces,
                 objects, containers>>

\* Mutant: the ownerships passed on the way are not told where the walk ended.
Untold(co, path, owner) == co

\* All ownerships but the last of the path get its direct owner as their top.
Told(co, path, owner) ==
  [k \in DOMAIN co |->
     IF \E i \in 1 .. Len(path) - 1 : path[i] = k
     THEN [co[k] EXCEPT !.top = owner] ELSE co[k]]

ReachTop ==
  /\ walk # NoWalk
  /\ ~HasParent
  /\ ownerships' = [ownerships EXCEPT
       ![walk.cluster] = Told(@, walk.path, Here.direct)]
  /\ Place(walk.cluster, walk.series, TopLevelOwner(Here))
  /\ walk' = NoWalk
  /\ UNCHANGED <<detectedOwners, detectedOwnershipTypes, namespaces>>

-----------------------------------------------------------------------------
(* Looking up what the walk has placed *)

\* The owner of an object of no known ownership is the object itself.
getOwnerId(c, oid, ns) ==
  IF Key(oid, ns) \in DOMAIN ownerships[c]
  THEN TopLevelOwner(ownerships[c][Key(oid, ns)]) ELSE oid

\* The keys, at most one, of the objects an object's metrics are for.
getOwner(c, oid, ns) == {Key(getOwnerId(c, oid, ns), ns)} \cap DOMAIN objects[c]

getObject(c, oid, ns, requiresSameObject) ==
  {k \in getOwner(c, oid, ns) : isRelevant(c, oid, ns) /\ (requiresSameObject => Id(k) = oid)}
=============================================================================
