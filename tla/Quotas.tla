------------------------------- MODULE Quotas -------------------------------
(***************************************************************************)
(* What a cluster's answers say about quotas: OpenShift's cluster resource *)
(* quotas (internal/crq/crq.go), which must have been created before more  *)
(* is learnt about them, and the resource quotas of namespaces             *)
(* (internal/rq/rq.go), which any of their series creates.                 *)
(***************************************************************************)
EXTENDS Nodes

\* The resource a quota limits; pods are counted under two names, one of which
\* cluster resource quotas do not know.
QuotaOf(resource, podNames) ==
  CASE resource = "limits.cpu" -> "CpuLimit"
    [] resource \in {"requests.cpu", "cpu"} -> "CpuRequest"
    [] resource = "limits.memory" -> "MemoryLimit"
    [] resource \in {"requests.memory", "memory"} -> "MemoryRequest"
    [] resource \in podNames -> "Pods"
    [] OTHER -> None

HardColumn ==
  [CpuLimit |-> "NamespaceCpuLimit", CpuRequest |-> "NamespaceCpuRequest",
   MemoryLimit |-> "NamespaceMemoryLimit", MemoryRequest |-> "NamespaceMemoryRequest",
   Pods |-> "NamespacePodsLimit"]
UsedColumn ==
  [CpuLimit |-> "CpuLimit", CpuRequest |-> "CpuRequest", MemoryLimit |-> "MemoryLimit",
   MemoryRequest |-> "MemoryRequest", Pods |-> "CurrentSize"]

\* The column of a quota (hard) or of its usage (used).
QuotaColumn(type, quota) ==
  IF quota = None THEN {}
  ELSE CASE type = "hard" -> {HardColumn[quota]}
         [] type = "used" -> {UsedColumn[quota]}
         [] OTHER -> {}

WithQuota(q, s, podNames) ==
  LET columns == QuotaColumn(Label(s, "type"), QuotaOf(s.resource, podNames))
  IN [q EXCEPT !.values = Over([a \in columns |-> s.value], @),
               !.resources = IF Label(s, "type") = "hard" THEN Append(@, <<s.resource, s.value>>) ELSE @]

-----------------------------------------------------------------------------
(* Cluster resource quotas *)

\* A quota reported again replaces what is known of it.
createCRQ(cl, s) ==
  [cl EXCEPT !.crqs = Over([x \in {Label(s, "name")} |->
     [createTime |-> s.value, labels |-> {}, selector |-> <<>>, namespaces |-> <<>>,
      resources |-> <<>>, values |-> <<>>]], @)]

\* The names, at most one, of the known quota a series is about.
getCRQ(cl, s) == {Label(s, "name")} \cap DOMAIN cl.crqs

\* The selector's parts (the label value is value_of here), or a namespace.
extractCRQAttributes(cl, s) ==
  LET selector == [l \in DOMAIN s \cap {"type", "key", "value_of"} |-> s[l]]
      Selecting(q) ==
        [q EXCEPT !.selector = Over(selector, @),
                  !.namespaces = IF "namespace" \in DOMAIN s THEN Append(@, s.namespace) ELSE @]
  IN [cl EXCEPT !.crqs = Over([n \in getCRQ(cl, s) |-> Selecting(@[n])], @)]

populateLabelMap(cl, s) ==
  LET Labelled(q) == [q EXCEPT !.labels = @ \cup LabelPairs(s)]
  IN [cl EXCEPT !.crqs = Over([n \in getCRQ(cl, s) |-> Labelled(@[n])], @)]

getExistingCrqQuotas(cl, s) ==
  IF "resource" \notin DOMAIN s THEN cl
  ELSE [cl EXCEPT !.crqs = Over([n \in getCRQ(cl, s) |-> WithQuota(@[n], s, {"pods"})], @)]

-----------------------------------------------------------------------------
(* Resource quotas *)

\* The ids, at most one, of the quota a series is about: one that lacks a label
\* is about none.
quotaIds(s) ==
  IF {"namespace", "resourcequota"} \subseteq DOMAIN s
  THEN {<<s.namespace, s.resourcequota>>} ELSE {}

\* The quota of this id, a new one if there is none.
getResourceQuota(cl, id) ==
  IF id \in DOMAIN cl.rqs THEN cl.rqs[id]
  ELSE [createTime |-> 0, resources |-> <<>>, values |-> <<>>]

getExistingQuotas(cl, s) ==
  LET Limited(q) == IF "resource" \in DOMAIN s THEN WithQuota(q, s, {"pods", "count/pods"}) ELSE q
  IN [cl EXCEPT !.rqs = Over([id \in quotaIds(s) |-> Limited(getResourceQuota(cl, id))], @)]

getCreationTime(cl, s) ==
  LET Created(q) == IF s.value # 0 THEN [q EXCEPT !.createTime = s.value] ELSE q
  IN [cl EXCEPT !.rqs = Over([id \in quotaIds(s) |-> Created(getResourceQuota(cl, id))], @)]
=============================================================================
