--------------------------- MODULE ClusterFilters ---------------------------
(***************************************************************************)
(* Registration of the cluster filters of the configuration                *)
(* (internal/common/filter.go, called by cmd/main.go).                     *)
(*                                                                         *)
(* A configured filter names a cluster and gives its identifiers: label    *)
(* names with the value each has in every series of that cluster.          *)
(* RegisterClusterFilters validates the entries one by one, in the order   *)
(* of the configuration, against all those accepted before, and groups the *)
(* accepted ones by their set of label names.  Everything the program      *)
(* later attributes to a cluster rests on what registration guarantees:    *)
(* two registered clusters are never described by the same labels.         *)
(***************************************************************************)
EXTENDS Naturals, Sequences, FiniteSets

CONSTANTS
  ClusterName,  \* the names a filter may give to its cluster
  NoName,       \* the empty string, configured by mistake
  NilFilter,    \* an empty list item of the configuration: a nil pointer
  LabelName,
  LabelValue,
  Configs       \* the configurations: sequences of filters

\* A label set: a partial function from label names to values.
LabelSets == UNION {[names -> LabelValue] : names \in SUBSET LabelName}

ClusterFilterParameters ==
  [name : ClusterName \cup {NoName}, identifiers : LabelSets]

ASSUME ConfigsAssumption ==
  /\ NoName \notin ClusterName
  /\ NilFilter \notin ClusterFilterParameters
  /\ Configs \subseteq Seq(ClusterFilterParameters \cup {NilFilter})

VARIABLES
  config,               \* the configured filters, which never change
  next,                 \* index of the filter registered next
  filtersByName,        \* name -> identifiers, for the registered filters
  ClusterNames,         \* the registered names, in order
  noIdentifiersFilter,  \* a filter without identifiers was seen
  labelFilters,         \* label names -> the filters with exactly those names
  outcome               \* how registration stands or ended

vars == <<config, next, filtersByName, ClusterNames, noIdentifiersFilter,
          labelFilters, outcome>>

-----------------------------------------------------------------------------
\* The first map contains the entry k = v.
Contains(m, k, v) == k \in DOMAIN m /\ m[k] = v

\* Registered filter "name" and candidate cf claim one label with one value.
SharesLabel(name, cf) ==
  \E ln \in DOMAIN cf.identifiers :
    Contains(filtersByName[name], ln, cf.identifiers[ln])

Init ==
  /\ config \in Configs
  /\ next = 1
  /\ filtersByName = [name \in {} |-> {}]
  /\ ClusterNames = << >>
  /\ noIdentifiersFilter = FALSE
  /\ labelFilters = [names \in SUBSET LabelName |-> << >>]
  /\ outcome = "registering"

Pending == outcome = "registering" /\ next <= Len(config)

\* NewClusterFilter computes the label matcher before validate looks at the
\* entry, and dereferences a nil one.
NilEntry ==
  /\ Pending
  /\ config[next] = NilFilter
  /\ outcome' = "panic"
  /\ UNCHANGED <<config, next, filtersByName, ClusterNames,
                 noIdentifiersFilter, labelFilters>>

\* The flag after validate has looked at the candidate.
SeenNoIdentifiers(cf) == noIdentifiersFilter \/ DOMAIN cf.identifiers = {}

\* Mutants of Distinct.
DistinctSkipFlag(name, cf) == name # cf.name /\ ~SharesLabel(name, cf)
DistinctSkipLabels(name, cf) == ~SeenNoIdentifiers(cf) /\ name # cf.name
DistinctSkipName(name, cf) == ~SeenNoIdentifiers(cf) /\ ~SharesLabel(name, cf)

\* validateDistinct: what each registered filter has against the candidate.
\* The flag it reads already covers the candidate itself.
Distinct(name, cf) ==
  /\ ~SeenNoIdentifiers(cf)
  /\ name # cf.name
  /\ ~SharesLabel(name, cf)

\* Mutant of Acceptable: a missing name goes unnoticed.
AcceptableNameless(cf) == \A name \in DOMAIN filtersByName : Distinct(name, cf)

Acceptable(cf) ==
  /\ cf.name # NoName
  /\ \A name \in DOMAIN filtersByName : Distinct(name, cf)

\* registerClusterFilter returns an error, which main turns into a fatal one.
\* A missing name is noticed before the identifiers are looked at.
Reject ==
  /\ Pending
  /\ config[next] # NilFilter
  /\ LET cf == config[next] IN
       /\ ~Acceptable(cf)
       /\ noIdentifiersFilter' =
            IF cf.name = NoName THEN noIdentifiersFilter ELSE SeenNoIdentifiers(cf)
  /\ outcome' = "rejected"
  /\ UNCHANGED <<config, next, filtersByName, ClusterNames, labelFilters>>

\* Mutant of GroupKey: one group for all.
GroupKeyAny(cf) == LabelName

\* The group a candidate joins: the filters with the same set of label names.
GroupKey(cf) == DOMAIN cf.identifiers

Register ==
  /\ Pending
  /\ config[next] # NilFilter
  /\ LET cf == config[next] IN
       /\ Acceptable(cf)
       /\ noIdentifiersFilter' = SeenNoIdentifiers(cf)
       /\ ClusterNames' = Append(ClusterNames, cf.name)
       /\ filtersByName' = [n \in DOMAIN filtersByName \cup {cf.name} |->
                              IF n = cf.name THEN cf.identifiers ELSE filtersByName[n]]
       /\ labelFilters' = [labelFilters EXCEPT ![GroupKey(cf)] = Append(@, cf.name)]
  /\ next' = next + 1
  /\ UNCHANGED <<config, outcome>>

\* Every filter is accepted: the groups are finalised and collection starts.
Accept ==
  /\ outcome = "registering"
  /\ next > Len(config)
  /\ outcome' = "accepted"
  /\ UNCHANGED <<config, next, filtersByName, ClusterNames,
                 noIdentifiersFilter, labelFilters>>

Next == NilEntry \/ Reject \/ Register \/ Accept

Spec == Init /\ [][Next]_vars

-----------------------------------------------------------------------------
Registered == DOMAIN filtersByName

TypeOK ==
  /\ config \in Seq(ClusterFilterParameters \cup {NilFilter})
  /\ next \in 1..(Len(config) + 1)
  /\ Registered \subseteq ClusterName
  /\ filtersByName \in [Registered -> LabelSets]
  /\ ClusterNames \in Seq(ClusterName)
  /\ noIdentifiersFilter \in BOOLEAN
  /\ labelFilters \in [SUBSET LabelName -> Seq(ClusterName)]
  /\ outcome \in {"registering", "accepted", "rejected", "panic"}

InSeq(x, s) == \E i \in DOMAIN s : s[i] = x
NoDuplicates(s) == \A i, j \in DOMAIN s : s[i] = s[j] => i = j

\* No two registered clusters give the same value to the same label, so that a
\* query restricted to one cluster's labels can't be one of another with the
\* same label names (validateDistinct).
IdentifiersDisjoint ==
  \A c, d \in Registered : c # d =>
    \A ln \in LabelName :
      ~ (/\ ln \in DOMAIN filtersByName[c] \cap DOMAIN filtersByName[d]
         /\ filtersByName[c][ln] = filtersByName[d][ln])

\* "cf.Identifiers may be nil or Empty, but only if we have a single filter"
\* (filter.go, validate): whichever comes first in the configuration.
UnidentifiedIsAlone ==
  \A c \in Registered : DOMAIN filtersByName[c] = {} => Registered = {c}

\* The groups partition the registered clusters, each group holds the filters
\* with exactly its label names ("calculateFilters assumes that all LabelSets
\* share exactly the same model.LabelNames"), and no cluster is in a group
\* twice.  CollectMetric merges the results of the groups with strategy Fail:
\* this is why the merge never fails.
GroupsPartitionClusters ==
  /\ \A c \in Registered : \A names \in SUBSET LabelName :
       InSeq(c, labelFilters[names]) <=> names = DOMAIN filtersByName[c]
  /\ \A names \in SUBSET LabelName :
       /\ NoDuplicates(labelFilters[names])
       /\ \A i \in DOMAIN labelFilters[names] : labelFilters[names][i] \in Registered

\* NumClusters() counts the registered clusters: every name is listed once.
\* The fallbacks of the collectors compare result counts with that number.
NamesListRegistered ==
  /\ NoDuplicates(ClusterNames)
  /\ Registered = {ClusterNames[i] : i \in DOMAIN ClusterNames}

=============================================================================
