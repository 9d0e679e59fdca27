---------------------------- MODULE KubeVersions ----------------------------
(***************************************************************************)
(* The registry of Kubernetes versions (internal/kubernetes/kubernetes.go).*)
(* A cluster has the versions of its API servers and of its nodes.  Each   *)
(* is a list that is sorted once, at the first question for its extremum,  *)
(* and a map by the name of the instance.                                  *)
(*                                                                         *)
(* A version is a record of its git version, major and minor number.       *)
(***************************************************************************)
EXTENDS Integers, Sequences, FiniteSets

CONSTANT None  \* no version, no exporter

NewTypedVersions == [versions |-> <<>>, byName |-> <<>>, sorted |-> FALSE]
NewClusterVersions == [apiServers |-> NewTypedVersions, nodes |-> NewTypedVersions]

Compare(a, b) == IF a.major # b.major THEN a.major - b.major ELSE a.minor - b.minor

GitVersions(tv) == {tv.versions[i].gitVersion : i \in DOMAIN tv.versions}

\* A git version is listed once; what was listed first stands for all.
Add(tv, name, version) ==
  IF version.gitVersion = "" \/ name = "" THEN tv
  ELSE LET all == IF version.gitVersion \in GitVersions(tv) THEN tv.versions
                  ELSE Append(tv.versions, version)
           i == CHOOSE i \in DOMAIN all : all[i].gitVersion = version.gitVersion
       IN [tv EXCEPT !.versions = all,
                     !.byName = [n \in DOMAIN @ \cup {name} |-> IF n = name THEN all[i] ELSE @[n]]]

\* Mutant: the list counts as sorted, but stays in the order it was reported in.
SortedNever(tv) == [tv EXCEPT !.sorted = TRUE]

\* The indices of the versions that come before the i-th when the list is sorted; of
\* equal versions the earlier stays first.
Preceding(versions, i) ==
  {j \in DOMAIN versions : \/ Compare(versions[j], versions[i]) < 0
                           \/ Compare(versions[j], versions[i]) = 0 /\ j < i}

SortStable(versions) ==
  [k \in DOMAIN versions |->
     versions[CHOOSE i \in DOMAIN versions : Cardinality(Preceding(versions, i)) = k - 1]]

\* The first question sorts the list.
Sorted(tv) ==
  IF tv.sorted \/ tv.versions = <<>> THEN tv
  ELSE [tv EXCEPT !.sorted = TRUE, !.versions = SortStable(@)]

\* The extremum of a list that has been sorted.
GetMinimum(tv) == IF tv.versions = <<>> THEN None ELSE tv.versions[1]
GetMaximum(tv) == IF tv.versions = <<>> THEN None ELSE tv.versions[Len(tv.versions)]

VersionLabels == {"job", "instance", "git_version", "major", "minor"}
ApiServerJobs == {"apiservers", "api-servers"}
NodeJobs == {"nodes", "kubelet"}

VersionOf(s) == [gitVersion |-> s.git_version, major |-> s.major, minor |-> s.minor]

\* One series of getVersion: the job tells whose version it is.
GetVersion(cv, s) ==
  IF ~(VersionLabels \subseteq DOMAIN s) THEN cv
  ELSE CASE s.job \in ApiServerJobs -> [cv EXCEPT !.apiServers = Add(@, s.instance, VersionOf(s))]
         [] s.job \in NodeJobs -> [cv EXCEPT !.nodes = Add(@, s.instance, VersionOf(s))]
         [] OTHER -> cv

\* The lowest version of an API server, or else the highest of a node.
GetClusterVersion(cv) ==
  IF GetMinimum(cv.apiServers) # None THEN GetMinimum(cv.apiServers) ELSE GetMaximum(cv.nodes)

GetNodeVersion(cv, name) ==
  IF name \in DOMAIN cv.nodes.byName THEN cv.nodes.byName[name].gitVersion ELSE ""

\* A cluster none of whose nodes has a known version is older than any.
HasMinimumVersion(cv, major, minor) ==
  /\ GetMinimum(cv.nodes) # None
  /\ Compare([major |-> major, minor |-> minor], GetMinimum(cv.nodes)) <= 0
=============================================================================
