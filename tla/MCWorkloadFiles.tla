--------------------------- MODULE MCWorkloadFiles ---------------------------
(* Two clusters, two variants of the query, two intervals.  An answer has no *)
(* series, one that is refused, or one that is refused and two that are kept.*)
EXTENDS WorkloadFiles, TLC

MCResults == {<<"refused">>, <<"kept", "refused", "kept">>}
MCSymmetry == Permutations(Cluster) \cup Permutations(Query)
=============================================================================
