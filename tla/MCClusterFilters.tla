-------------------------- MODULE MCClusterFilters --------------------------
(* Every configuration of up to MaxFilters entries over the cluster names,  *)
(* label names and values of the cfg, with nameless, unidentified and nil   *)
(* entries.  Names and values are interchangeable in every definition.      *)
EXTENDS ClusterFilters, TLC

CONSTANT MaxFilters

MCLabelSets == UNION {[names -> LabelValue] : names \in SUBSET LabelName}
MCFilters == [name : ClusterName \cup {NoName}, identifiers : MCLabelSets] \cup {NilFilter}
MCConfigs == UNION {[1..n -> MCFilters] : n \in 0..MaxFilters}

MCSymmetry == Permutations(ClusterName) \cup Permutations(LabelValue)
=============================================================================
