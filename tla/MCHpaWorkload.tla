---------------------------- MODULE MCHpaWorkload ----------------------------
(* Three autoscalers in two clusters, one without a known object; a metric, *)
(* and the same metric under its other naming.                              *)
EXTENDS HpaWorkload

CONSTANTS c1, c2, h1, h2, h3

MCClusterOf == [h \in Hpa |-> IF h = h3 THEN c2 ELSE c1]
MCFileOf == <<"current_replicas", "current_replicas">>
=============================================================================
