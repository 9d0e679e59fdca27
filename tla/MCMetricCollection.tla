------------------------- MODULE MCMetricCollection -------------------------
(* Three clusters in two groups of filters.  c1 and c2 are interchangeable. *)
EXTENDS MetricCollection

CONSTANTS c1, c2, c3

MCGroups == {{c1, c2}, {c3}}
=============================================================================
