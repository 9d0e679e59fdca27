----------------------------- MODULE MetricCall -----------------------------
(***************************************************************************)
(* What a collector may expect of one query: it is put to a set of target  *)
(* clusters, every target answers or not on its own account, the data of   *)
(* each cluster that did is handed to the collector once, in some order,   *)
(* and then the call is over.                                              *)
(***************************************************************************)
CONSTANT Cluster

VARIABLES
  status,    \* "idle", "asked", "delivering", or "refused" (no server)
  targets,   \* the clusters the current query is put to
  answered,  \* those that have answered with data
  pending    \* those whose data the collector has yet to see

vars == <<status, targets, answered, pending>>

Init == status = "idle" /\ targets = {} /\ answered = {} /\ pending = {}

\* The program gives up: the server can't be reached at all.
Refuse ==
  /\ status = "idle"
  /\ status' = "refused"
  /\ UNCHANGED <<targets, answered, pending>>

Issue(T) ==
  /\ status = "idle"
  /\ status' = "asked"
  /\ targets' = T
  /\ UNCHANGED <<answered, pending>>

\* One more target answers; nothing another one does takes that back.
Answer(c) ==
  /\ status = "asked"
  /\ c \in targets \ answered
  /\ answered' = answered \cup {c}
  /\ UNCHANGED <<status, targets, pending>>

\* No more answers will come: all those that came are handed over.
HandOver ==
  /\ status = "asked"
  /\ status' = "delivering"
  /\ pending' = answered
  /\ UNCHANGED <<targets, answered>>

Deliver(c) ==
  /\ status = "delivering"
  /\ c \in pending
  /\ pending' = pending \ {c}
  /\ UNCHANGED <<status, targets, answered>>

Return ==
  /\ status = "delivering"
  /\ pending = {}
  /\ status' = "idle"
  /\ targets' = {}
  /\ answered' = {}
  /\ UNCHANGED pending

Next ==
  \/ Refuse
  \/ \E T \in SUBSET Cluster : Issue(T)
  \/ \E c \in Cluster : Answer(c)
  \/ HandOver
  \/ \E c \in Cluster : Deliver(c)
  \/ Return

Spec == Init /\ [][Next]_vars
=============================================================================
