---------------------------- MODULE WorkloadFiles ----------------------------
(***************************************************************************)
(* Writing the time series of a metric to one CSV file per cluster         *)
(* (internal/common/workload.go, GetWorkload and what it calls).           *)
(*                                                                         *)
(* A call asks, for each interval of the configured history from the       *)
(* newest back, each variant of the metric's query, and appends the rows   *)
(* of every cluster's answer to the cluster's file, which it creates when  *)
(* the first answer with data comes in.  The collectors make several calls *)
(* with the same file name: one for each naming of the labels in use       *)
(* (getWorkload and getEvents of the containers, the query wrappers of the *)
(* nodes).  Queries time out, answers may be empty, series may lack the    *)
(* labels of the row, and the file system may refuse a file or a write.    *)
(***************************************************************************)
EXTENDS Naturals, Sequences

CONSTANTS
  Cluster,
  Query,       \* the variants of the query of one call
  NumCalls,    \* calls with the same file name
  HistoryInt,  \* intervals of history, the configuration's default is 1
  Results      \* what a cluster may answer: a sequence of series, each "kept"
               \* or "refused" (Fields finds a label missing, or a node unknown)

ASSUME WorkloadAssumption ==
  /\ NumCalls \in Nat \ {0}
  /\ HistoryInt \in Nat \ {0}
  /\ Results \subseteq Seq({"kept", "refused"})

VARIABLES
  call,          \* the current call, NumCalls + 1 when all are done
  interval,      \* its current history interval: 0 is the newest
  queries,       \* variants it has yet to ask for that interval
  query,         \* the variant asked last
  unread,        \* clusters whose result it has yet to look at
  clusterFiles,  \* "none" (no entry), "open", or "nil" (not to be had)
  disk,          \* the content of each cluster's file
  handles,       \* file handles open on it
  received,      \* history: rows this call ought to have written
  refused        \* history: clusters the file system has refused something

vars == <<call, interval, queries, query, unread, clusterFiles, disk, handles,
          received, refused>>

\* A row stands for the samples of one series of one answer.
Row == [call : 1..NumCalls, interval : 0..(HistoryInt - 1), query : Query, series : Nat]
NoFile == [exists |-> FALSE, header |-> FALSE, rows |-> << >>]

Init ==
  /\ call = 1
  /\ interval = 0
  /\ queries = Query
  /\ query \in Query
  /\ unread = {}
  /\ clusterFiles = [c \in Cluster |-> "none"]
  /\ disk = [c \in Cluster |-> NoFile]
  /\ handles = [c \in Cluster |-> 0]
  /\ received = [c \in Cluster |-> << >>]
  /\ refused = {}

Running == call <= NumCalls

\* One variant of the query is put to all clusters; if CollectMetric returns an
\* error the variant is given up for this interval.
CollectMetric(q, succeeds) ==
  /\ Running
  /\ unread = {}
  /\ q \in queries
  /\ queries' = queries \ {q}
  /\ query' = q
  /\ unread' = IF succeeds THEN Cluster ELSE {}
  /\ UNCHANGED <<call, interval, clusterFiles, disk, handles, received, refused>>

\* A cluster without a result, with an error or with an empty matrix.
SkipResult(c) ==
  /\ c \in unread
  /\ unread' = unread \ {c}
  /\ UNCHANGED <<call, interval, queries, query, clusterFiles, disk, handles,
                 received, refused>>

\* Mutant: the files of the call are not remembered.
AlwaysUninitialized(c) == TRUE

Uninitialized(c) == clusterFiles[c] = "none"

\* Mutant: a file whose header could not be written is used all the same.
HeaderlessFile(o) == IF o = "noCreate" THEN "nil" ELSE "open"

\* What InitWorkloadFile returns when creating the file and writing its header
\* come out as o.  Its check that no such file exists looks for the name of the
\* metric in the working directory, where the program writes nothing, and not
\* for the file it is about to create: it never stops it.
InitWorkloadFile(o) == IF o = "created" THEN "open" ELSE "nil"

\* os.Create truncates an existing file.
Created(o, d) ==
  IF o = "noCreate" THEN d
  ELSE [exists |-> TRUE, header |-> (o = "created"), rows |-> << >>]

\* Mutant: rows are put before those already in the file.
Prepended(rows, new) == new \o rows

Appended(rows, new) == rows \o new

\* The rows of the series of an answer s, in order: those whose fields are had.
Rows(s) ==
  LET row(i) == [call |-> call, interval |-> interval, query |-> query, series |-> i]
      upTo[i \in 0..Len(s)] ==
        IF i = 0 THEN << >>
        ELSE IF s[i] = "kept" THEN Append(upTo[i - 1], row(i)) ELSE upTo[i - 1]
  IN upTo[Len(s)]

\* An answer with data: the file is had from clusterFiles or made, coming out
\* as o, and, unless it is nil, gets the rows, of which the first w are written
\* before a write fails (none fails if w is their number).
WriteResult(c, s, o, w) ==
  LET file == IF Uninitialized(c) THEN InitWorkloadFile(o) ELSE clusterFiles[c]
      before == IF Uninitialized(c) THEN Created(o, disk[c]) ELSE disk[c]
      rows == Rows(s)
  IN /\ c \in unread
     /\ s # << >>
     /\ o # "created" => Uninitialized(c)
     /\ w \in IF file = "open" THEN 0..Len(rows) ELSE {0}
     /\ unread' = unread \ {c}
     /\ clusterFiles' = [clusterFiles EXCEPT ![c] = file]
     /\ handles' = IF Uninitialized(c) /\ file = "open"
                   THEN [handles EXCEPT ![c] = @ + 1] ELSE handles
     /\ disk' = [disk EXCEPT ![c] =
                   IF file = "open"
                   THEN [before EXCEPT !.rows = Appended(@, SubSeq(rows, 1, w))]
                   ELSE before]
     /\ received' = [received EXCEPT ![c] = @ \o rows]
     /\ refused' = IF o # "created" \/ (file = "open" /\ w < Len(rows))
                   THEN refused \cup {c} ELSE refused
     /\ UNCHANGED <<call, interval, queries, query>>

IntervalDone == Running /\ queries = {} /\ unread = {}

\* Mutant: one interval too many.
MoreHistoryInclusive == interval + 1 <= HistoryInt

MoreHistory == interval + 1 < HistoryInt

NextInterval ==
  /\ IntervalDone
  /\ MoreHistory
  /\ interval' = interval + 1
  /\ queries' = Query
  /\ UNCHANGED <<call, query, unread, clusterFiles, disk, handles, received, refused>>

\* Mutant: only files with rows are closed.
FilesWithRows == {c \in Cluster : clusterFiles[c] = "open" /\ disk[c].rows # << >>}

FilesToClose == {c \in Cluster : clusterFiles[c] = "open"}

\* The call closes its files and is over; the next one starts with no files.
CloseFiles ==
  /\ IntervalDone
  /\ ~MoreHistory
  /\ handles' = [c \in Cluster |-> IF c \in FilesToClose THEN handles[c] - 1 ELSE handles[c]]
  /\ call' = call + 1
  /\ interval' = 0
  /\ queries' = Query
  /\ clusterFiles' = [c \in Cluster |-> "none"]
  /\ received' = [c \in Cluster |-> << >>]
  /\ refused' = {}
  /\ UNCHANGED <<query, unread, disk>>

Next ==
  \/ \E q \in Query, succeeds \in BOOLEAN : CollectMetric(q, succeeds)
  \/ \E c \in Cluster : SkipResult(c)
  \/ \E c \in Cluster, s \in Results, o \in {"created", "noCreate", "noHeader"} :
       \E w \in 0..Len(s) : WriteResult(c, s, o, w)
  \/ NextInterval
  \/ CloseFiles

\* The thread that makes the calls always goes on.
Spec == Init /\ [][Next]_vars /\ WF_vars(Next)

-----------------------------------------------------------------------------
File == [exists : BOOLEAN, header : BOOLEAN, rows : Seq(Row)]

TypeOK ==
  /\ call \in 1..(NumCalls + 1)
  /\ interval \in 0..(HistoryInt - 1)
  /\ queries \subseteq Query
  /\ query \in Query
  /\ unread \subseteq Cluster
  /\ clusterFiles \in [Cluster -> {"none", "open", "nil"}]
  /\ disk \in [Cluster -> File]
  /\ handles \in [Cluster -> Nat]
  /\ received \in [Cluster -> Seq(Row)]
  /\ refused \subseteq Cluster

\* What the clusters answered during a call is in their files, all of it, in
\* order and once, whichever queries of whichever intervals failed, unless the
\* file system refused something for that cluster.
AllReceivedWritten ==
  \A c \in Cluster :
    c \notin refused =>
      received[c] = IF clusterFiles[c] = "open" THEN disk[c].rows ELSE << >>

\* The rows of a call go back in time, so that whatever a failure cuts off is
\* the older part ("we still can send the current data and data going back to
\* that point vs losing it all", workload.go).
NewestFirst ==
  \A c \in Cluster :
    LET rows == disk[c].rows
    IN \A i, j \in DOMAIN rows :
         i < j /\ rows[i].call = rows[j].call => rows[i].interval <= rows[j].interval

\* No row is ever written to a file without its header line.
RowsUnderHeader == \A c \in Cluster : disk[c].rows # << >> => disk[c].header

\* One handle per open file, and none left open between calls.
HandlesClosed ==
  \A c \in Cluster : handles[c] = IF clusterFiles[c] = "open" THEN 1 ELSE 0

\* An error for one cluster, or in one query or interval, never takes rows of
\* the same call away again: within a call a file only grows.
GrowsWithinCall ==
  [][\A c \in Cluster :
       call' = call /\ clusterFiles[c] = "open" =>
         /\ Len(disk'[c].rows) >= Len(disk[c].rows)
         /\ SubSeq(disk'[c].rows, 1, Len(disk[c].rows)) = disk[c].rows]_vars

\* An existing file is left alone: InitWorkloadFile returns nil and logs the
\* error "<file> file already exists" for it.
ExistingFileKept ==
  [][\A c \in Cluster : disk[c].exists /\ clusterFiles[c] = "none" =>
       disk'[c] = disk[c]]_vars
=============================================================================
