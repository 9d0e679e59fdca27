----------------------------- MODULE HpaWorkload -----------------------------
(***************************************************************************)
(* The time series of the horizontal pod autoscalers                       *)
(* (internal/container/collection.go, hpaWorkloadQuery.getWorkload).       *)
(*                                                                         *)
(* Unlike the other metrics these can't be written as they come in: the    *)
(* values of all history intervals are first gathered in the autoscalers   *)
(* the program knows, and then written out, to a file for the autoscalers  *)
(* of known objects (classified) and another for the rest.  The function   *)
(* is called for one metric after the other, and again with the same file  *)
(* names for the other naming of the metrics or of the labels.             *)
(***************************************************************************)
EXTENDS Naturals, Sequences, FiniteSets

CONSTANTS
  Hpa,
  Cluster,
  ClusterOf,   \* the cluster of each autoscaler
  Classified,  \* the autoscalers whose scale target is known, with containers
  FileOf,      \* the file name each call writes to, in order
  MaxHistory

ASSUME HpaAssumption ==
  /\ ClusterOf \in [Hpa -> Cluster]
  /\ Classified \subseteq Hpa
  /\ FileOf \in Seq(STRING)
  /\ MaxHistory \in Nat \ {0}

Calls == 1..Len(FileOf)
FileName == {FileOf[k] : k \in Calls}
Intervals == 0..(MaxHistory - 1)

\* hpaMaps: the autoscalers of a cluster, by whether they are classified.
hpaMap(isClassified, cl) ==
  {h \in Hpa : ClusterOf[h] = cl /\ (h \in Classified) = isClassified}

\* The cluster files a call may write: those of a class the cluster has.
Slot == {s \in BOOLEAN \X Cluster : hpaMap(s[1], s[2]) # {}}

VARIABLES
  history,      \* HistoryInt of the configuration
  call,         \* the current call, Len(FileOf) + 1 when all are done
  phase,        \* "collecting" or "writing"
  interval,     \* the history interval of that phase
  workload,     \* per autoscaler and interval, the calls whose values it holds
  foundValues,  \* clusters with values for a known autoscaler
  unwritten,    \* slots yet to be written for the interval
  clusterFiles, \* "none", "open" or "nil" by slot
  handles,      \* open handles by slot
  disk,         \* rows by file name and slot, Absent if there is no such file
  received,     \* history: the rows the call ought to leave in its files
  refused       \* history: slots of the call for which the file system failed

vars == <<history, call, phase, interval, workload, foundValues, unwritten,
          clusterFiles, handles, disk, received, refused>>

\* A row stands for the values of an autoscaler in an interval; by is the call
\* that wrote it, from the call that collected it.
Row == [hpa : Hpa, interval : Intervals, from : Calls, by : Calls]
Absent == [exists |-> FALSE, rows |-> {}]

NoWorkload == [h \in Hpa |-> [i \in Intervals |-> {}]]

Init ==
  /\ history \in 1..MaxHistory
  /\ call = 1
  /\ phase = "collecting"
  /\ interval = 0
  /\ workload = NoWorkload
  /\ foundValues = {}
  /\ unwritten = {}
  /\ clusterFiles = [s \in Slot |-> "none"]
  /\ handles = [s \in Slot |-> 0]
  /\ disk = [f \in FileName |-> [s \in Slot |-> Absent]]
  /\ received = {}
  /\ refused = {}

Running == call <= Len(FileOf)

\* Mutant: one interval too many.
OldestInclusive == interval = history

\* The current interval is the last one of the configured history.
Oldest == interval + 1 = history

\* Mutant: clusters whose values were not found are written as well.
SlotsOfAll(found) == Slot

\* Only clusters with values get files.
SlotsToWrite(found) == {s \in Slot : s[2] \in found}

\* Mutant: the values of the previous call are kept.
KeepWorkload == workload

\* Each call starts with no workload in any autoscaler.
ResetWorkload == NoWorkload

\* The call is over; the next one begins.
EndCall ==
  /\ call' = call + 1
  /\ phase' = "collecting"
  /\ interval' = 0
  /\ workload' = ResetWorkload
  /\ foundValues' = {}
  /\ unwritten' = {}
  /\ clusterFiles' = [s \in Slot |-> "none"]
  /\ received' = {}
  /\ refused' = {}

\* After an interval comes the next older one; after the oldest the files are
\* written, again from the newest interval, unless no values were found.
AfterInterval(found) ==
  IF ~Oldest
  THEN /\ interval' = interval + 1
       /\ foundValues' = found
       /\ UNCHANGED <<call, phase, unwritten, clusterFiles, refused>>
  ELSE /\ phase' = "writing"
       /\ interval' = 0
       /\ foundValues' = found
       /\ unwritten' = SlotsToWrite(found)
       /\ UNCHANGED <<call, clusterFiles, refused>>

\* The answers hold values for the autoscalers in S.  The record of the
\* clusters found starts anew in each interval that has an answer.
Collect(S) ==
  /\ Running
  /\ phase = "collecting"
  /\ workload' = [h \in Hpa |->
                    IF h \in S THEN [workload[h] EXCEPT ![interval] = @ \cup {call}]
                    ELSE workload[h]]
  /\ received' = received \cup
                   {[hpa |-> h, interval |-> interval, from |-> call, by |-> call] : h \in S}
  /\ AfterInterval({ClusterOf[h] : h \in S})
  /\ UNCHANGED <<history, handles, disk>>

\* CollectMetric returns an error: the interval has no values.
CollectFails ==
  /\ Running
  /\ phase = "collecting"
  /\ AfterInterval(foundValues)
  /\ UNCHANGED <<history, workload, received, handles, disk>>

\* Nothing was found: the call returns without touching a file.
NothingFound ==
  /\ Running
  /\ phase = "writing"
  /\ foundValues = {}
  /\ EndCall
  /\ UNCHANGED <<history, handles, disk>>

\* The rows of a slot for the current interval.
RowsOf(s) ==
  UNION {{[hpa |-> h, interval |-> interval, from |-> k, by |-> call] :
            k \in workload[h][interval]} : h \in hpaMap(s[1], s[2])}

\* InitWorkloadFile truncates the slot's file for each interval, and the handle
\* it returns takes the place of the one of the interval before.  The file can't
\* be created ("nofile"), or can but gets no header and is closed again, so that
\* no handle is returned ("headless"), or a row can't be written ("cut"): then the
\* rows of the slot are not written, but a file that was created is empty.
WriteSlot(s, outcome) ==
  LET opened == outcome \in {"cut", "written"}
  IN /\ phase = "writing"
     /\ s \in unwritten
     /\ unwritten' = unwritten \ {s}
     /\ clusterFiles' = [clusterFiles EXCEPT ![s] = IF opened THEN "open" ELSE "nil"]
     /\ handles' = [handles EXCEPT ![s] = IF opened THEN @ + 1 ELSE @]
     /\ disk' = IF outcome # "nofile"
                THEN [disk EXCEPT ![FileOf[call]][s] =
                        [exists |-> TRUE, rows |-> IF outcome = "written" THEN RowsOf(s) ELSE {}]]
                ELSE disk
     /\ refused' = IF outcome = "written" THEN refused ELSE refused \cup {s}
     /\ UNCHANGED <<history, call, phase, interval, workload, foundValues, received>>

NextWriteInterval ==
  /\ phase = "writing"
  /\ foundValues # {}
  /\ unwritten = {}
  /\ ~Oldest
  /\ interval' = interval + 1
  /\ unwritten' = SlotsToWrite(foundValues)
  /\ UNCHANGED <<history, call, phase, workload, foundValues, clusterFiles,
                 handles, disk, received, refused>>

\* Mutant: the files of classified autoscalers are forgotten.
UnclassifiedFiles == {s \in Slot : clusterFiles[s] = "open" /\ ~s[1]}

FilesToClose == {s \in Slot : clusterFiles[s] = "open"}

CloseFiles ==
  /\ phase = "writing"
  /\ foundValues # {}
  /\ unwritten = {}
  /\ Oldest
  /\ handles' = [s \in Slot |-> IF s \in FilesToClose THEN handles[s] - 1 ELSE handles[s]]
  /\ EndCall
  /\ UNCHANGED <<history, disk>>

Outcome == {"nofile", "headless", "cut", "written"}

Next ==
  \/ \E S \in SUBSET Hpa : Collect(S)
  \/ CollectFails
  \/ NothingFound
  \/ \E s \in Slot, outcome \in Outcome : WriteSlot(s, outcome)
  \/ NextWriteInterval
  \/ CloseFiles

\* The thread that makes the calls always goes on.
Spec == Init /\ [][Next]_vars /\ WF_vars(Next)

-----------------------------------------------------------------------------
File == [exists : BOOLEAN, rows : SUBSET Row]

TypeOK ==
  /\ history \in 1..MaxHistory
  /\ call \in 1..(Len(FileOf) + 1)
  /\ phase \in {"collecting", "writing"}
  /\ interval \in 0..(history - 1)
  /\ workload \in [Hpa -> [Intervals -> SUBSET Calls]]
  /\ foundValues \subseteq Cluster
  /\ unwritten \subseteq Slot
  /\ clusterFiles \in [Slot -> {"none", "open", "nil"}]
  /\ handles \in [Slot -> Nat]
  /\ disk \in [FileName -> [Slot -> File]]
  /\ received \subseteq Row
  /\ refused \subseteq Slot

\* A file never holds values collected for another metric, although all
\* metrics share the autoscalers' workload: each call resets all of them.
NoForeignValues ==
  \A f \in FileName, s \in Slot : \A r \in disk[f][s].rows : r.from = r.by

\* A cluster without values keeps the files an earlier call, with the other
\* naming, wrote for it.
OnlyFoundRewritten ==
  [][\A f \in FileName, s \in Slot :
       disk'[f][s] # disk[f][s] => s[2] \in foundValues]_vars

SlotOf(h) == <<h \in Classified, ClusterOf[h]>>

\* When a call has written its last file, every value it received is in the
\* files, but for those the file system failed for.
ReceivedOnDisk ==
  Running /\ phase = "writing" /\ Oldest /\ unwritten = {} =>
    \A r \in received :
      SlotOf(r.hpa) \in refused \/ r \in disk[FileOf[call]][SlotOf(r.hpa)].rows

\* With the default of one interval of history nothing received is lost, and
\* no file stays open.
DefaultHistoryWritten ==
  history = 1 =>
    /\ ReceivedOnDisk
    /\ phase = "collecting" => \A s \in Slot : handles[s] = 0

\* The history goes back to whatever interval was answered ("we still can send
\* the current data and data going back to that point vs losing it all",
\* workload.go on the History parameter).
HistoryWritten == ReceivedOnDisk
=============================================================================
