-------------------------- MODULE HpaWorkloadProofs --------------------------
(***************************************************************************)
(* What the calls for the autoscalers' time series guarantee, for any      *)
(* autoscalers, clusters, calls and length of history.                     *)
(*                                                                         *)
(* That files hold the values of their own metric rests on what the        *)
(* autoscalers hold meanwhile (Fresh); that clusters without values keep   *)
(* their files on which slots are yet to be written (Due); and that one    *)
(* interval of history is written completely on the relation between what  *)
(* was received, what is left to write and what is open (Single).          *)
(***************************************************************************)
EXTENDS HpaWorkload, TLAPS

\* The autoscalers hold values of the current call only.
Fresh == \A h \in Hpa, i \in Intervals : workload[h][i] \subseteq {call}

\* Only slots of clusters with values are left to write, and only while writing.
Due ==
  /\ phase = "collecting" => unwritten = {}
  /\ unwritten \subseteq SlotsToWrite(foundValues)
  /\ phase = "writing" => Running

\* An open file has a handle.
Handled == \A s \in Slot : clusterFiles[s] = "open" => handles[s] > 0

\* With one interval of history, what was received is held by the autoscalers and
\* either still to be written or written; and each open file has one handle.
Single ==
  history = 1 =>
    /\ phase = "collecting" => received = {} /\ refused = {}
    /\ \A s \in Slot : handles[s] = IF clusterFiles[s] = "open" THEN 1 ELSE 0
    /\ \A s \in Slot : phase = "collecting" \/ s \in unwritten \/ s[2] \notin foundValues
                      => clusterFiles[s] = "none"
    /\ \A r \in received :
         /\ r.by = call /\ r.from = call /\ r.interval = 0
         /\ r.from \in workload[r.hpa][0]
         /\ \/ SlotOf(r.hpa) \in unwritten \cup refused
            \/ r \in disk[FileOf[call]][SlotOf(r.hpa)].rows

IInv ==
  /\ TypeOK
  /\ Fresh
  /\ Due
  /\ Handled
  /\ NoForeignValues
  /\ Single

-----------------------------------------------------------------------------
\* Every autoscaler is in the map of its slot, so the slot is one that is written.
LEMMA SlotOfHpa ==
  ASSUME NEW h \in Hpa
  PROVE  /\ SlotOf(h) \in Slot
         /\ SlotOf(h)[2] = ClusterOf[h]
         /\ h \in hpaMap(SlotOf(h)[1], SlotOf(h)[2])
<1>1. h \in hpaMap(h \in Classified, ClusterOf[h])
  BY DEF hpaMap
<1>2. (h \in Classified) \in BOOLEAN /\ ClusterOf[h] \in Cluster
  BY HpaAssumption
<1>3. SlotOf(h) \in BOOLEAN \X Cluster /\ SlotOf(h)[2] = ClusterOf[h]
      /\ SlotOf(h)[1] = (h \in Classified)
  BY <1>2, Zenon DEF SlotOf
<1>4. h \in hpaMap(SlotOf(h)[1], SlotOf(h)[2])
  BY <1>1, <1>3, Zenon
<1> QED BY <1>3, <1>4 DEF Slot

LEMMA InitIInv == Init => IInv
<1> SUFFICES ASSUME Init PROVE IInv
  OBVIOUS
<1> USE HpaAssumption DEF Init
<1>1. TypeOK
  BY DEF TypeOK, NoWorkload, Absent, File, Intervals
<1>2. Fresh /\ Due /\ Handled
  BY DEF Fresh, Due, Handled, NoWorkload
<1>3. NoForeignValues
  BY DEF NoForeignValues, Absent
<1>4. Single
  BY DEF Single
<1> QED BY <1>1, <1>2, <1>3, <1>4 DEF IInv

\* After an interval the collection goes on or the files are due.
LEMMA AfterIntervalDue ==
  ASSUME IInv, Running, phase = "collecting", NEW found \in SUBSET Cluster, AfterInterval(found)
  PROVE  /\ phase' \in {"collecting", "writing"}
         /\ interval' \in 0 .. (history - 1)
         /\ foundValues' = found
         /\ unwritten' \subseteq SlotsToWrite(found) /\ unwritten' \subseteq Slot
         /\ phase' = "collecting" => unwritten' = {}
         /\ history = 1 => phase' = "writing" /\ unwritten' = SlotsToWrite(found)
         /\ UNCHANGED <<call, clusterFiles, refused>>
<1> USE HpaAssumption DEF IInv, TypeOK, Due, AfterInterval, Oldest
<1>1. CASE Oldest
  BY <1>1 DEF SlotsToWrite
<1>2. CASE ~Oldest
  BY <1>2
<1> QED BY <1>1, <1>2

LEMMA CollectIInv ==
  ASSUME IInv, NEW S \in SUBSET Hpa, Collect(S)
  PROVE  IInv'
<1> DEFINE found == {ClusterOf[h] : h \in S}
<1> USE HpaAssumption DEF Collect
<1>1. found \in SUBSET Cluster
  OBVIOUS
<1>2. AfterInterval(found)
  OBVIOUS
<1>3. /\ phase' \in {"collecting", "writing"}
      /\ interval' \in 0 .. (history - 1)
      /\ foundValues' = found
      /\ unwritten' \subseteq SlotsToWrite(found) /\ unwritten' \subseteq Slot
      /\ phase' = "collecting" => unwritten' = {}
      /\ history = 1 => phase' = "writing" /\ unwritten' = SlotsToWrite(found)
      /\ UNCHANGED <<call, clusterFiles, refused>>
  BY <1>1, <1>2, AfterIntervalDue
<1> HIDE DEF found
<1>4. call \in Calls /\ interval \in Intervals
  BY DEF IInv, TypeOK, Running, Calls, Intervals
<1>5. workload' \in [Hpa -> [Intervals -> SUBSET Calls]]
  BY <1>4 DEF IInv, TypeOK
<1>6. received' \subseteq Row
  BY <1>4 DEF IInv, TypeOK, Row
<1>7. TypeOK'
  BY <1>1, <1>3, <1>5, <1>6 DEF IInv, TypeOK
<1>8. Fresh'
  BY <1>3 DEF IInv, Fresh, TypeOK
<1>9. Due' /\ Handled' /\ NoForeignValues'
  BY <1>3 DEF IInv, Due, Handled, NoForeignValues, Running
<1>10. Single'
  <2> SUFFICES ASSUME history = 1 PROVE Single'
    BY DEF Single
  <2>1. phase' = "writing" /\ unwritten' = SlotsToWrite(found) /\ interval = 0 /\ received = {}
    BY <1>3 DEF IInv, TypeOK, Single
  <2>2. ASSUME NEW r \in received'
        PROVE  /\ r.by = call /\ r.from = call /\ r.interval = 0
               /\ r.hpa \in S
    BY <2>1, <2>2
  <2>3. ASSUME NEW r \in received'
        PROVE  /\ r.from \in workload'[r.hpa][0]
               /\ SlotOf(r.hpa) \in unwritten'
    <3>1. r.hpa \in S /\ r.hpa \in Hpa /\ r.from = call
      BY <2>2, <2>3
    <3>2. call \in workload'[r.hpa][0]
      BY <3>1, <2>1, <1>4 DEF IInv, TypeOK
    <3>3. SlotOf(r.hpa) \in Slot /\ SlotOf(r.hpa)[2] \in found
      BY <3>1, SlotOfHpa DEF found
    <3> QED BY <3>1, <3>2, <3>3, <2>1 DEF SlotsToWrite
  <2> QED BY <1>3, <2>1, <2>2, <2>3 DEF IInv, Single
<1> QED BY <1>7, <1>8, <1>9, <1>10 DEF IInv

LEMMA CollectFailsIInv ==
  ASSUME IInv, CollectFails
  PROVE  IInv'
<1> USE HpaAssumption DEF CollectFails
<1>1. /\ phase' \in {"collecting", "writing"}
      /\ interval' \in 0 .. (history - 1)
      /\ foundValues' = foundValues
      /\ unwritten' \subseteq SlotsToWrite(foundValues) /\ unwritten' \subseteq Slot
      /\ phase' = "collecting" => unwritten' = {}
      /\ history = 1 => phase' = "writing" /\ unwritten' = SlotsToWrite(foundValues)
      /\ UNCHANGED <<call, clusterFiles, refused>>
  BY AfterIntervalDue DEF IInv, TypeOK
<1>2. TypeOK'
  BY <1>1 DEF IInv, TypeOK
<1>3. Fresh' /\ Due' /\ Handled' /\ NoForeignValues'
  BY <1>1 DEF IInv, Fresh, Due, Handled, NoForeignValues, Running
<1>4. Single'
  BY <1>1 DEF IInv, Single
<1> QED BY <1>2, <1>3, <1>4 DEF IInv

\* The next call begins with nothing held and no files of its own.
LEMMA EndCallIInv ==
  ASSUME IInv, EndCall, phase = "writing", UNCHANGED <<history, disk>>,
         handles' \in [Slot -> Nat],
         history = 1 => \A s \in Slot : handles'[s] = 0
  PROVE  IInv'
<1> USE HpaAssumption DEF EndCall, ResetWorkload, NoWorkload
<1>1. call \in 1 .. Len(FileOf)
  BY DEF IInv, Due, Running, TypeOK
<1>2. TypeOK'
  BY <1>1 DEF IInv, TypeOK
<1>3. Fresh' /\ Due' /\ Handled' /\ NoForeignValues'
  BY DEF IInv, Fresh, Due, Handled, NoForeignValues
<1>4. Single'
  BY DEF Single
<1> QED BY <1>2, <1>3, <1>4 DEF IInv

LEMMA NothingFoundIInv ==
  ASSUME IInv, NothingFound
  PROVE  IInv'
<1>1. ASSUME history = 1, NEW s \in Slot PROVE handles[s] = 0
  BY <1>1 DEF IInv, Single, NothingFound
<1> QED BY <1>1, EndCallIInv DEF NothingFound, IInv, TypeOK

\* Where the last file was written, closing leaves no handle.
LEMMA CloseFilesIInv ==
  ASSUME IInv, CloseFiles
  PROVE  IInv'
<1> USE DEF CloseFiles, FilesToClose
<1>1. handles' \in [Slot -> Nat]
  BY DEF IInv, TypeOK, Handled
<1>2. ASSUME history = 1, NEW s \in Slot PROVE handles'[s] = 0
  BY <1>2 DEF IInv, Single, TypeOK
<1> QED BY <1>1, <1>2, EndCallIInv

LEMMA NextWriteIntervalIInv ==
  ASSUME IInv, NextWriteInterval
  PROVE  IInv'
<1> USE HpaAssumption DEF NextWriteInterval, Oldest
<1>1. history # 1
  BY DEF IInv, TypeOK
<1>2. TypeOK'
  BY DEF IInv, TypeOK, SlotsToWrite
<1>3. Fresh' /\ Due' /\ Handled' /\ NoForeignValues'
  BY DEF IInv, Fresh, Due, Handled, NoForeignValues, Running
<1> QED BY <1>1, <1>2, <1>3 DEF IInv, Single

\* The rows of a slot are the values its autoscalers hold, all of this call.
LEMMA RowsOfCall ==
  ASSUME IInv, phase = "writing", NEW s \in Slot
  PROVE  /\ RowsOf(s) \in SUBSET Row
         /\ \A r \in RowsOf(s) : r.from = call /\ r.by = call
<1>1. call \in Calls /\ interval \in Intervals
  BY HpaAssumption DEF IInv, TypeOK, Due, Running, Calls, Intervals
<1>2. ASSUME NEW r \in RowsOf(s)
      PROVE  r \in Row /\ r.from = call /\ r.by = call
  <2>1. PICK h \in hpaMap(s[1], s[2]) :
          \E k \in workload[h][interval] :
            r = [hpa |-> h, interval |-> interval, from |-> k, by |-> call]
    BY DEF RowsOf
  <2>2. h \in Hpa /\ workload[h][interval] \subseteq {call}
    BY <1>1 DEF hpaMap, IInv, Fresh
  <2> QED BY <1>1, <2>1, <2>2 DEF Row
<1> QED BY <1>2

LEMMA WriteSlotIInv ==
  ASSUME IInv, NEW s \in Slot, NEW outcome \in Outcome, WriteSlot(s, outcome)
  PROVE  IInv'
<1> DEFINE file == [exists |-> TRUE, rows |-> IF outcome = "written" THEN RowsOf(s) ELSE {}]
<1> USE DEF WriteSlot
<1>1. call \in Calls /\ FileOf[call] \in FileName /\ s \in unwritten /\ phase = "writing"
  BY HpaAssumption DEF IInv, TypeOK, Due, Running, Calls, FileName
<1>2. RowsOf(s) \in SUBSET Row /\ \A r \in RowsOf(s) : r.from = call /\ r.by = call
  BY <1>1, RowsOfCall
<1>3. disk' = IF outcome # "nofile" THEN [disk EXCEPT ![FileOf[call]][s] = file] ELSE disk
  OBVIOUS
<1>4. file \in File /\ \A r \in file.rows : r.from = r.by
  BY <1>2 DEF File
<1>5. \A r \in RowsOf(s) : outcome = "written" => r \in file.rows
  OBVIOUS
<1> HIDE DEF file
<1>6. TypeOK'
  <2>1. disk' \in [FileName -> [Slot -> File]]
    <3>1. disk \in [FileName -> [Slot -> File]]
      BY DEF IInv, TypeOK
    <3>2. [disk[FileOf[call]] EXCEPT ![s] = file] \in [Slot -> File]
      BY <1>1, <1>4, <3>1
    <3> QED BY <1>1, <1>3, <3>1, <3>2
  <2>2. handles' \in [Slot -> Nat] /\ clusterFiles' \in [Slot -> {"none", "open", "nil"}]
    BY DEF IInv, TypeOK
  <2> QED BY <2>1, <2>2 DEF IInv, TypeOK
<1>7. Fresh' /\ Due' /\ Handled'
  BY DEF IInv, TypeOK, Fresh, Due, Handled, Running
<1>8. NoForeignValues'
  BY <1>1, <1>3, <1>4 DEF IInv, TypeOK, NoForeignValues
<1>9. Single'
  <2> SUFFICES ASSUME history = 1 PROVE Single'
    BY DEF Single
  <2>1. clusterFiles[s] = "none" /\ handles[s] = 0
    BY <1>1 DEF IInv, Single
  <2>2. \A t \in Slot : handles'[t] = IF clusterFiles'[t] = "open" THEN 1 ELSE 0
    BY <2>1 DEF IInv, TypeOK, Single
  <2>3. \A t \in Slot : t \in unwritten' \/ t[2] \notin foundValues' => clusterFiles'[t] = "none"
    BY <1>1 DEF IInv, TypeOK, Single, Due, SlotsToWrite
  <2>4. ASSUME NEW r \in received'
        PROVE  \/ SlotOf(r.hpa) \in unwritten' \cup refused'
               \/ r \in disk'[FileOf[call]][SlotOf(r.hpa)].rows
    <3>1. r \in received /\ r \in Row
      BY <2>4 DEF IInv, TypeOK
    <3>2. r.hpa \in Hpa /\ SlotOf(r.hpa) \in Slot
      BY <3>1, SlotOfHpa DEF Row
    <3>3. CASE SlotOf(r.hpa) # s
      BY <1>1, <1>3, <3>1, <3>2, <3>3 DEF IInv, TypeOK, Single
    <3>4. CASE SlotOf(r.hpa) = s /\ outcome # "written"
      BY <3>4
    <3>5. CASE SlotOf(r.hpa) = s /\ outcome = "written"
      <4>1. r.by = call /\ r.from = call /\ r.interval = interval /\ r.from \in workload[r.hpa][interval]
        BY <3>1 DEF IInv, TypeOK, Single
      <4>2. r = [hpa |-> r.hpa, interval |-> interval, from |-> call, by |-> call]
        BY <3>1, <4>1 DEF Row
      <4>3. r.hpa \in hpaMap(s[1], s[2])
        BY <3>2, <3>5, SlotOfHpa
      <4>4. r \in RowsOf(s)
        BY <4>1, <4>2, <4>3 DEF RowsOf
      <4>5. disk'[FileOf[call]][s] = file
        BY <1>1, <1>3, <3>5 DEF IInv, TypeOK
      <4> QED BY <1>5, <3>5, <4>4, <4>5
    <3> QED BY <3>3, <3>4, <3>5
  <2> QED BY <1>1, <2>2, <2>3, <2>4 DEF IInv, Single
<1> QED BY <1>6, <1>7, <1>8, <1>9 DEF IInv

LEMMA StepIInv == IInv /\ [Next]_vars => IInv'
<1> SUFFICES ASSUME IInv, [Next]_vars PROVE IInv'
  OBVIOUS
<1>1. CASE UNCHANGED vars
  BY <1>1 DEF vars, IInv, TypeOK, Fresh, Due, Handled, NoForeignValues, Single, Running
<1>2. CASE Next
  BY <1>2, CollectIInv, CollectFailsIInv, NothingFoundIInv, WriteSlotIInv,
     NextWriteIntervalIInv, CloseFilesIInv DEF Next
<1> QED BY <1>1, <1>2

\* Every reachable state satisfies the inductive invariant.
THEOREM HpaInvariant == Spec => []IInv
BY InitIInv, StepIInv, PTL DEF Spec

-----------------------------------------------------------------------------
\* The calls are type-correct, for any number of calls and any length of history.
THEOREM TypeCorrect == Spec => []TypeOK
<1>1. IInv => TypeOK
  BY DEF IInv
<1> QED BY <1>1, HpaInvariant, PTL

\* No file ever holds values that were collected for another metric, although all
\* metrics gather theirs in the same autoscalers.
THEOREM OwnValues == Spec => []NoForeignValues
<1>1. IInv => NoForeignValues
  BY DEF IInv
<1> QED BY <1>1, HpaInvariant, PTL

\* With one interval of history all values that were received are in the files
\* before they are closed, and no file stays open.
THEOREM DefaultWritten == Spec => []DefaultHistoryWritten
<1>1. IInv => DefaultHistoryWritten
  <2> SUFFICES ASSUME IInv, history = 1
               PROVE  /\ ReceivedOnDisk
                      /\ phase = "collecting" => \A s \in Slot : handles[s] = 0
    BY DEF DefaultHistoryWritten
  <2>1. ReceivedOnDisk
    BY DEF IInv, Single, ReceivedOnDisk
  <2>2. phase = "collecting" => \A s \in Slot : handles[s] = 0
    BY DEF IInv, Single
  <2> QED BY <2>1, <2>2
<1> QED BY <1>1, HpaInvariant, PTL

\* The files of a cluster without values stay as they are.
THEOREM OthersKept == Spec => OnlyFoundRewritten
<1> DEFINE Kept == \A f \in FileName, s \in Slot : disk'[f][s] # disk[f][s] => s[2] \in foundValues
<1>1. ASSUME IInv, [Next]_vars PROVE [Kept]_vars
  <2>1. CASE UNCHANGED disk
    BY <2>1
  <2>2. ASSUME NEW s \in Slot, NEW outcome \in Outcome, WriteSlot(s, outcome)
        PROVE  Kept
    <3>1. s[2] \in foundValues
      BY <1>1, <2>2 DEF WriteSlot, IInv, Due, SlotsToWrite
    <3>2. ASSUME NEW f \in FileName, NEW t \in Slot, t # s PROVE disk'[f][t] = disk[f][t]
      BY <1>1, <2>2, <3>2 DEF WriteSlot, IInv, TypeOK
    <3> QED BY <3>1, <3>2
  <2> HIDE DEF Kept
  <2> QED BY <1>1, <2>1, <2>2 DEF Next, Collect, CollectFails, NothingFound, NextWriteInterval,
              CloseFiles, vars
<1> QED BY <1>1, HpaInvariant, PTL DEF Spec, OnlyFoundRewritten
=============================================================================
