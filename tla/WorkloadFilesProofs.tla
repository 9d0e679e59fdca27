-------------------------- MODULE WorkloadFilesProofs --------------------------
(***************************************************************************)
(* What holds of the workload files for any clusters, queries, number of   *)
(* calls and intervals, and whatever queries, answers and file system do.  *)
(*                                                                         *)
(* That rows are only ever under a header rests on the header of every     *)
(* file that is open; that handles are neither leaked nor closed twice, on *)
(* the domain of the map of open files.  That a file has all rows, newest  *)
(* first, rests on which rows an answer gives (RowsCurrent) and on every   *)
(* row in a file being of this call and interval or of earlier ones.       *)
(***************************************************************************)
EXTENDS WorkloadFiles, Induction, SequenceTheorems

Maps ==
  /\ clusterFiles \in [Cluster -> {"none", "open", "nil"}]
  /\ handles \in [Cluster -> {0, 1}]
  /\ DOMAIN disk = Cluster
  /\ disk = [c \in Cluster |-> disk[c]]
  /\ \A c \in Cluster : disk[c] = [exists |-> disk[c].exists, header |-> disk[c].header,
                                   rows |-> disk[c].rows]
  /\ unread \subseteq Cluster

\* A file that is open has its header.
OpenHasHeader == \A c \in Cluster : clusterFiles[c] = "open" => disk[c].header

IInv == Maps /\ OpenHasHeader /\ RowsUnderHeader /\ HandlesClosed

-----------------------------------------------------------------------------
LEMMA InitIInv == Init => IInv
BY DEF Init, IInv, Maps, OpenHasHeader, RowsUnderHeader, HandlesClosed, NoFile

\* What the file of a cluster becomes when an answer for it is written.
LEMMA WriteResultIInv ==
  ASSUME IInv, NEW c \in Cluster, NEW s \in Results,
         NEW o \in {"created", "noCreate", "noHeader"}, NEW w \in 0..Len(s),
         WriteResult(c, s, o, w)
  PROVE  IInv'
<1> DEFINE file == IF Uninitialized(c) THEN InitWorkloadFile(o) ELSE clusterFiles[c]
           before == IF Uninitialized(c) THEN Created(o, disk[c]) ELSE disk[c]
           new == IF file = "open"
                  THEN [before EXCEPT !.rows = Appended(@, SubSeq(Rows(s), 1, w))]
                  ELSE before
<1>1. /\ unread' = unread \ {c}
      /\ clusterFiles' = [clusterFiles EXCEPT ![c] = file]
      /\ handles' = IF Uninitialized(c) /\ file = "open"
                    THEN [handles EXCEPT ![c] = @ + 1] ELSE handles
      /\ disk' = [disk EXCEPT ![c] = new]
  BY DEF WriteResult
<1>2. file \in {"open", "nil"} \/ file = clusterFiles[c]
  BY DEF InitWorkloadFile
<1>3. before = [exists |-> before.exists, header |-> before.header, rows |-> before.rows]
  BY DEF Created, IInv, Maps
<1>4. /\ new = [exists |-> new.exists, header |-> new.header, rows |-> new.rows]
      /\ new.header = before.header
      /\ file # "open" => new = before
  BY <1>3
<1>5. file = "open" => before.header
  BY DEF InitWorkloadFile, Uninitialized, Created, IInv, OpenHasHeader
<1>6. before.rows # << >> => before.header
  BY DEF Created, IInv, RowsUnderHeader
<1> HIDE DEF file, before, new
<1>7. clusterFiles[c] \in {"none", "open", "nil"} /\ file \in {"none", "open", "nil"}
  BY <1>2 DEF IInv, Maps
<1>8. Uninitialized(c) /\ file = "open" => handles[c] = 0
  BY DEF Uninitialized, IInv, HandlesClosed
<1>9. Maps'
  <2>1. clusterFiles' \in [Cluster -> {"none", "open", "nil"}]
    BY <1>1, <1>7 DEF IInv, Maps
  <2>2. handles' \in [Cluster -> {0, 1}]
    BY <1>1, <1>8 DEF IInv, Maps
  <2>3. DOMAIN disk' = Cluster /\ disk' = [d \in Cluster |-> disk'[d]]
    BY <1>1 DEF IInv, Maps
  <2>4. \A d \in Cluster : disk'[d] = [exists |-> disk'[d].exists,
                                       header |-> disk'[d].header, rows |-> disk'[d].rows]
    BY <1>1, <1>4 DEF IInv, Maps
  <2> QED BY <1>1, <2>1, <2>2, <2>3, <2>4 DEF IInv, Maps
<1>10. OpenHasHeader'
  BY <1>1, <1>4, <1>5 DEF IInv, Maps, OpenHasHeader
<1>11. RowsUnderHeader'
  BY <1>1, <1>4, <1>5, <1>6 DEF IInv, Maps, RowsUnderHeader
<1>12. HandlesClosed'
  <2>1. Uninitialized(c) <=> clusterFiles[c] = "none"
    BY DEF Uninitialized
  <2>2. ~Uninitialized(c) => file = clusterFiles[c]
    BY DEF file
  <2> QED BY <1>1, <1>8, <2>1, <2>2 DEF IInv, Maps, HandlesClosed
<1> QED BY <1>9, <1>10, <1>11, <1>12 DEF IInv

\* Every file that is open is closed, and only these, once.
LEMMA CloseFilesIInv ==
  ASSUME IInv, CloseFiles
  PROVE  IInv'
<1> USE DEF IInv, CloseFiles
<1>1. \A c \in Cluster : handles'[c] = 0
  BY DEF FilesToClose, HandlesClosed, Maps
<1>2. Maps'
  BY <1>1 DEF Maps, IntervalDone
<1>3. OpenHasHeader' /\ RowsUnderHeader'
  BY DEF OpenHasHeader, RowsUnderHeader
<1>4. HandlesClosed'
  BY <1>1 DEF HandlesClosed
<1> QED BY <1>2, <1>3, <1>4

\* The other steps touch no file.
LEMMA OtherStepsIInv ==
  ASSUME IInv,
         \/ \E q \in Query, succeeds \in BOOLEAN : CollectMetric(q, succeeds)
         \/ \E c \in Cluster : SkipResult(c)
         \/ NextInterval
         \/ UNCHANGED vars
  PROVE  IInv'
<1>1. UNCHANGED <<clusterFiles, handles, disk>> /\ unread' \subseteq Cluster
  BY DEF CollectMetric, SkipResult, NextInterval, vars, IInv, Maps
<1> QED BY <1>1 DEF IInv, Maps, OpenHasHeader, RowsUnderHeader, HandlesClosed

\* Every reachable state satisfies the inductive invariant.
THEOREM FilesInvariant == Spec => []IInv
<1>1. IInv /\ [Next]_vars => IInv'
  BY WriteResultIInv, CloseFilesIInv, OtherStepsIInv DEF Next
<1> QED BY <1>1, InitIInv, PTL DEF Spec

\* No row is ever written to a file without its header line, whichever part of
\* creating the file fails.
THEOREM HeaderFirst == Spec => []RowsUnderHeader
<1>1. IInv => RowsUnderHeader
  BY DEF IInv
<1> QED BY <1>1, FilesInvariant, PTL

\* Each open file has one handle, and no handle outlives its call.
THEOREM NoHandleLeaks == Spec => []HandlesClosed
<1>1. IInv => HandlesClosed
  BY DEF IInv
<1> QED BY <1>1, FilesInvariant, PTL

-----------------------------------------------------------------------------
(* The rows *)

\* The rows that an answer read now can give.
Current == [call : {call}, interval : {interval}, query : {query}, series : Nat]

\* The loop over the series of an answer gives rows of the call, the interval
\* and the query of the moment, and as many at most as there are series.
LEMMA RowsCurrent ==
  ASSUME NEW s \in Seq({"kept", "refused"})
  PROVE  Rows(s) \in Seq(Current)
<1> DEFINE A == Seq(Current)
           n == Len(s)
           row(i) == [call |-> call, interval |-> interval, query |-> query, series |-> i]
           turn == [i \in 1..n |-> [q \in A |-> IF s[i] = "kept" THEN Append(q, row(i)) ELSE q]]
           Eq(f) == f = [i \in 0..Len(s) |->
                      IF i = 0 THEN << >>
                      ELSE IF s[i] = "kept" THEN Append(f[i - 1], row(i)) ELSE f[i - 1]]
           g == CHOOSE h : Eq(h)
<1>1. n \in Nat /\ << >> \in A
  OBVIOUS
<1>2. ASSUME NEW i \in 1..n, NEW q \in A 
      PROVE (IF s[i] = "kept" THEN Append(q, row(i)) ELSE q) \in A
  <2>1. row(i) \in Current
    BY DEF Current
  <2> HIDE DEF row
  <2> QED BY <2>1
<1>3. turn \in [1..n -> [A -> A]]
  <2> HIDE DEF row, A, n
  <2> QED BY <1>2
<1>4. Rows(s) = g[n]
  BY DEF Rows
<1>5. PICK f \in [0..n -> A] : IsLoop(f, n, << >>, turn)
  <2> DEFINE a == << >>
  <2>1. n \in Nat /\ a \in A /\ turn \in [1..n -> [A -> A]]
    BY <1>1, <1>3
  <2>2. \E f \in [0..n -> A] : IsLoop(f, n, a, turn)
    <3> HIDE DEF turn, A, n, a, g, Eq
    <3> QED BY ONLY <2>1, LoopExists
  <2> QED BY <2>2
<1>6. ASSUME NEW i \in 1..n
      PROVE  f[i] = IF s[i] = "kept" THEN Append(f[i - 1], row(i)) ELSE f[i - 1]
  <2>1. i - 1 \in 0..n /\ f[i - 1] \in A
    <3> HIDE DEF turn, A, n
    <3> QED BY <1>1, <1>5
  <2> HIDE DEF A, n, row
  <2> QED BY <1>5, <2>1 DEF IsLoop
<1>7. Eq(f)
  <2> SUFFICES ASSUME NEW i \in 0..n
               PROVE  f[i] = IF i = 0 THEN << >> ELSE IF s[i] = "kept" THEN Append(f[i - 1], row(i)) ELSE f[i - 1]
    <3> HIDE DEF row
    <3> QED BY <1>5
  <2>1. i = 0 \/ i \in 1..n
    BY <1>1
  <2> HIDE DEF row, turn, A, n
  <2> QED BY <1>5, <1>6, <2>1 DEF IsLoop
<1>8. Eq(g)
  <2> HIDE DEF Eq
  <2> QED BY <1>7
<1>9. \A i \in 0..n : g[i] \in A
  <2> HIDE DEF g
  <2>1. g[0] \in A
    BY <1>8
  <2>2. ASSUME NEW i \in 1..n, g[i - 1] \in A PROVE g[i] \in A
    <3>1. i \in 0..n /\ i # 0
      BY <1>1
    <3>2. g[i] = IF s[i] = "kept" THEN Append(g[i - 1], row(i)) ELSE g[i - 1]
      <4> HIDE DEF row
      <4> QED BY <1>8, <3>1
    <3> HIDE DEF row, Eq, A, n
    <3> QED BY <1>2, <2>2, <3>2
  <2> HIDE DEF Eq, A, n
  <2> QED BY <1>1, <2>1, <2>2, LoopInvariant
<1> HIDE DEF g
<1> QED BY <1>1, <1>4, <1>9

\* Rows no newer than call n's interval k.
Past(rows, n, k) ==
  \A i \in 1..Len(rows) : rows[i].call <= n /\ (rows[i].call = n => rows[i].interval <= k)

\* Rows of a call going back in time.
Ordered(rows) ==
  \A i, j \in 1..Len(rows) :
    i < j /\ rows[i].call = rows[j].call => rows[i].interval <= rows[j].interval

\* Only a call that runs has answers to read.
ReadWhileRunning == unread # {} => Running

\* What a file has is of this call's intervals so far or of earlier calls.
FilesPast == \A c \in Cluster : Past(disk[c].rows, call, interval) /\ Ordered(disk[c].rows)

\* A file that is not to be had was refused.
NilRefused == \A c \in Cluster : clusterFiles[c] = "nil" => c \in refused

RowsInv ==
  /\ TypeOK
  /\ ReadWhileRunning
  /\ FilesPast
  /\ NilRefused
  /\ AllReceivedWritten

\* Rows of the moment can be put after rows of the past.
LEMMA AppendedPast ==
  ASSUME NEW n \in Nat, NEW k \in Nat, NEW rows \in Seq(Row), NEW more \in Seq(Row),
         Past(rows, n, k), Ordered(rows),
         \A i \in 1..Len(more) : more[i].call = n /\ more[i].interval = k
  PROVE  Past(rows \o more, n, k) /\ Ordered(rows \o more)
<1> DEFINE all == rows \o more
<1>1. /\ Len(rows) \in Nat /\ Len(more) \in Nat /\ Len(all) = Len(rows) + Len(more)
      /\ \A i \in 1..Len(all) : all[i] = IF i <= Len(rows) THEN rows[i] ELSE more[i - Len(rows)]
  BY ConcatProperties
<1> HIDE DEF all
<1>2. \A i \in 1..Len(all) :
        \/ i \in 1..Len(rows) /\ all[i] = rows[i]
        \/ i > Len(rows) /\ all[i].call = n /\ all[i].interval = k
  BY <1>1
<1>3. Past(all, n, k)
  BY <1>2 DEF Past
<1>4. \A i \in 1..Len(rows) : rows[i] \in Row
  OBVIOUS
<1>5. Ordered(all)
  <2> SUFFICES ASSUME NEW i \in 1..Len(all), NEW j \in 1..Len(all), i < j,
                      all[i].call = all[j].call
               PROVE  all[i].interval <= all[j].interval
    BY DEF Ordered
  <2>1. CASE j \in 1..Len(rows)
    <3>1. i \in 1..Len(rows) /\ all[i] = rows[i] /\ all[j] = rows[j]
      BY ONLY <1>1, <1>2, <2>1, i \in 1..Len(all), j \in 1..Len(all), i < j
    <3> QED BY <2>1, <3>1 DEF Ordered
  <2>2. CASE j > Len(rows)
    <3>1. all[j].call = n /\ all[j].interval = k /\ all[i].call = n
      BY <1>1, <1>2, <2>2
    <3> QED BY <1>3, <3>1 DEF Past
  <2> QED BY <1>1, <2>1, <2>2
<1> QED BY <1>3, <1>5 DEF all

\* What reading an answer makes of a cluster's file, and of what it ought to be.
LEMMA WriteResultRows ==
  ASSUME RowsInv, NEW c \in Cluster, NEW s \in Results,
         NEW o \in {"created", "noCreate", "noHeader"}, NEW w \in 0..Len(s),
         WriteResult(c, s, o, w)
  PROVE  RowsInv'
<1> DEFINE file == IF Uninitialized(c) THEN InitWorkloadFile(o) ELSE clusterFiles[c]
           before == IF Uninitialized(c) THEN Created(o, disk[c]) ELSE disk[c]
           rows == Rows(s)
           new == IF file = "open"
                  THEN [before EXCEPT !.rows = Appended(@, SubSeq(rows, 1, w))]
                  ELSE before
<1>1. /\ unread' = unread \ {c} /\ unread # {}
      /\ clusterFiles' = [clusterFiles EXCEPT ![c] = file]
      /\ handles' = IF Uninitialized(c) /\ file = "open"
                    THEN [handles EXCEPT ![c] = @ + 1] ELSE handles
      /\ disk' = [disk EXCEPT ![c] = new]
      /\ received' = [received EXCEPT ![c] = @ \o rows]
      /\ refused' = IF o # "created" \/ (file = "open" /\ w < Len(rows))
                    THEN refused \cup {c} ELSE refused
      /\ o # "created" => Uninitialized(c)
      /\ w \in IF file = "open" THEN 0..Len(rows) ELSE {0}
      /\ UNCHANGED <<call, interval, queries, query>>
  BY DEF WriteResult
<1>2. /\ call \in 1..NumCalls /\ interval \in 0..(HistoryInt - 1) /\ query \in Query
      /\ NumCalls \in Nat /\ HistoryInt \in Nat
  BY <1>1, WorkloadAssumption DEF RowsInv, TypeOK, ReadWhileRunning, Running
<1>3. rows \in Seq(Current) /\ rows \in Seq(Row) /\ Len(rows) \in Nat
  <2>1. s \in Seq({"kept", "refused"})
    BY WorkloadAssumption
  <2>2. Current \subseteq Row
    BY <1>2 DEF Current, Row
  <2> HIDE DEF rows
  <2>3. rows \in Seq(Current)
    BY <2>1, RowsCurrent DEF rows
  <2> QED BY <2>2, <2>3, SeqMonotonic, LenProperties
<1>4. \A i \in 1..Len(rows) : rows[i].call = call /\ rows[i].interval = interval
  <2> HIDE DEF rows
  <2>1. \A i \in 1..Len(rows) : rows[i] \in Current
    BY <1>3
  <2> QED BY <2>1 DEF Current
<1> HIDE DEF rows
<1>5. before \in File /\ (before.rows = disk[c].rows \/ before.rows = << >>)
  BY DEF Created, RowsInv, TypeOK, File
<1>6. file \in {"none", "open", "nil"}
  BY DEF InitWorkloadFile, RowsInv, TypeOK
<1>7. Past(before.rows, call, interval) /\ Ordered(before.rows)
  <2>1. Past(disk[c].rows, call, interval) /\ Ordered(disk[c].rows)
    BY DEF RowsInv, FilesPast
  <2>2. Past(<< >>, call, interval) /\ Ordered(<< >>)
    BY DEF Past, Ordered
  <2> HIDE DEF before
  <2> QED BY ONLY <1>5, <2>1, <2>2
<1> DEFINE more == SubSeq(rows, 1, w)
<1>8. ASSUME file = "open"
      PROVE  /\ new.rows = before.rows \o more
             /\ more \in Seq(Row) /\ (w = Len(rows) => more = rows)
             /\ new \in File
             /\ Past(new.rows, call, interval) /\ Ordered(new.rows)
  <2>1. more \in Seq(Row) /\ \A i \in 1..Len(more) : more[i] = rows[i] /\ i \in 1..Len(rows)
    <3>1. w \in 0..Len(rows) /\ \A i \in 1..w : rows[i] \in Row
      BY <1>1, <1>3, <1>8
    <3> QED BY <3>1, <1>3, SubSeqProperties
  <2>2. new = [before EXCEPT !.rows = before.rows \o more]
    BY <1>8 DEF Appended
  <2>3. w = Len(rows) => more = rows
    BY <1>3, SubSeqFull
  <2> HIDE DEF new, more, before, file
  <2>4. new \in File /\ new.rows = before.rows \o more
    BY <1>5, <2>1, <2>2, ConcatProperties DEF File
  <2>5. Past(new.rows, call, interval) /\ Ordered(new.rows)
    <3>1. before.rows \in Seq(Row)
      BY <1>5 DEF File
    <3>2. \A i \in 1..Len(more) : more[i].call = call /\ more[i].interval = interval
      BY <2>1, <1>4
    <3>3. call \in Nat /\ interval \in Nat
      BY <1>2
    <3> QED BY <2>1, <2>4, <3>1, <3>2, <3>3, <1>7, AppendedPast
  <2> QED BY <2>1, <2>3, <2>4, <2>5
<1>9. file # "open" => new = before
  OBVIOUS
<1>10. new \in File /\ Past(new.rows, call, interval) /\ Ordered(new.rows)
  <2> HIDE DEF new, before, file, more
  <2> QED BY <1>5, <1>7, <1>8, <1>9
<1>11. disk[c] \in File /\ received[c] \in Seq(Row)
  BY DEF RowsInv, TypeOK
<1>12. Uninitialized(c) /\ c \notin refused => received[c] = << >>
  BY DEF Uninitialized, RowsInv, AllReceivedWritten
<1>13. ~Uninitialized(c) => before = disk[c] /\ file = clusterFiles[c]
  OBVIOUS
<1>14. Uninitialized(c) => (o = "created" <=> file = "open") /\ (file = "open" => before.rows = << >>)
  BY DEF InitWorkloadFile, Created
<1> HIDE DEF new, before, file, more
<1>15. TypeOK'
  <2>1. handles' \in [Cluster -> Nat]
    BY <1>1 DEF RowsInv, TypeOK
  <2>2. disk' \in [Cluster -> File]
    BY <1>1, <1>10 DEF RowsInv, TypeOK
  <2>3. received' \in [Cluster -> Seq(Row)]
    BY <1>1, <1>3, <1>11, ConcatProperties DEF RowsInv, TypeOK
  <2>4. clusterFiles' \in [Cluster -> {"none", "open", "nil"}]
    BY <1>1, <1>6 DEF RowsInv, TypeOK
  <2> QED BY <1>1, <2>1, <2>2, <2>3, <2>4 DEF RowsInv, TypeOK, File, Row
<1>16. ReadWhileRunning'
  BY <1>1, <1>2 DEF ReadWhileRunning, Running
<1>17. FilesPast'
  <2>1. UNCHANGED <<call, interval>> /\ disk' = [disk EXCEPT ![c] = new]
    BY <1>1
  <2>2. disk \in [Cluster -> File]
    BY DEF RowsInv, TypeOK
  <2>3. ASSUME NEW d \in Cluster PROVE disk'[d] = new \/ disk'[d] = disk[d]
    BY ONLY <2>1, <2>2
  <2>4. \A d \in Cluster : Past(disk[d].rows, call, interval) /\ Ordered(disk[d].rows)
    BY DEF RowsInv, FilesPast
  <2>5. ASSUME NEW d \in Cluster PROVE Past(disk'[d].rows, call, interval) /\ Ordered(disk'[d].rows)
    BY ONLY <1>10, <2>3, <2>4
  <2> QED BY <2>1, <2>5 DEF FilesPast, Past, Ordered
<1>18. NilRefused'
  BY <1>1, <1>6, <1>13, <1>14 DEF RowsInv, TypeOK, NilRefused, Uninitialized
<1>19. AllReceivedWritten'
  <2> SUFFICES ASSUME NEW d \in Cluster, d \notin refused'
               PROVE  received'[d] = IF clusterFiles'[d] = "open" THEN disk'[d].rows ELSE << >>
    BY DEF AllReceivedWritten
  <2>1. CASE d # c
    BY <1>1, <2>1 DEF RowsInv, TypeOK, AllReceivedWritten
  <2>2. CASE d = c
    <3>1. o = "created" /\ c \notin refused /\ (file = "open" => w = Len(rows))
      BY <1>1, <1>3, <2>2
    <3>2. file = "open"
      BY <1>6, <1>13, <1>14, <3>1 DEF RowsInv, NilRefused, Uninitialized
    <3>3. received[c] = before.rows
      BY <1>12, <1>13, <1>14, <3>1, <3>2 DEF RowsInv, AllReceivedWritten
    <3>4. new.rows = received[c] \o rows
      BY <1>8, <3>1, <3>2, <3>3
    <3> QED BY <1>1, <2>2, <3>2, <3>4 DEF RowsInv, TypeOK
  <2> QED BY <2>1, <2>2
<1> QED BY <1>15, <1>16, <1>17, <1>18, <1>19 DEF RowsInv

\* The rows in a file.
LEMMA RowsTyped ==
  ASSUME TypeOK, NEW c \in Cluster, NEW i \in 1..Len(disk[c].rows)
  PROVE  disk[c].rows[i].call \in Nat /\ disk[c].rows[i].interval \in Nat
<1>1. disk[c].rows \in Seq(Row)
  BY DEF TypeOK, File
<1>2. disk[c].rows[i] \in Row
  BY <1>1
<1> QED BY <1>2 DEF Row

\* The other steps leave the files as they are; a new call finds only rows of
\* earlier calls in them.
LEMMA OtherStepsRows ==
  ASSUME IInv, RowsInv,
         \/ \E q \in Query, succeeds \in BOOLEAN : CollectMetric(q, succeeds)
         \/ \E c \in Cluster : SkipResult(c)
         \/ NextInterval
         \/ CloseFiles
         \/ UNCHANGED vars
  PROVE  RowsInv'
<1> USE DEF RowsInv
<1>1. NumCalls \in Nat \ {0} /\ HistoryInt \in Nat \ {0}
  BY WorkloadAssumption
<1>2. ASSUME \/ \E q \in Query, succeeds \in BOOLEAN : CollectMetric(q, succeeds)
             \/ \E c \in Cluster : SkipResult(c)
             \/ UNCHANGED vars
      PROVE  RowsInv'
  <2>1. /\ UNCHANGED <<call, interval, clusterFiles, disk, handles, received, refused>>
        /\ queries' \subseteq Query /\ query' \in Query /\ unread' \subseteq Cluster
        /\ unread' # {} => Running
    BY <1>2 DEF CollectMetric, SkipResult, vars, TypeOK, ReadWhileRunning
  <2> QED BY <2>1 DEF TypeOK, File, Row, ReadWhileRunning, Running, FilesPast, Past, Ordered,
                  NilRefused, AllReceivedWritten
<1>3. ASSUME NextInterval PROVE RowsInv'
  <2>1. TypeOK'
    <3>1. interval' \in 0..(HistoryInt - 1)
      BY <1>1, <1>3 DEF NextInterval, MoreHistory, TypeOK
    <3> QED BY <1>3, <3>1 DEF NextInterval, TypeOK, File, Row
  <2>2. \A c \in Cluster : \A i \in 1..Len(disk[c].rows) : disk[c].rows[i].interval \in Nat
    BY RowsTyped
  <2>3. FilesPast'
    <3>1. interval' = interval + 1 /\ interval \in Nat /\ UNCHANGED <<call, disk>>
      BY <1>3 DEF NextInterval, TypeOK
    <3> QED BY <2>2, <3>1 DEF FilesPast, Past, Ordered
  <2> QED BY <1>3, <2>1, <2>3 DEF NextInterval, ReadWhileRunning, IntervalDone, NilRefused,
                                  AllReceivedWritten
<1>4. ASSUME CloseFiles PROVE RowsInv'
  <2>1. TypeOK'
    <3>1. handles' \in [Cluster -> Nat]
      BY <1>4 DEF IInv, HandlesClosed, CloseFiles, FilesToClose, TypeOK
    <3>2. /\ call' \in 1..(NumCalls + 1) /\ interval' \in 0..(HistoryInt - 1)
          /\ queries' = Query /\ UNCHANGED <<query, unread, disk>>
          /\ clusterFiles' \in [Cluster -> {"none", "open", "nil"}]
          /\ received' \in [Cluster -> Seq(Row)] /\ refused' = {}
      BY <1>1, <1>4 DEF CloseFiles, IntervalDone, Running, TypeOK
    <3> QED BY <3>1, <3>2 DEF TypeOK, File, Row
  <2>2. FilesPast'
    <3>1. call' = call + 1 /\ call \in Nat /\ UNCHANGED disk
      BY <1>4 DEF CloseFiles, TypeOK
    <3>2. \A c \in Cluster : \A i \in 1..Len(disk[c].rows) :
            disk[c].rows[i].call <= call /\ disk[c].rows[i].call \in Nat
      BY RowsTyped DEF FilesPast, Past
    <3>3. ASSUME NEW c \in Cluster, NEW i \in 1..Len(disk[c].rows)
          PROVE  disk[c].rows[i].call <= call + 1 /\ disk[c].rows[i].call # call + 1
      BY ONLY <3>1, <3>2, <3>3
    <3>4. \A c \in Cluster : Ordered(disk[c].rows)
      BY DEF FilesPast
    <3> QED BY <3>1, <3>3, <3>4 DEF FilesPast, Past, Ordered
  <2> QED BY <1>4, <2>1, <2>2 DEF CloseFiles, IntervalDone, ReadWhileRunning, NilRefused,
                                  AllReceivedWritten
<1> QED BY <1>2, <1>3, <1>4

LEMMA InitRows == Init => RowsInv
<1> SUFFICES ASSUME Init PROVE RowsInv
  OBVIOUS
<1>1. NumCalls \in Nat \ {0} /\ HistoryInt \in Nat \ {0}
  BY WorkloadAssumption
<1>2. TypeOK
  BY <1>1 DEF Init, TypeOK, NoFile, File
<1>3. 1..Len(<< >>) = {}
  OBVIOUS
<1>4. FilesPast
  <2>1. Past(<< >>, call, interval) /\ Ordered(<< >>)
    BY ONLY <1>3 DEF Past, Ordered
  <2>2. \A c \in Cluster : disk[c].rows = << >>
    BY DEF Init, NoFile
  <2> QED BY ONLY <2>1, <2>2, Zenon DEF FilesPast
<1> QED BY <1>2, <1>4 DEF Init, RowsInv, ReadWhileRunning, NilRefused, AllReceivedWritten

\* Every reachable state satisfies the inductive invariant on rows.
THEOREM RowsInvariant == Spec => [](IInv /\ RowsInv)
<1>1. IInv /\ RowsInv /\ [Next]_vars => RowsInv'
  BY WriteResultRows, OtherStepsRows DEF Next
<1> QED BY <1>1, InitRows, FilesInvariant, PTL DEF Spec

\* The types of the variables.
THEOREM TypesHold == Spec => []TypeOK
<1>1. RowsInv => TypeOK
  BY DEF RowsInv
<1> QED BY <1>1, RowsInvariant, PTL

\* What the clusters answer is in their files, in order and once, whichever
\* queries fail, unless the file system refuses something.
THEOREM NothingLost == Spec => []AllReceivedWritten
<1>1. RowsInv => AllReceivedWritten
  BY DEF RowsInv
<1> QED BY <1>1, RowsInvariant, PTL

\* The rows of a call go back in time.
THEOREM NewestRowsFirst == Spec => []NewestFirst
<1>1. RowsInv => NewestFirst
  <2> SUFFICES ASSUME RowsInv, NEW c \in Cluster,
                      NEW i \in DOMAIN disk[c].rows, NEW j \in DOMAIN disk[c].rows,
                      i < j, disk[c].rows[i].call = disk[c].rows[j].call
               PROVE  disk[c].rows[i].interval <= disk[c].rows[j].interval
    BY DEF NewestFirst
  <2>1. DOMAIN disk[c].rows = 1..Len(disk[c].rows)
    BY LenProperties DEF RowsInv, TypeOK, File
  <2> QED BY <2>1 DEF RowsInv, FilesPast, Ordered
<1> QED BY <1>1, RowsInvariant, PTL

\* No error of a query, an interval or another cluster takes rows from an open
\* file again.
THEOREM OnlyGrows == Spec => GrowsWithinCall
<1> DEFINE Kept == \A c \in Cluster :
                     call' = call /\ clusterFiles[c] = "open" =>
                       /\ Len(disk'[c].rows) >= Len(disk[c].rows)
                       /\ SubSeq(disk'[c].rows, 1, Len(disk[c].rows)) = disk[c].rows
<1>1. ASSUME RowsInv, [Next]_vars PROVE Kept
  <2>1. \A c \in Cluster : disk[c].rows \in Seq(Row)
    BY <1>1 DEF RowsInv, TypeOK, File
  <2>2. CASE UNCHANGED disk
    BY <2>1, <2>2, SubSeqFull, LenProperties
  <2>3. ASSUME NEW c \in Cluster, NEW s \in Results,
               NEW o \in {"created", "noCreate", "noHeader"}, NEW w \in 0..Len(s),
               WriteResult(c, s, o, w)
        PROVE  Kept
    <3> SUFFICES ASSUME NEW d \in Cluster, clusterFiles[d] = "open"
                 PROVE  /\ Len(disk'[d].rows) >= Len(disk[d].rows)
                        /\ SubSeq(disk'[d].rows, 1, Len(disk[d].rows)) = disk[d].rows
      OBVIOUS
    <3>1. disk \in [Cluster -> File] /\ disk'[d] \in File
      BY <1>1, <2>3, WriteResultRows DEF RowsInv, TypeOK
    <3>2. CASE d # c
      <4>1. disk'[d] = disk[d]
        BY <2>3, <3>1, <3>2 DEF WriteResult
      <4> QED BY <2>1, <4>1, SubSeqFull, LenProperties
    <3>3. CASE d = c
      <4>1. disk'[c] = [disk[c] EXCEPT !.rows = @ \o SubSeq(Rows(s), 1, w)]
        BY <2>3, <3>1, <3>3 DEF WriteResult, Uninitialized, Appended
      <4>2. PICK more \in Seq(Row) : disk'[c].rows = disk[c].rows \o more
        <5>1. SubSeq(Rows(s), 1, w) \in Seq(Row)
          <6>1. call \in 1..NumCalls /\ interval \in 0..(HistoryInt - 1) /\ query \in Query
            BY <1>1, <2>3, WorkloadAssumption DEF WriteResult, RowsInv, TypeOK, ReadWhileRunning, Running
          <6>2. Current \subseteq Row
            BY <6>1 DEF Current, Row
          <6>3. Rows(s) \in Seq(Row)
            BY <6>2, RowsCurrent, WorkloadAssumption, SeqMonotonic
          <6>4. w \in 0..Len(Rows(s))
            BY <2>3, <3>3, <6>3, LenProperties DEF WriteResult, Uninitialized
          <6>5. \A i \in 1..w : Rows(s)[i] \in Row
            BY <6>3, <6>4
          <6> QED BY <6>4, <6>5, SubSeqProperties
        <5> QED BY <4>1, <5>1, <3>1 DEF File
      <4>3. /\ Len(disk[c].rows \o more) = Len(disk[c].rows) + Len(more)
            /\ Len(more) \in Nat /\ Len(disk[c].rows) \in Nat
        BY <2>1, ConcatProperties, LenProperties
      <4>4. SubSeq(disk[c].rows \o more, 1, Len(disk[c].rows)) = disk[c].rows
        <5>1. CASE Len(disk[c].rows) = 0
          BY <2>1, <5>1, SubSeqEmpty, EmptySeq
        <5>2. CASE Len(disk[c].rows) > 0
          <6>1. SubSeq(disk[c].rows \o more, 1, Len(disk[c].rows))
                  = SubSeq(disk[c].rows, 1, Len(disk[c].rows))
            BY <2>1, <4>3, <5>2, SubSeqOfConcat1
          <6> QED BY <2>1, <6>1, SubSeqFull
        <5> QED BY <4>3, <5>1, <5>2
      <4> QED BY <3>3, <4>2, <4>3, <4>4
    <3> QED BY <3>2, <3>3
  <2>4. CASE CloseFiles
    BY <1>1, <2>4 DEF CloseFiles, RowsInv, TypeOK
  <2> HIDE DEF Kept
  <2> QED BY <1>1, <2>2, <2>3, <2>4 DEF Next, CollectMetric, SkipResult, NextInterval, vars
<1>2. RowsInv /\ [Next]_vars => [Kept]_vars
  BY <1>1
<1> QED BY <1>2, RowsInvariant, PTL DEF Spec, GrowsWithinCall
=============================================================================
