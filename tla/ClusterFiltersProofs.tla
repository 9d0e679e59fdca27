------------------------ MODULE ClusterFiltersProofs ------------------------
(***************************************************************************)
(* What registration guarantees, for every set of names, labels and values *)
(* and every configuration.  The inductive invariant adds to the checked   *)
(* invariants only that the flag noIdentifiersFilter is up as soon as a    *)
(* cluster without identifiers is registered.                              *)
(***************************************************************************)
EXTENDS ClusterFilters, SequenceTheorems, TLAPS

FlagTracksUnidentified ==
  (\E c \in Registered : DOMAIN filtersByName[c] = {}) => noIdentifiersFilter

IInv ==
  /\ TypeOK
  /\ FlagTracksUnidentified
  /\ IdentifiersDisjoint
  /\ UnidentifiedIsAlone
  /\ GroupsPartitionClusters
  /\ NamesListRegistered

-----------------------------------------------------------------------------
\* Appending a new element keeps a sequence free of duplicates and adds
\* exactly that element.
LEMMA AppendFresh ==
  ASSUME NEW S, NEW s \in Seq(S), NEW x \in S
  PROVE  /\ Append(s, x) \in Seq(S)
         /\ \A y : InSeq(y, Append(s, x)) <=> (InSeq(y, s) \/ y = x)
         /\ NoDuplicates(s) /\ ~InSeq(x, s) => NoDuplicates(Append(s, x))
<1> DEFINE t == Append(s, x)
<1>1. t \in Seq(S) /\ DOMAIN t = 1..(Len(s) + 1) /\ DOMAIN s = 1..Len(s) /\ Len(s) \in Nat
  OBVIOUS
<1>2. \A i \in 1..Len(s) : t[i] = s[i]
  OBVIOUS
<1>3. t[Len(s) + 1] = x
  OBVIOUS
<1>4. \A y : InSeq(y, t) <=> (InSeq(y, s) \/ y = x)
  <2> HIDE DEF t
  <2> QED BY <1>1, <1>2, <1>3 DEF InSeq
<1>5. NoDuplicates(s) /\ ~InSeq(x, s) => NoDuplicates(t)
  <2> HIDE DEF t
  <2> QED BY <1>1, <1>2, <1>3 DEF InSeq, NoDuplicates
<1> QED BY <1>1, <1>4, <1>5

\* The set of elements of a sequence, as NamesListRegistered writes it.
LEMMA InSeqElements ==
  ASSUME NEW s
  PROVE  \A x : InSeq(x, s) <=> x \in {s[i] : i \in DOMAIN s}
BY DEF InSeq

LEMMA InitIInv == Init => IInv
<1> SUFFICES ASSUME Init PROVE IInv
  OBVIOUS
<1> USE DEF Init, Registered
<1>1. TypeOK
  <2>1. config \in Seq(ClusterFilterParameters \cup {NilFilter})
    BY ConfigsAssumption
  <2>2. 1 \in 1..(Len(config) + 1)
    BY <2>1
  <2>3. filtersByName \in [Registered -> LabelSets] /\ Registered \subseteq ClusterName
    OBVIOUS
  <2>4. labelFilters \in [SUBSET LabelName -> Seq(ClusterName)]
    OBVIOUS
  <2>5. noIdentifiersFilter \in BOOLEAN
    BY Zenon
  <2>6. ClusterNames \in Seq(ClusterName)
    OBVIOUS
  <2> QED BY <2>1, <2>2, <2>3, <2>4, <2>5, <2>6 DEF TypeOK
<1>2. FlagTracksUnidentified /\ IdentifiersDisjoint /\ UnidentifiedIsAlone
  BY DEF FlagTracksUnidentified, IdentifiersDisjoint, UnidentifiedIsAlone
<1>3. GroupsPartitionClusters
  BY DEF GroupsPartitionClusters, NoDuplicates, InSeq
<1>4. NamesListRegistered
  BY DEF NamesListRegistered, NoDuplicates
<1> QED BY <1>1, <1>2, <1>3, <1>4 DEF IInv

\* A step that leaves the registered filters alone keeps everything but the
\* types of the two variables it changes.
LEMMA OtherStepsIInv ==
  ASSUME IInv, UNCHANGED <<config, next, filtersByName, ClusterNames, labelFilters>>,
         noIdentifiersFilter' \in BOOLEAN, noIdentifiersFilter => noIdentifiersFilter',
         outcome' \in {"registering", "accepted", "rejected", "panic"}
  PROVE  IInv'
<1>1. Registered' = Registered
  BY DEF Registered
<1>2. TypeOK'
  BY <1>1 DEF IInv, TypeOK
<1>3. FlagTracksUnidentified'
  BY <1>1 DEF IInv, FlagTracksUnidentified
<1>4. IdentifiersDisjoint' /\ UnidentifiedIsAlone'
  BY <1>1 DEF IInv, IdentifiersDisjoint, UnidentifiedIsAlone
<1>5. GroupsPartitionClusters' /\ NamesListRegistered'
  BY <1>1 DEF IInv, GroupsPartitionClusters, NamesListRegistered
<1> QED BY <1>2, <1>3, <1>4, <1>5 DEF IInv

LEMMA RegisterIInv ==
  ASSUME IInv, Register
  PROVE  IInv'
<1> DEFINE cf == config[next]
           c  == cf.name
<1>1. /\ next \in DOMAIN config
      /\ cf \in ClusterFilterParameters
      /\ c \in ClusterName
      /\ cf.identifiers \in LabelSets
      /\ DOMAIN cf.identifiers \in SUBSET LabelName
  <2>1. next \in DOMAIN config /\ cf \in ClusterFilterParameters
    BY DEF IInv, TypeOK, Register, Pending
  <2>2. c # NoName
    BY DEF Register, Acceptable
  <2> QED BY <2>1, <2>2 DEF ClusterFilterParameters, LabelSets
<1>2. /\ Registered' = Registered \cup {c}
      /\ filtersByName'[c] = cf.identifiers
      /\ \A n \in Registered \ {c} : filtersByName'[n] = filtersByName[n]
  BY DEF Register, Registered
<1>3. /\ c \notin Registered
      /\ \A n \in Registered : ~SharesLabel(n, cf)
      /\ Registered # {} => ~SeenNoIdentifiers(cf)
  BY DEF Register, Acceptable, Distinct, Registered
<1>4. ClusterNames' = Append(ClusterNames, c)
  BY DEF Register
<1>5. /\ labelFilters' = [labelFilters EXCEPT ![DOMAIN cf.identifiers] = Append(@, c)]
  BY DEF Register, GroupKey
<1>6. noIdentifiersFilter' = (noIdentifiersFilter \/ DOMAIN cf.identifiers = {})
  BY DEF Register, SeenNoIdentifiers
<1>7. TypeOK'
  <2>1. config' = config /\ outcome' = outcome /\ next' = next + 1
    BY DEF Register
  <2>2. next' \in 1..(Len(config') + 1)
    BY <2>1, <1>1 DEF IInv, TypeOK
  <2>3. Registered' \subseteq ClusterName /\ filtersByName' \in [Registered' -> LabelSets]
    BY <1>1, <1>2 DEF IInv, TypeOK, Register, Registered
  <2>4. ClusterNames' \in Seq(ClusterName)
    BY <1>1, <1>4 DEF IInv, TypeOK
  <2>5. labelFilters' \in [SUBSET LabelName -> Seq(ClusterName)]
    <3> DEFINE g == DOMAIN cf.identifiers
    <3>1. g \in SUBSET LabelName /\ labelFilters[g] \in Seq(ClusterName)
      BY <1>1 DEF IInv, TypeOK
    <3>2. Append(labelFilters[g], c) \in Seq(ClusterName)
      BY <3>1, <1>1
    <3> QED BY <3>1, <3>2, <1>5 DEF IInv, TypeOK
  <2> QED BY <2>1, <2>2, <2>3, <2>4, <2>5, <1>6 DEF IInv, TypeOK
<1>8. FlagTracksUnidentified'
  BY <1>2, <1>6 DEF IInv, FlagTracksUnidentified
<1>9. IdentifiersDisjoint'
  <2> SUFFICES ASSUME NEW d \in Registered', NEW e \in Registered', d # e,
                      NEW ln \in LabelName,
                      ln \in DOMAIN filtersByName'[d], ln \in DOMAIN filtersByName'[e],
                      filtersByName'[d][ln] = filtersByName'[e][ln]
               PROVE  FALSE
    BY DEF IdentifiersDisjoint
  <2>1. CASE d # c /\ e # c
    BY <2>1, <1>2 DEF IInv, IdentifiersDisjoint
  <2>2. CASE d = c
    BY <2>2, <1>2, <1>3 DEF SharesLabel, Contains
  <2>3. CASE e = c
    BY <2>3, <1>2, <1>3 DEF SharesLabel, Contains
  <2> QED BY <2>1, <2>2, <2>3
<1>10. UnidentifiedIsAlone'
  <2>1. CASE Registered = {}
    BY <2>1, <1>2 DEF UnidentifiedIsAlone
  <2>2. CASE Registered # {}
    <3>1. ~noIdentifiersFilter /\ DOMAIN cf.identifiers # {}
      BY <2>2, <1>3 DEF SeenNoIdentifiers
    <3>2. \A d \in Registered : DOMAIN filtersByName[d] # {}
      BY <3>1 DEF IInv, FlagTracksUnidentified
    <3> QED BY <3>1, <3>2, <1>2, <1>3 DEF UnidentifiedIsAlone
  <2> QED BY <2>1, <2>2
<1>11. GroupsPartitionClusters'
  <2> DEFINE g == DOMAIN cf.identifiers
             s == labelFilters[g]
  <2>1. g \in SUBSET LabelName /\ s \in Seq(ClusterName)
    BY <1>1 DEF IInv, TypeOK
  <2>2. ~InSeq(c, s)
    BY <2>1, <1>3 DEF IInv, GroupsPartitionClusters, InSeq
  <2>3. NoDuplicates(s)
    BY <2>1 DEF IInv, GroupsPartitionClusters
  <2>4. /\ labelFilters'[g] = Append(s, c)
        /\ \A names \in SUBSET LabelName : names # g => labelFilters'[names] = labelFilters[names]
    BY <2>1, <1>5 DEF IInv, TypeOK
  <2>5. /\ \A y : InSeq(y, Append(s, c)) <=> (InSeq(y, s) \/ y = c)
        /\ NoDuplicates(Append(s, c))
    BY <2>1, <2>2, <2>3, <1>1, AppendFresh
  <2>6. ASSUME NEW d \in Registered', NEW names \in SUBSET LabelName
        PROVE  InSeq(d, labelFilters'[names]) <=> names = DOMAIN filtersByName'[d]
    <3>1. ASSUME d # c
          PROVE  InSeq(d, labelFilters[names]) <=> names = DOMAIN filtersByName[d]
      BY <3>1, <1>2 DEF IInv, GroupsPartitionClusters
    <3>2. ASSUME d = c
          PROVE  ~InSeq(d, labelFilters[names])
      BY <3>2, <1>3 DEF IInv, GroupsPartitionClusters, InSeq
    <3>3. CASE names = g
      BY <3>1, <3>2, <3>3, <2>4, <2>5, <1>2
    <3>4. CASE names # g
      BY <3>1, <3>2, <3>4, <2>4, <1>2
    <3> QED BY <3>3, <3>4
  <2>7. ASSUME NEW names \in SUBSET LabelName
        PROVE  /\ NoDuplicates(labelFilters'[names])
               /\ \A y : InSeq(y, labelFilters'[names]) => y \in Registered'
    <3>1. /\ NoDuplicates(labelFilters[names])
          /\ \A y : InSeq(y, labelFilters[names]) => y \in Registered
      BY DEF IInv, GroupsPartitionClusters, InSeq
    <3>2. CASE names = g
      BY <3>1, <3>2, <2>4, <2>5, <1>2
    <3>3. CASE names # g
      BY <3>1, <3>3, <2>4, <1>2
    <3> QED BY <3>2, <3>3
  <2>8. \A names \in SUBSET LabelName : \A i \in DOMAIN labelFilters'[names] :
          labelFilters'[names][i] \in Registered'
    BY <2>7 DEF InSeq
  <2> HIDE DEF cf, c, g, s
  <2> QED BY <2>6, <2>7, <2>8 DEF GroupsPartitionClusters
<1>12. NamesListRegistered'
  <2>1. ClusterNames \in Seq(ClusterName)
    BY DEF IInv, TypeOK
  <2>2. ~InSeq(c, ClusterNames)
    BY <1>3, InSeqElements DEF IInv, NamesListRegistered
  <2>3. NoDuplicates(ClusterNames) /\ \A x : InSeq(x, ClusterNames) <=> x \in Registered
    BY InSeqElements DEF IInv, NamesListRegistered
  <2>4. NoDuplicates(ClusterNames') /\ \A x : InSeq(x, ClusterNames') <=> x \in Registered'
    BY <2>1, <2>2, <2>3, <1>1, <1>2, <1>4, AppendFresh
  <2> QED BY <2>4, InSeqElements DEF NamesListRegistered
<1> QED BY <1>7, <1>8, <1>9, <1>10, <1>11, <1>12 DEF IInv

\* The registration invariant is inductive: what the whole of registration
\* guarantees to the rest of the program.
THEOREM RegistrationInvariant == Spec => []IInv
<1>1. IInv /\ [Next]_vars => IInv'
  <2> SUFFICES ASSUME IInv, [Next]_vars PROVE IInv'
    OBVIOUS
  <2>1. CASE NilEntry
    BY <2>1, OtherStepsIInv DEF NilEntry, IInv, TypeOK
  <2>2. CASE Reject
    BY <2>2, OtherStepsIInv DEF Reject, IInv, TypeOK, SeenNoIdentifiers
  <2>3. CASE Register
    BY <2>3, RegisterIInv
  <2>4. CASE Accept
    BY <2>4, OtherStepsIInv DEF Accept, IInv, TypeOK
  <2>5. CASE UNCHANGED vars
    BY <2>5, OtherStepsIInv DEF vars, IInv, TypeOK
  <2> QED BY <2>1, <2>2, <2>3, <2>4, <2>5 DEF Next
<1> QED BY <1>1, InitIInv, PTL DEF Spec

\* Registration keeps the types of its state.
THEOREM TypeCorrect == Spec => []TypeOK
BY RegistrationInvariant, PTL DEF IInv

\* Two registered clusters never claim the same value of the same label.
THEOREM Disjointness == Spec => []IdentifiersDisjoint
BY RegistrationInvariant, PTL DEF IInv

\* A cluster without identifiers is registered only if it is the only one.
THEOREM SoleUnidentified == Spec => []UnidentifiedIsAlone
BY RegistrationInvariant, PTL DEF IInv

\* The groups of filters partition the registered clusters by label names.
THEOREM Grouping == Spec => []GroupsPartitionClusters
BY RegistrationInvariant, PTL DEF IInv

\* ClusterNames lists the registered clusters once each.
THEOREM NamesListed == Spec => []NamesListRegistered
BY RegistrationInvariant, PTL DEF IInv

=============================================================================
