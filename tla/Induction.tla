------------------------------ MODULE Induction ------------------------------
(***************************************************************************)
(* Induction over the natural numbers, without an operator parameter, and  *)
(* what follows from it of recursive functions.                            *)
(*                                                                         *)
(* The models compute over sequences, as the code's loops do, by recursive *)
(* functions over their prefixes.  Such a function is what its equation    *)
(* says only if a function satisfying it exists.  LoopExists shows that it *)
(* does whenever every turn of the loop stays in some set, and that then   *)
(* the loop does: the set is the loop's invariant.                         *)
(***************************************************************************)
EXTENDS Integers, FiniteSetTheorems, SequenceTheorems, WellFoundedInduction, TLAPS

\* A set of natural numbers that is not empty has a least element: of the
\* intervals from 1 to its elements, ordered by inclusion, one is minimal.
LEMMA LeastElement ==
  ASSUME NEW T \in SUBSET Nat, T # {}
  PROVE  \E x \in T : \A y \in T : x <= y
<1> DEFINE U == {1 .. n : n \in T}
<1>1. U \subseteq FiniteSubsetsOf(Nat) /\ U # {}
  <2>1. \A n \in T : IsFiniteSet(1 .. n) /\ 1 .. n \in SUBSET Nat
    BY FS_Interval
  <2> QED BY <2>1 DEF FiniteSubsetsOf
<1>2. PICK u \in U : \A v \in U : <<v, u>> \notin StrictSubsetOrdering(Nat)
  BY <1>1, FS_StrictSubsetOrderingWellFounded, WFMin
<1>3. PICK x \in T : u = 1 .. x
  OBVIOUS
<1>4. ASSUME NEW y \in T, y < x PROVE FALSE
  <2>1. 1 .. y \in U /\ 1 .. y \subseteq 1 .. x /\ x \in 1 .. x /\ x \notin 1 .. y
    BY <1>4
  <2>2. <<1 .. y, 1 .. x>> \in StrictSubsetOrdering(Nat)
    BY <2>1 DEF StrictSubsetOrdering
  <2> QED BY <1>2, <1>3, <2>1, <2>2
<1> QED BY <1>4

\* Induction: a set with 0 and the successors of its elements has all numbers.
LEMMA SetInduction ==
  ASSUME NEW S, 0 \in S, \A n \in Nat : n \in S => n + 1 \in S
  PROVE  Nat \subseteq S
<1> DEFINE T == Nat \ S
<1>1. SUFFICES ASSUME T # {} PROVE FALSE
  OBVIOUS
<1>2. PICK x \in T : \A y \in T : x <= y
  BY <1>1, LeastElement
<1>3. x \in Nat /\ x # 0 /\ x - 1 \in Nat /\ x - 1 \notin T
  BY <1>2
<1> QED BY <1>3

\* The values of a loop of n turns: at first a, then what each turn, a function,
\* makes of the value before.
IsLoop(f, n, a, turn) == f[0] = a /\ \A i \in 1 .. n : f[i] = turn[i][f[i - 1]]

\* A loop of n turns that starts with a and whose turns, as a function of their
\* number and the value so far, do not leave A.
LEMMA LoopExists ==
  ASSUME NEW A, NEW n \in Nat, NEW a \in A, NEW turn \in [1 .. n -> [A -> A]]
  PROVE  \E f \in [0 .. n -> A] : IsLoop(f, n, a, turn)
<1> DEFINE S == {m \in Nat : m <= n => \E f \in [0 .. m -> A] : IsLoop(f, m, a, turn)}
<1>1. 0 \in S
  <2> DEFINE g == [i \in 0 .. 0 |-> a]
  <2>1. g \in [0 .. 0 -> A] /\ IsLoop(g, 0, a, turn)
    BY DEF IsLoop
  <2> QED BY <2>1
<1>2. ASSUME NEW m \in Nat, m \in S PROVE m + 1 \in S
  <2> SUFFICES ASSUME m + 1 <= n PROVE \E f \in [0 .. m + 1 -> A] : IsLoop(f, m + 1, a, turn)
    OBVIOUS
  <2>1. PICK f \in [0 .. m -> A] : IsLoop(f, m, a, turn)
    BY <1>2
  <2> DEFINE last == turn[m + 1][f[m]]
             g == [i \in 0 .. m + 1 |-> IF i <= m THEN f[i] ELSE last]
  <2>2. last \in A
    <3>1. f[m] \in A /\ turn[m + 1] \in [A -> A]
      OBVIOUS
    <3> QED BY <3>1
  <2>3. g \in [0 .. m + 1 -> A]
    BY <2>2
  <2>4. IsLoop(g, m + 1, a, turn)
    <3>1. g[0] = a
      BY <2>1 DEF IsLoop
    <3>2. ASSUME NEW i \in 1 .. m + 1 PROVE g[i] = turn[i][g[i - 1]]
      <4>1. CASE i <= m
        BY <4>1, <2>1 DEF IsLoop
      <4>2. CASE i = m + 1
        <5>1. g[m + 1] = last /\ g[m] = f[m] /\ i - 1 = m
          BY <4>2
        <5> QED BY <4>2, <5>1
      <4> QED BY <4>1, <4>2
    <3> QED BY <3>1, <3>2 DEF IsLoop
  <2> QED BY <2>3, <2>4
<1> HIDE DEF S
<1>3. n \in S
  BY <1>1, <1>2, SetInduction
<1> QED BY <1>3 DEF S

\* Whatever a loop starts with and each turn keeps holds of all its values.
LEMMA LoopInvariant ==
  ASSUME NEW A, NEW n \in Nat, NEW f, f[0] \in A,
         \A i \in 1 .. n : f[i - 1] \in A => f[i] \in A
  PROVE  \A i \in 0 .. n : f[i] \in A
<1> DEFINE S == {m \in Nat : m <= n => f[m] \in A}
<1>1. 0 \in S
  OBVIOUS
<1>2. ASSUME NEW m \in Nat, m \in S PROVE m + 1 \in S
  <2>1. CASE m + 1 <= n
    <3>1. m + 1 \in 1 .. n /\ (m + 1) - 1 = m
      BY <2>1
    <3> QED BY <1>2, <3>1
  <2>2. CASE ~(m + 1 <= n)
    BY <2>2
  <2> QED BY <2>1, <2>2
<1>3. Nat \subseteq S
  <2> HIDE DEF S
  <2> QED BY <1>1, <1>2, SetInduction
<1> QED BY <1>3

\* The same of the numbers of the turns for which something holds.
LEMMA TurnsInduction ==
  ASSUME NEW n \in Nat, NEW S, 0 \in S, \A i \in 1 .. n : i - 1 \in S => i \in S
  PROVE  \A i \in 0 .. n : i \in S
<1> DEFINE f == [i \in 0 .. n |-> i]
<1>1. f[0] \in S /\ \A i \in 1 .. n : f[i - 1] \in S => f[i] \in S
  OBVIOUS
<1>2. \A i \in 0 .. n : f[i] = i
  OBVIOUS
<1> HIDE DEF f
<1>3. \A i \in 0 .. n : f[i] \in S
  BY <1>1, LoopInvariant
<1> QED BY <1>2, <1>3

-----------------------------------------------------------------------------
(* Sequences put together from parts *)

IsSequence(s) == Len(s) \in Nat /\ s = [i \in 1 .. Len(s) |-> s[i]]

\* A function of the first numbers is a sequence of that length.
LEMMA FunctionLength ==
  ASSUME NEW n \in Nat, NEW f, f = [i \in 1 .. n |-> f[i]]
  PROVE  IsSequence(f) /\ Len(f) = n
<1> DEFINE S == {f[i] : i \in 1 .. n}
<1>1. f \in Seq(S) /\ DOMAIN f = 1 .. n
  <2>1. f \in [1 .. n -> S]
    OBVIOUS
  <2> QED BY <2>1, SeqDef
<1> HIDE DEF S
<1>2. Len(f) \in Nat /\ DOMAIN f = 1 .. Len(f)
  BY ONLY <1>1, LenProperties
<1> DEFINE l == Len(f)
<1>3. l \in Nat /\ 1 .. l = 1 .. n
  BY <1>1, <1>2
<1> HIDE DEF l
<1>4. l <= n
  <2>1. CASE l = 0
    BY <2>1
  <2>2. CASE l # 0
    <3>1. l \in 1 .. l
      BY <1>3, <2>2
    <3>2. l \in 1 .. n
      BY <1>3, <3>1
    <3> QED BY <3>2
  <2> QED BY <2>1, <2>2
<1>5. n <= l
  <2>1. CASE n = 0
    BY <1>3, <2>1
  <2>2. CASE n # 0
    <3>1. n \in 1 .. n
      BY <2>2
    <3>2. n \in 1 .. l
      BY <1>3, <3>1
    <3> QED BY <3>2
  <2> QED BY <2>1, <2>2
<1>6. l = n
  BY <1>3, <1>4, <1>5
<1> QED BY <1>6 DEF IsSequence, l

\* A list with another one after it.
LEMMA Joined ==
  ASSUME NEW s, NEW t, IsSequence(s), IsSequence(t)
  PROVE  /\ IsSequence(s \o t)
         /\ Len(s \o t) = Len(s) + Len(t)
         /\ \A i \in 1 .. Len(s) : (s \o t)[i] = s[i]
         /\ \A i \in (Len(s) + 1) .. Len(s \o t) :
              (s \o t)[i] = t[i - Len(s)] /\ i - Len(s) \in 1 .. Len(t)
<1> DEFINE S == {s[i] : i \in 1 .. Len(s)} \cup {t[i] : i \in 1 .. Len(t)}
<1>1. s \in Seq(S) /\ t \in Seq(S)
  BY DEF IsSequence
<1> HIDE DEF S
<1>2. /\ s \o t \in Seq(S)
      /\ Len(s \o t) = Len(s) + Len(t)
      /\ \A i \in 1 .. Len(s) + Len(t) : (s \o t)[i] = IF i <= Len(s) THEN s[i] ELSE t[i - Len(s)]
  BY <1>1, ConcatProperties
<1>3. IsSequence(s \o t)
  <2> DEFINE u == s \o t
  <2>1. u \in Seq(S)
    BY <1>2
  <2> HIDE DEF u
  <2>2. Len(u) \in Nat /\ u = [i \in 1 .. Len(u) |-> u[i]]
    BY <2>1
  <2> QED BY <2>2 DEF IsSequence, u
<1> QED BY <1>2, <1>3 DEF IsSequence

\* A sequence and after it another, by their elements.
IsJoin(u, s, t) ==
  /\ IsSequence(u)
  /\ Len(u) = Len(s) + Len(t)
  /\ \A i \in 1 .. Len(s) : u[i] = s[i]
  /\ \A i \in 1 .. Len(t) : u[Len(s) + i] = t[i]

\* The same without differences.
LEMMA JoinedAt ==
  ASSUME NEW s, NEW t, IsSequence(s), IsSequence(t)
  PROVE  IsJoin(s \o t, s, t)
<1> DEFINE m == Len(s)
           n == Len(t)
<1>1. m \in Nat /\ n \in Nat
  BY DEF IsSequence
<1>2. \A i \in (m + 1) .. Len(s \o t) : (s \o t)[i] = t[i - m]
  BY Joined
<1>3. Len(s \o t) = m + n
  BY Joined
<1> HIDE DEF m, n
<1>4. ASSUME NEW i \in 1 .. n PROVE (s \o t)[m + i] = t[i]
  <2>1. m + i \in (m + 1) .. (m + n) /\ (m + i) - m = i
    BY <1>1
  <2> QED BY <1>2, <1>3, <2>1
<1> QED BY <1>3, <1>4, Joined DEF m, n, IsJoin

\* The cells of a part of a row, after n others, are of the header's columns.
Fits(s, n, header) ==
  /\ IsSequence(s)
  /\ \A i \in 1 .. Len(s) : s[i] \in {"", header[n + i]}

\* Parts one after the other.
LEMMA FitsJoin ==
  ASSUME NEW s, NEW t, NEW header, NEW k \in Nat, Fits(s, k, header), Fits(t, k + Len(s), header)
  PROVE  Fits(s \o t, k, header) /\ Len(s \o t) = Len(s) + Len(t)
<1> DEFINE m == Len(s)
           n == Len(t)
           u == s \o t
<1>1. IsJoin(u, s, t)
  BY JoinedAt DEF Fits
<1>2. m \in Nat /\ n \in Nat
  BY DEF Fits, IsSequence
<1> HIDE DEF u
<1>3. /\ IsSequence(u) /\ Len(u) = m + n
      /\ \A i \in 1 .. m : u[i] = s[i]
      /\ \A i \in 1 .. n : u[m + i] = t[i]
  BY <1>1 DEF IsJoin
<1>4. /\ \A i \in 1 .. m : s[i] \in {"", header[k + i]}
      /\ \A i \in 1 .. n : t[i] \in {"", header[(k + m) + i]}
  BY DEF Fits
<1> HIDE DEF m, n
<1>5. ASSUME NEW i \in 1 .. (m + n) PROVE u[i] \in {"", header[k + i]}
  <2>1. CASE i \in 1 .. m
    BY <1>3, <1>4, <2>1
  <2>2. CASE i \notin 1 .. m
    <3>1. i - m \in 1 .. n /\ i = m + (i - m) /\ (k + m) + (i - m) = k + i
      BY ONLY <1>2, <2>2, i \in 1 .. (m + n), k \in Nat
    <3> DEFINE j == i - m
    <3> HIDE DEF j
    <3>2. j \in 1 .. n /\ u[i] = t[j] /\ (k + m) + j = k + i
      <4>1. j \in 1 .. n /\ i = m + j /\ (k + m) + j = k + i
        BY <3>1 DEF j
      <4> QED BY <1>3, <4>1
    <3>3. t[j] \in {"", header[(k + m) + j]}
      BY <1>4, <3>2
    <3> QED BY <3>2, <3>3
  <2> QED BY <2>1, <2>2
<1>6. Fits(u, k, header)
  BY <1>3, <1>5 DEF Fits
<1> QED BY <1>3, <1>6 DEF u, m, n

\* The same with the lengths and places of the parts.
Part(s, m, k, header) == Fits(s, k, header) /\ Len(s) = m

LEMMA PartsJoin ==
  ASSUME NEW s, NEW t, NEW header, NEW k \in Nat, NEW m \in Nat, NEW n \in Nat, NEW j, NEW l,
         Part(s, m, k, header), Part(t, n, j, header), j = k + m, l = m + n
  PROVE  Part(s \o t, l, k, header)
<1>1. Fits(s, k, header) /\ Fits(t, k + Len(s), header) /\ Len(s) = m /\ Len(t) = n
  BY DEF Part
<1>2. Fits(s \o t, k, header) /\ Len(s \o t) = Len(s) + Len(t)
  BY <1>1, FitsJoin
<1> QED BY <1>1, <1>2 DEF Part
=============================================================================
