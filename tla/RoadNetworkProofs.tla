--------------------------- MODULE RoadNetworkProofs ---------------------------
(***************************************************************************)
(* Lemmas about paths in the road network, and the two forms of induction  *)
(* along a path the proofs use.  They are stated for sets, so that a proof *)
(* applies them to the set of the positions that have a property.          *)
(***************************************************************************)
EXTENDS RoadNetwork, FiniteSetTheorems, TLAPS

LEMMA LeastNatural ==
  ASSUME NEW T \in SUBSET Nat, T # {}
  PROVE  \E m \in T : \A k \in T : m <= k
<1> DEFINE less == OpToRel(<, Nat)
<1>1. \A x, y \in Nat : <<x, y>> \in less <=> x < y
  BY DEF OpToRel
<1>2. IsWellFoundedOn(less, Nat)
  BY NatLessThanWellFounded
<1> HIDE DEF less
<1>3. PICK m \in T : \A k \in T : ~ (<<k, m>> \in less)
  BY <1>2, WFMin
<1>4. ASSUME NEW k \in T
      PROVE  m <= k
  <2>1. m \in Nat /\ k \in Nat
    OBVIOUS
  <2>2. ~ (k < m)
    BY <1>1, <1>3, <2>1
  <2> QED BY <2>1, <2>2
<1> QED BY <1>4

(* What holds at the first position and is passed on holds at all.         *)
LEMMA ForwardInduction ==
  ASSUME NEW n \in Nat, NEW T, 1 \in T,
         \A i \in 1 .. n - 1 : i \in T => i + 1 \in T
  PROVE  \A i \in 1 .. n : i \in T
<1> DEFINE Bad == {i \in 1 .. n : i \notin T}
<1> SUFFICES ASSUME Bad # {} PROVE FALSE
  OBVIOUS
<1>1. Bad \in SUBSET Nat
  OBVIOUS
<1>2. PICK m \in Bad : \A k \in Bad : m <= k
  <2> HIDE DEF Bad
  <2> QED BY <1>1, LeastNatural
<1>3. m # 1 /\ m \in 1 .. n
  BY <1>2
<1>4. m - 1 \in 1 .. n - 1 /\ m - 1 \in 1 .. n
  BY <1>3
<1>5. m - 1 \in T
  BY <1>2, <1>4
<1>6. (m - 1) + 1 \in T
  BY <1>4, <1>5
<1> QED BY <1>2, <1>3, <1>6

(***************************************************************************)
(* A sum along a sequence, position by position, exists.                   *)
(***************************************************************************)
IsRunningSum(c, w, n) ==
  /\ c \in [1 .. n -> Nat]
  /\ \A i \in 1 .. n : c[i] = IF i = 1 THEN 0 ELSE c[i - 1] + w[i]

LEMMA RunningSumExists ==
  ASSUME NEW n \in Nat, NEW w \in [1 .. n -> Nat]
  PROVE  \E c : IsRunningSum(c, w, n)
<1> DEFINE T == {m \in 1 .. n : \E c : IsRunningSum(c, w, m)}
<1>1. CASE n = 0
  <2>1. IsRunningSum([i \in 1 .. 0 |-> 0], w, 0)
    BY DEF IsRunningSum
  <2> QED BY <1>1, <2>1
<1>2. CASE n # 0
  <2>1. 1 \in T
    <3>1. IsRunningSum([i \in 1 .. 1 |-> 0], w, 1)
      BY DEF IsRunningSum
    <3> QED BY <1>2, <3>1
  <2>2. ASSUME NEW m \in 1 .. n - 1, m \in T
        PROVE  m + 1 \in T
    <3>1. PICK c : IsRunningSum(c, w, m)
      BY <2>2
    <3> DEFINE d == [i \in 1 .. m + 1 |->
                       IF i = m + 1 THEN c[m] + w[m + 1] ELSE c[i]]
    <3>2. m \in 1 .. m /\ m + 1 \in 1 .. n /\ m \in Nat
      BY <2>2
    <3>3. c[m] + w[m + 1] \in Nat
      BY <3>1, <3>2 DEF IsRunningSum
    <3>4. \A i \in 1 .. m : c[i] \in Nat
      BY <3>1 DEF IsRunningSum
    <3>5. d \in [1 .. m + 1 -> Nat]
      BY <3>2, <3>3, <3>4
    <3>6. ASSUME NEW i \in 1 .. m + 1
          PROVE  d[i] = IF i = 1 THEN 0 ELSE d[i - 1] + w[i]
      <4>1. CASE i = m + 1
        <5>1. i # 1 /\ i - 1 = m /\ m \in 1 .. m + 1 /\ m # m + 1
          BY <3>2, <4>1
        <5>2. d[i] = c[m] + w[m + 1] /\ d[m] = c[m]
          BY <4>1, <5>1
        <5> HIDE DEF d
        <5> QED BY <4>1, <5>1, <5>2
      <4>2. CASE i # m + 1
        <5>1. i \in 1 .. m /\ (i # 1 => i - 1 \in 1 .. m)
          BY <3>2, <4>2
        <5>2. c[i] = IF i = 1 THEN 0 ELSE c[i - 1] + w[i]
          BY <3>1, <5>1 DEF IsRunningSum
        <5>3. d[i] = c[i] /\ (i # 1 => d[i - 1] = c[i - 1])
          BY <3>2, <4>2, <5>1
        <5> HIDE DEF d
        <5> QED BY <5>2, <5>3
      <4> QED BY <4>1, <4>2
    <3> HIDE DEF d
    <3>7. IsRunningSum(d, w, m + 1)
      BY <3>5, <3>6 DEF IsRunningSum
    <3> QED BY <3>2, <3>7
  <2> HIDE DEF T
  <2>3. \A i \in 1 .. n : i \in T
    BY <2>1, <2>2, ForwardInduction
  <2>4. n \in T
    BY <1>2, <2>3
  <2> QED BY <2>4 DEF T
<1> QED BY <1>1, <1>2
-----------------------------------------------------------------------------
(***************************************************************************)
(* What paths are made of.                                                 *)
(***************************************************************************)
LEMMA SequenceIsFunction ==
  ASSUME NEW S, NEW s \in Seq(S)
  PROVE  s \in [1 .. Len(s) -> S]
OBVIOUS

LEMMA PathFacts ==
  ASSUME NEW p \in Paths
  PROVE  /\ p \in Seq(Edges)
         /\ Len(p) \in 1 .. Cardinality(Edges)
         /\ Cardinality(Edges) \in Nat
         /\ p \in PathsOfLength(Len(p))
<1>1. Cardinality(Edges) \in Nat
  BY FS_CardinalityType, NetworkAssumption DEF NetworkAssumption
<1>2. PICK n \in 1 .. Cardinality(Edges) : p \in PathsOfLength(n)
  BY DEF Paths
<1>3. p \in [1 .. n -> Edges] /\ n \in Nat
  BY <1>1, <1>2 DEF PathsOfLength
<1>4. p \in Seq(Edges) /\ Len(p) = n
  BY <1>3
<1> QED BY <1>1, <1>2, <1>4

=============================================================================
