----------------------------- MODULE DataLemmas ------------------------------
(***************************************************************************)
(* Facts about numbers, functions and sequences that several proofs rest   *)
(* on: least and greatest members, climbing from 0 to a bound (which takes *)
(* the place of induction), functions that are iterated, and sequences     *)
(* that are put one after the other.                                       *)
(***************************************************************************)
EXTENDS Integers, SequencesExt, FiniteSetTheorems, SequenceTheorems, WellFoundedInduction, TLAPS

-----------------------------------------------------------------------------
(* Least and greatest numbers.                                             *)

(* The order of the naturals is well-founded.                              *)
LEMMA NatOrder == IsWellFoundedOn({ss \in Nat \X Nat : ss[1] < ss[2]}, Nat)
BY NatLessThanWellFounded DEF OpToRel

(* Every set of naturals that is not empty has a least member.             *)
LEMMA LeastExists ==
  ASSUME NEW S \in SUBSET Nat, S # {}
  PROVE  \E x \in S : \A y \in S : x <= y
<1> DEFINE R == {ss \in Nat \X Nat : ss[1] < ss[2]}
<1>1. IsWellFoundedOn(R, Nat)
  BY NatOrder
<1> HIDE DEF R
<1>2. PICK x \in S : \A y \in S : <<y, x>> \notin R
  BY <1>1, WFMin
<1>3. \A y \in S : ~(y < x)
  <2>1. \A y \in S : <<y, x>> \in Nat \X Nat
    OBVIOUS
  <2> QED
    BY <1>2, <2>1 DEF R
<1> QED
  BY <1>3

(* So Min is the least member.                                             *)
LEMMA MinIsLeast ==
  ASSUME NEW S \in SUBSET Nat, S # {}
  PROVE  Min(S) \in S /\ \A y \in S : Min(S) <= y
BY LeastExists DEF Min

(* Below a bound, Max is the greatest member.                              *)
LEMMA MaxIsGreatest ==
  ASSUME NEW S \in SUBSET Nat, S # {}, NEW b \in Nat, \A x \in S : x <= b
  PROVE  Max(S) \in S /\ \A y \in S : Max(S) >= y
<1> DEFINE T == {b - x : x \in S}
<1>1. T \in SUBSET Nat /\ T # {}
  <2>1. \A x \in S : b - x \in Nat
    OBVIOUS
  <2> QED
    BY <2>1
<1>2. PICK z \in T : \A y \in T : z <= y
  BY <1>1, LeastExists
<1>3. PICK m \in S : z = b - m
  BY <1>2
<1>4. \A y \in S : m >= y
  <2>1. SUFFICES ASSUME NEW y \in S PROVE m >= y
    OBVIOUS
  <2>2. z <= b - y
    BY <1>2
  <2> QED
    BY <1>3, <2>2
<1> QED
  BY <1>4 DEF Max

(* A set that holds the successor of each member below n, and 0, holds n.  *)
LEMMA Climb ==
  ASSUME NEW n \in Nat, NEW S, 0 \in S, \A m \in 0..(n - 1) : m \in S => m + 1 \in S
  PROVE  \A m \in 0..n : m \in S
<1> DEFINE T == {m \in 0..n : m \notin S}
<1>1. SUFFICES ASSUME T # {} PROVE FALSE
  OBVIOUS
<1>2. PICK m \in T : \A k \in T : m <= k
  <2>1. T \in SUBSET Nat
    OBVIOUS
  <2> QED
    BY <1>1, <2>1, LeastExists
<1>3. m \in 1..n /\ m - 1 \in 0..(n - 1) /\ m - 1 \notin T
  BY <1>2
<1> QED
  BY <1>2, <1>3

-----------------------------------------------------------------------------
(* Recursive functions exist.                                              *)

\* F can be applied N times, beginning with b.
Iterates(V, b, F, N) ==
  \E g \in [0..N -> V] : g[0] = b /\ \A n \in 1..N : g[n] = F[g[n - 1]]

(* A function can be iterated.                                             *)
LEMMA Iteration ==
  ASSUME NEW V, NEW b \in V, NEW F \in [V -> V], NEW N \in Nat
  PROVE  Iterates(V, b, F, N)
<1> DEFINE Begins(n, g) == g[0] = b /\ \A k \in 1..n : g[k] = F[g[k - 1]]
           S == {n \in Nat : \E g \in [0..n -> V] : Begins(n, g)}
<1>1. 0 \in S
  <2>1. [k \in 0..0 |-> b] \in [0..0 -> V] /\ Begins(0, [k \in 0..0 |-> b])
    OBVIOUS
  <2> QED
    BY <2>1
<1>2. ASSUME NEW n \in 0..(N - 1), n \in S PROVE n + 1 \in S
  <2>1. PICK g \in [0..n -> V] : Begins(n, g)
    BY <1>2
  <2> DEFINE h == [k \in 0..(n + 1) |-> IF k <= n THEN g[k] ELSE F[g[n]]]
  <2>2. h \in [0..(n + 1) -> V]
    OBVIOUS
  <2>3. h[0] = b
    BY <2>1
  <2>4. ASSUME NEW k \in 1..(n + 1) PROVE h[k] = F[h[k - 1]]
    <3>1. CASE k <= n
      <4>1. k \in 1..n /\ h[k] = g[k] /\ h[k - 1] = g[k - 1]
        BY <3>1
      <4> QED
        BY <4>1, <2>1
    <3>2. CASE k = n + 1
      <4>1. h[k] = F[g[n]] /\ h[k - 1] = g[n]
        BY <3>2
      <4> QED
        BY <4>1
    <3> QED
      BY <3>1, <3>2
  <2> HIDE DEF h
  <2> QED
    BY <2>2, <2>3, <2>4
<1> HIDE DEF S
<1>3. N \in S
  BY <1>1, <1>2, Climb
<1> QED
  BY <1>3 DEF S, Iterates

-----------------------------------------------------------------------------
(* Sequences of sequences.                                                 *)

(* Sequences put one after the other are a sequence.                       *)
LEMMA FlattenSeqType ==
  ASSUME NEW T, NEW seqs \in Seq(Seq(T))
  PROVE  FlattenSeq(seqs) \in Seq(T)
<1> DEFINE N == Len(seqs)
           Step(g, i) == IF i = 1 THEN seqs[i] ELSE g[i - 1] \o seqs[i]
           Solves(n, g) == \A i \in 1..n : g[i] = Step(g, i)
           S == {n \in Nat : \E g \in [1..n -> Seq(T)] : Solves(n, g)}
<1>1. N \in Nat /\ \A i \in 1..N : seqs[i] \in Seq(T)
  BY LenProperties, ElementOfSeq
<1>2. CASE N = 0
  <2>1. FlattenSeq(seqs) = seqs /\ seqs = << >>
    BY <1>2, EmptySeq DEF FlattenSeq
  <2> QED
    BY <2>1
<1>3. CASE N # 0
  <2>1. 0 \in S
    <3>1. [i \in 1..0 |-> << >>] \in [1..0 -> Seq(T)] /\ Solves(0, [i \in 1..0 |-> << >>])
      OBVIOUS
    <3> QED
      BY <3>1
  <2>2. ASSUME NEW n \in 0..(N - 1), n \in S PROVE n + 1 \in S
    <3>1. PICK g \in [1..n -> Seq(T)] : Solves(n, g)
      BY <2>2
    <3> DEFINE h == [i \in 1..(n + 1) |-> IF i <= n THEN g[i] ELSE Step(g, n + 1)]
    <3>2. Step(g, n + 1) \in Seq(T)
      <4>1. n + 1 \in 1..N /\ seqs[n + 1] \in Seq(T)
        BY <1>1
      <4>2. n + 1 # 1 => g[(n + 1) - 1] \in Seq(T)
        BY <3>1
      <4> QED
        BY <4>1, <4>2, ConcatProperties
    <3>3. h \in [1..(n + 1) -> Seq(T)]
      BY <3>2
    <3>4. ASSUME NEW i \in 1..(n + 1) PROVE h[i] = Step(h, i)
      <4>1. i # 1 => i - 1 \in 1..n /\ h[i - 1] = g[i - 1]
        OBVIOUS
      <4>2. Step(h, i) = Step(g, i)
        BY <4>1
      <4>3. h[i] = Step(g, i)
        <5>1. CASE i <= n
          <6>1. i \in 1..n /\ h[i] = g[i]
            BY <5>1
          <6> QED
            BY <3>1, <6>1
        <5>2. CASE i = n + 1
          <6> HIDE DEF Step
          <6> QED
            BY <5>2
        <5> QED
          BY <5>1, <5>2
      <4> QED
        BY <4>2, <4>3
    <3>5. n + 1 \in Nat
      BY <1>1
    <3> HIDE DEF h, Step
    <3> QED
      BY <3>3, <3>4, <3>5
  <2>3. N \in S
    <3> HIDE DEF S
    <3>1. \A m \in 0..N : m \in S
      BY <1>1, <2>1, <2>2, Climb
    <3> QED
      BY <1>1, <3>1
  <2>4. PICK g \in [1..N -> Seq(T)] : Solves(N, g)
    BY <2>3
  <2> DEFINE Is(f) == f = [i \in 1..Len(seqs) |-> IF i = 1 THEN seqs[i] ELSE f[i - 1] \o seqs[i]]
             flatten == CHOOSE f : Is(f)
  <2>5. Is(g)
    BY <2>4
  <2>6. Is(flatten)
    <3> HIDE DEF Is
    <3> QED
      BY <2>5
  <2>7. FlattenSeq(seqs) = flatten[N]
    BY <1>3 DEF FlattenSeq
  <2> HIDE DEF flatten
  <2>8. \A i \in 1..N : flatten[i] = Step(flatten, i)
    BY <2>6
  <2> DEFINE R == {i \in 0..N : i # 0 => flatten[i] \in Seq(T)}
  <2>9. 0 \in R
    BY <1>1
  <2>10. ASSUME NEW i \in 0..(N - 1), i \in R PROVE i + 1 \in R
    <3>1. i + 1 \in 1..N /\ (i + 1) - 1 = i /\ seqs[i + 1] \in Seq(T)
      BY <1>1
    <3>2. CASE i = 0
      BY <2>8, <3>1, <3>2
    <3>3. CASE i # 0
      <4>1. flatten[i + 1] = flatten[i] \o seqs[i + 1]
        <5>1. i + 1 # 1
          BY <3>3
        <5> QED
          BY <2>8, <3>1, <5>1
      <4>2. flatten[i] \in Seq(T)
        BY <2>10, <3>3
      <4>3. flatten[i + 1] \in Seq(T)
        BY <3>1, <4>1, <4>2, ConcatProperties
      <4> QED
        BY <3>1, <4>3
    <3> QED
      BY <3>2, <3>3
  <2>11. N \in R
    <3> HIDE DEF R
    <3>1. \A m \in 0..N : m \in R
      BY <1>1, <2>9, <2>10, Climb
    <3> QED
      BY <1>1, <3>1
  <2> QED
    BY <1>3, <2>7, <2>11
<1> QED
  BY <1>2, <1>3

(* So is the sequence that a function on 1..n becomes.                     *)
LEMMA FlattenOver ==
  ASSUME NEW T, NEW D, NEW n \in Nat, D = 1..n, NEW s \in [D -> Seq(T)]
  PROVE  FlattenSeq(s) \in Seq(T)
<1>1. s \in Seq(Seq(T))
  OBVIOUS
<1> QED
  BY <1>1, FlattenSeqType

-----------------------------------------------------------------------------
(* Lists of the members of a set.                                          *)

(* A list of a set holds each member once.                                 *)
LEMMA SeqOfSet ==
  ASSUME NEW S, IsFiniteSet(S), NEW list \in SetToSeqs(S)
  PROVE  /\ list \in Seq(S) /\ Len(list) = Cardinality(S) /\ Cardinality(S) \in Nat
         /\ \A m, n \in DOMAIN list : m # n => list[m] # list[n]
         /\ ToSet(list) = S
<1> DEFINE D == 1..Cardinality(S)
<1>1. Cardinality(S) \in Nat
  BY FS_CardinalityType
<1>2. list \in [D -> S] /\ \A m, n \in D : m # n => list[m] # list[n]
  BY DEF SetToSeqs
<1>3. list \in Seq(S) /\ Len(list) = Cardinality(S) /\ DOMAIN list = D
  BY <1>1, <1>2
<1>4. ToSet(list) = S
  <2>1. list \in Injection(D, S)
    BY <1>2 DEF Injection, IsInjective
  <2>2. IsFiniteSet(D) /\ Cardinality(D) = Cardinality(S)
    BY <1>1, FS_Interval
  <2>3. list \in Surjection(D, S)
    BY <2>1, <2>2, FS_Injection
  <2> QED
    BY <1>3, <2>3 DEF Surjection, ToSet
<1> QED
  BY <1>1, <1>2, <1>3, <1>4

=============================================================================
