--------------------------- MODULE ExtractionProofs ---------------------------
(***************************************************************************)
(* Proofs about Extraction, for every set of nodes and every limit.        *)
(***************************************************************************)
EXTENDS Extraction, DataLemmas

-----------------------------------------------------------------------------
(* Nodes in their order.                                                   *)

Ascending(list) == \A m, n \in DOMAIN list : m < n => list[m] < list[n]

(* A set of numbers up to a bound is finite.                               *)
LEMMA SortableIsFinite ==
  ASSUME NEW N \in Nat, NEW S \in SUBSET (1..N)
  PROVE  IsFiniteSet(S)
<1>1. IsFiniteSet(1..N)
  BY FS_Interval
<1> QED
  BY <1>1, FS_Subset

(* A set of numbers up to a bound can be sorted.                           *)
LEMMA SortedExists ==
  ASSUME NEW N \in Nat, NEW S \in SUBSET (1..N)
  PROVE  \E list \in SetToSeqs(S) : Ascending(list)
<1> DEFINE Below(n) == {x \in S : x <= n}
           Sortable(n) == \E list \in SetToSeqs(Below(n)) : Ascending(list)
           T == {n \in 0..N : Sortable(n)}
<1>0. \A x \in S : x \in Nat /\ 1 <= x /\ x <= N
  OBVIOUS
<1>1. 0 \in T
  <2>1. Below(0) = {}
    <3>1. \A x \in S : ~(x <= 0)
      BY <1>0
    <3> QED
      BY <3>1
  <2>2. Cardinality(Below(0)) = 0
    BY <2>1, FS_EmptySet
  <2>3. << >> \in SetToSeqs(Below(0))
    <3>1. 1..Cardinality(Below(0)) = {}
      BY <2>2
    <3>2. << >> \in [1..Cardinality(Below(0)) -> Below(0)]
      BY <3>1
    <3> HIDE DEF Below
    <3> QED
      BY <3>1, <3>2 DEF SetToSeqs
  <2>4. Ascending(<< >>)
    BY DEF Ascending
  <2>5. Sortable(0)
    <3> HIDE DEF Below
    <3> QED
      BY <2>3, <2>4
  <2> HIDE DEF Sortable
  <2> QED
    BY <2>5
<1>2. ASSUME NEW n \in 0..(N - 1), n \in T PROVE n + 1 \in T
  <2>1. PICK list \in SetToSeqs(Below(n)) : Ascending(list)
    BY <1>2
  <2>2. IsFiniteSet(Below(n))
    <3>1. Below(n) \in SUBSET S /\ IsFiniteSet(S)
      BY SortableIsFinite
    <3> QED
      BY <3>1, FS_Subset
  <2>3. CASE n + 1 \notin S
    <3>1. \A x \in S : x <= n + 1 <=> x <= n
      BY <1>0, <2>3
    <3>2. Below(n + 1) = Below(n)
      BY <3>1
    <3> QED
      BY <2>1, <3>2
  <2>4. CASE n + 1 \in S
    <3> DEFINE k == Cardinality(Below(n))
               longer == [m \in 1..(k + 1) |-> IF m = k + 1 THEN n + 1 ELSE list[m]]
    <3>1. Below(n + 1) = Below(n) \cup {n + 1} /\ n + 1 \notin Below(n)
      <4>1. \A x \in S : x <= n + 1 <=> x <= n \/ x = n + 1
        BY <1>0
      <4>2. ~(n + 1 <= n) /\ n + 1 <= n + 1
        OBVIOUS
      <4> QED
        BY <2>4, <4>1, <4>2
    <3>2. k \in Nat /\ Cardinality(Below(n + 1)) = k + 1
      BY <2>2, <3>1, FS_AddElement, FS_CardinalityType
    <3>3. /\ list \in [1..k -> Below(n)] /\ \A i, j \in 1..k : i # j => list[i] # list[j]
      BY DEF SetToSeqs
    <3>4. \A m \in 1..k : list[m] \in Nat /\ list[m] < n + 1
      <4>1. \A x \in Below(n) : x \in Nat /\ x < n + 1
        BY <1>0
      <4> HIDE DEF Below, k
      <4> QED
        BY <3>3, <4>1
    <3> HIDE DEF Below, k
    <3>5. longer \in [1..(k + 1) -> Below(n + 1)]
      BY <3>1, <3>2, <3>3
    <3>6. \A i, j \in 1..(k + 1) : i # j => longer[i] # longer[j]
      BY <3>2, <3>3, <3>4
    <3>7. longer \in SetToSeqs(Below(n + 1))
      BY <3>2, <3>5, <3>6 DEF SetToSeqs
    <3>8. Ascending(longer)
      BY <2>1, <3>2, <3>3, <3>4 DEF Ascending
    <3> QED
      BY <3>7, <3>8
  <2>5. Sortable(n + 1) /\ n + 1 \in 0..N
    BY <2>3, <2>4
  <2> HIDE DEF Sortable
  <2> QED
    BY <2>5
<1>3. N \in T
  <2> HIDE DEF T
  <2> QED
    BY <1>1, <1>2, Climb
<1>4. Below(N) = S
  BY <1>0
<1> QED
  BY <1>3, <1>4

(* What Sorted makes of a set: its elements, each once, ascending.         *)
LEMMA SortedFacts ==
  ASSUME NEW N \in Nat, NEW S \in SUBSET (1..N)
  PROVE  /\ Sorted(S) \in Seq(S) /\ ToSet(Sorted(S)) = S
         /\ \A m, n \in DOMAIN Sorted(S) : m # n => Sorted(S)[m] # Sorted(S)[n]
<1>1. IsFiniteSet(S)
  BY SortableIsFinite
<1>2. Sorted(S) \in SetToSeqs(S)
  BY SortedExists DEF Sorted, Ascending
<1> QED
  BY <1>1, <1>2, SeqOfSet

-----------------------------------------------------------------------------
(* Stacks: sequences of entries, no two of the same node.                  *)

Distinct(s) == \A m, n \in DOMAIN s : m # n => s[m].node # s[n].node
NodesOf(s) == {x.node : x \in ToSet(s)}

IsStack(s, T) == s \in Seq(T) /\ Distinct(s)

(* One stack on another.                                                   *)
LEMMA Joined ==
  ASSUME NEW T, NEW s, IsStack(s, T), NEW t, IsStack(t, T), NodesOf(s) \cap NodesOf(t) = {}
  PROVE  /\ IsStack(s \o t, T) /\ ToSet(s \o t) = ToSet(s) \cup ToSet(t)
         /\ NodesOf(s \o t) = NodesOf(s) \cup NodesOf(t)
<1>1. s \in Seq(T) /\ t \in Seq(T)
  BY DEF IsStack
<1>2. PICK k, l \in Nat : /\ k = Len(s) /\ l = Len(t)
                          /\ DOMAIN s = 1..k /\ DOMAIN t = 1..l
  BY <1>1, LenProperties
<1>3. /\ s \o t \in Seq(T) /\ DOMAIN (s \o t) = 1..(k + l)
      /\ \A i \in 1..(k + l) : (s \o t)[i] = IF i <= k THEN s[i] ELSE t[i - k]
  <2>1. Len(s \o t) = k + l /\ s \o t \in Seq(T)
    BY <1>1, <1>2, ConcatProperties
  <2> QED
    BY <1>1, <1>2, <2>1, ConcatProperties, LenProperties
<1> DEFINE j == s \o t
<1> HIDE DEF j
<1>4. \A i \in 1..k : i \in 1..(k + l) /\ j[i] = s[i]
  BY <1>2, <1>3 DEF j
<1>5. \A i \in 1..l : i + k \in 1..(k + l) /\ j[i + k] = t[i]
  <2>1. \A i \in 1..l : i + k \in 1..(k + l) /\ ~(i + k <= k) /\ (i + k) - k = i
    BY <1>2
  <2> QED
    BY <1>3, <2>1 DEF j
<1>6. \A i \in 1..(k + l) : i \in 1..k \/ (i - k \in 1..l /\ i = (i - k) + k)
  BY <1>2
<1>7. ToSet(j) = ToSet(s) \cup ToSet(t)
  <2>1. ASSUME NEW x \in ToSet(j) PROVE x \in ToSet(s) \cup ToSet(t)
    <3>1. PICK i \in 1..(k + l) : x = j[i]
      BY <1>3 DEF ToSet, j
    <3>2. CASE i \in 1..k
      BY <1>2, <1>4, <3>1, <3>2 DEF ToSet
    <3>3. CASE i - k \in 1..l /\ i = (i - k) + k
      <4>1. x = t[i - k]
        BY <1>5, <3>1, <3>3
      <4> QED
        BY <1>2, <3>3, <4>1 DEF ToSet
    <3> QED
      BY <1>6, <3>2, <3>3
  <2>2. ASSUME NEW x \in ToSet(s) PROVE x \in ToSet(j)
    BY <1>2, <1>3, <1>4 DEF ToSet, j
  <2>3. ASSUME NEW x \in ToSet(t) PROVE x \in ToSet(j)
    <3>1. PICK i \in 1..l : x = t[i]
      BY <1>2 DEF ToSet
    <3> QED
      BY <1>3, <1>5, <3>1 DEF ToSet, j
  <2> QED
    BY <2>1, <2>2, <2>3
<1>8. Distinct(j)
  <2> SUFFICES ASSUME NEW m \in 1..(k + l), NEW n \in 1..(k + l), m < n
               PROVE  j[m].node # j[n].node
    <3>1. DOMAIN j = 1..(k + l)
      BY <1>3 DEF j
    <3>2. \A m, n \in 1..(k + l) : m # n => m < n \/ n < m
      BY <1>2
    <3> QED
      BY <3>1, <3>2 DEF Distinct
  <2>1. CASE n \in 1..k
    <3>1. m \in 1..k
      BY <1>2, <2>1
    <3>2. m # n
      BY <1>2
    <3> QED
      BY <1>2, <1>4, <2>1, <3>1, <3>2 DEF IsStack, Distinct
  <2>2. CASE m \in 1..k /\ n - k \in 1..l /\ n = (n - k) + k
    <3>1. j[m] \in ToSet(s) /\ j[n] \in ToSet(t)
      BY <1>2, <1>4, <1>5, <2>2 DEF ToSet
    <3> QED
      BY <3>1 DEF NodesOf
  <2>3. CASE m - k \in 1..l /\ m = (m - k) + k
    <3>1. n - k \in 1..l /\ n = (n - k) + k /\ n - k # m - k
      BY <1>2, <2>3
    <3>2. j[m] = t[m - k] /\ j[n] = t[n - k]
      BY <1>5, <2>3, <3>1
    <3> QED
      BY <1>2, <2>3, <3>1, <3>2 DEF IsStack, Distinct
  <2> QED
    BY <1>6, <2>1, <2>2, <2>3
<1>9. NodesOf(j) = NodesOf(s) \cup NodesOf(t)
  BY <1>7 DEF NodesOf
<1> QED
  BY <1>3, <1>7, <1>8, <1>9 DEF IsStack, j

(* A stack the other way round.                                            *)
LEMMA Reversed ==
  ASSUME NEW T, NEW s, IsStack(s, T)
  PROVE  IsStack(Reverse(s), T) /\ ToSet(Reverse(s)) = ToSet(s) /\ NodesOf(Reverse(s)) = NodesOf(s)
<1>1. s \in Seq(T)
  BY DEF IsStack
<1>2. PICK k \in Nat : k = Len(s) /\ DOMAIN s = 1..k /\ \A i \in 1..k : s[i] \in T
  BY <1>1, LenProperties
<1> DEFINE r == Reverse(s)
<1>3. r = [i \in 1..k |-> s[(k - i) + 1]]
  BY <1>2 DEF Reverse
<1> HIDE DEF r
<1>4. \A i \in 1..k : (k - i) + 1 \in 1..k /\ (k - ((k - i) + 1)) + 1 = i
  BY <1>2
<1>5. DOMAIN r = 1..k /\ \A i \in 1..k : r[i] = s[(k - i) + 1]
  BY <1>3
<1>6. r \in Seq(T)
  <2>1. \A i \in 1..k : s[(k - i) + 1] \in T
    BY <1>2, <1>4
  <2> QED
    BY <1>2, <1>3, <2>1
<1>7. ToSet(r) = ToSet(s)
  <2>1. ASSUME NEW x \in ToSet(r) PROVE x \in ToSet(s)
    <3>1. PICK i \in 1..k : x = r[i]
      BY <1>5 DEF ToSet
    <3> QED
      BY <1>2, <1>4, <1>5, <3>1 DEF ToSet
  <2>2. ASSUME NEW x \in ToSet(s) PROVE x \in ToSet(r)
    <3>1. PICK i \in 1..k : x = s[i]
      BY <1>2 DEF ToSet
    <3>2. x = r[(k - i) + 1]
      BY <1>4, <1>5, <3>1
    <3> QED
      BY <1>4, <1>5, <3>1, <3>2 DEF ToSet
  <2> QED
    BY <2>1, <2>2
<1>8. Distinct(r)
  <2> SUFFICES ASSUME NEW m \in 1..k, NEW n \in 1..k, m # n PROVE r[m].node # r[n].node
    BY <1>5 DEF Distinct
  <2> DEFINE a == (k - m) + 1
             b == (k - n) + 1
  <2>1. a \in 1..k /\ b \in 1..k /\ a # b
    BY <1>2
  <2>2. r[m] = s[a] /\ r[n] = s[b]
    BY <1>5
  <2> HIDE DEF a, b
  <2> QED
    BY <1>2, <2>1, <2>2 DEF IsStack, Distinct
<1> QED
  BY <1>6, <1>7, <1>8 DEF IsStack, NodesOf, r

(* What is left when the top is taken.                                     *)
LEMMA Taken ==
  ASSUME NEW T, IsStack(stack, T), stack # << >>
  PROVE  /\ Top \in T /\ Top \in ToSet(stack) /\ IsStack(Popped, T)
         /\ ToSet(Popped) = ToSet(stack) \ {Top}
         /\ NodesOf(Popped) = NodesOf(stack) \ {Top.node}
         /\ \A x \in ToSet(Popped) : x.node # Top.node
<1>1. stack \in Seq(T)
  BY DEF IsStack
<1>2. PICK k \in Nat : /\ Len(stack) = k + 1 /\ DOMAIN stack = 1..(k + 1)
                       /\ \A i \in 1..(k + 1) : stack[i] \in T
  <2>1. Len(stack) \in Nat /\ Len(stack) # 0
    BY <1>1, LenProperties, EmptySeq
  <2>2. Len(stack) - 1 \in Nat /\ Len(stack) = (Len(stack) - 1) + 1
    BY <2>1
  <2> QED
    BY <1>1, <2>2, LenProperties
<1>3. Top = stack[k + 1] /\ k + 1 \in 1..(k + 1) /\ \A i \in 1..k : i \in 1..(k + 1) /\ i # k + 1
  BY <1>2 DEF Top, Last
<1>4. \A i \in 1..(k + 1) : i \in 1..k \/ i = k + 1
  BY <1>2
<1> DEFINE p == Popped
<1>5. p \in Seq(T) /\ DOMAIN p = 1..k /\ \A i \in 1..k : p[i] = stack[i]
  <2>1. p = SubSeq(stack, 1, k)
    BY <1>2 DEF Popped, Front
  <2>2. p = [i \in 1..k |-> stack[i]]
    <3>1. \A i \in 1..k : stack[i] \in T
      BY <1>2, <1>3
    <3> QED
      BY <1>1, <1>2, <2>1, <3>1, SubSeqProperties
  <2> HIDE DEF p
  <2>3. \A i \in 1..k : stack[i] \in T
    BY <1>2, <1>3
  <2> QED
    BY <1>2, <2>2, <2>3
<1> HIDE DEF p
<1>6. \A i \in 1..k : p[i].node # Top.node
  BY <1>2, <1>3, <1>5 DEF IsStack, Distinct
<1>7. ToSet(p) = ToSet(stack) \ {Top}
  <2>1. ASSUME NEW x \in ToSet(p) PROVE x \in ToSet(stack) /\ x # Top
    BY <1>2, <1>3, <1>5, <1>6 DEF ToSet
  <2>2. ASSUME NEW x \in ToSet(stack), x # Top PROVE x \in ToSet(p)
    <3>1. PICK i \in 1..(k + 1) : x = stack[i]
      BY <1>2 DEF ToSet
    <3>2. i \in 1..k
      BY <1>3, <1>4, <2>2, <3>1
    <3> QED
      BY <1>5, <3>1, <3>2 DEF ToSet
  <2> QED
    BY <2>1, <2>2
<1>8. \A x \in ToSet(p) : x.node # Top.node
  BY <1>5, <1>6 DEF ToSet
<1>9. Distinct(p)
  BY <1>2, <1>3, <1>5 DEF IsStack, Distinct
<1>10. Top \in T /\ Top \in ToSet(stack)
  BY <1>2, <1>3 DEF ToSet
<1>11. NodesOf(p) = NodesOf(stack) \ {Top.node}
  BY <1>7, <1>8 DEF NodesOf
<1> QED
  BY <1>5, <1>7, <1>8, <1>9, <1>10, <1>11 DEF IsStack, p

(* The entries of some nodes, laid down in reverse order.                  *)
LEMMA LaidDown ==
  ASSUME NEW N \in Nat, NEW S \in SUBSET (1..N), NEW T, NEW g \in [S -> T],
         \A j \in S : g[j].node = j
  PROVE  LET list == Sorted(S)
             s == Reverse([n \in DOMAIN list |-> g[list[n]]])
         IN IsStack(s, T) /\ ToSet(s) = {g[j] : j \in S} /\ NodesOf(s) = S
<1> DEFINE list == Sorted(S)
           s == [n \in DOMAIN list |-> g[list[n]]]
<1>1. /\ list \in Seq(S) /\ ToSet(list) = S
      /\ \A m, n \in DOMAIN list : m # n => list[m] # list[n]
  BY SortedFacts
<1> HIDE DEF list
<1>2. PICK k \in Nat : DOMAIN list = 1..k /\ \A n \in 1..k : list[n] \in S
  BY <1>1, LenProperties
<1>3. DOMAIN s = 1..k /\ \A n \in 1..k : s[n] = g[list[n]] /\ s[n].node = list[n] /\ s[n] \in T
  BY <1>2
<1>4. s \in Seq(T)
  BY <1>2, <1>3
<1> HIDE DEF s
<1>5. IsStack(s, T)
  BY <1>1, <1>2, <1>3, <1>4 DEF IsStack, Distinct
<1>6. ToSet(s) = {g[j] : j \in S}
  <2>1. ASSUME NEW x \in ToSet(s) PROVE \E j \in S : x = g[j]
    <3>1. PICK n \in 1..k : x = s[n]
      BY <1>3 DEF ToSet
    <3> QED
      BY <1>2, <1>3, <3>1
  <2>2. \A j \in S : g[j] \in ToSet(s)
    BY <1>1, <1>2, <1>3 DEF ToSet
  <2> QED
    BY <2>1, <2>2
<1>7. NodesOf(s) = S
  <2>1. NodesOf(s) = {x.node : x \in {g[j] : j \in S}}
    BY <1>6 DEF NodesOf
  <2>2. \A j \in S : g[j].node \in {x.node : x \in {g[i] : i \in S}}
    OBVIOUS
  <2>3. \A n \in {x.node : x \in {g[i] : i \in S}} : \E j \in S : n = g[j].node
    OBVIOUS
  <2> QED
    BY <2>1, <2>2, <2>3
<1>8. IsStack(Reverse(s), T) /\ ToSet(Reverse(s)) = {g[j] : j \in S} /\ NodesOf(Reverse(s)) = S
  BY <1>5, <1>6, <1>7, Reversed
<1> QED
  BY <1>8 DEF s, list

-----------------------------------------------------------------------------
(* Functions on the nodes that go from a node to the one above it.         *)

Climbs(N, V, base, up, G) ==
  /\ N \in Nat /\ base \in V /\ G \in [(1..N) \X V -> V]
  /\ up \in [1..N -> Nat] /\ \A i \in 1..N : up[i] < i
Follows(f, N, V, base, up, G) ==
  f \in [0..N -> V] /\ f[0] = base /\ \A i \in 1..N : f[i] = G[<<i, f[up[i]]>>]

(* Such a function exists.                                                 *)
LEMMA FromAbove ==
  ASSUME NEW N, NEW V, NEW base, NEW up, NEW G, Climbs(N, V, base, up, G)
  PROVE  \E f : Follows(f, N, V, base, up, G)
<1>0. /\ N \in Nat /\ base \in V /\ G \in [(1..N) \X V -> V]
      /\ up \in [1..N -> Nat] /\ \A i \in 1..N : up[i] < i
  BY DEF Climbs
<1> DEFINE Solves(n, g) == g[0] = base /\ \A i \in 1..n : g[i] = G[<<i, g[up[i]]>>]
           Solved(n) == \E g \in [0..n -> V] : Solves(n, g)
           S == {n \in 0..N : Solved(n)}
<1>1. 0 \in S
  <2> DEFINE g == [n \in 0..0 |-> base]
  <2>1. g \in [0..0 -> V] /\ g[0] = base /\ 1..0 = {}
    BY <1>0
  <2> HIDE DEF g
  <2>2. Solved(0)
    BY <2>1
  <2> HIDE DEF Solved
  <2> QED
    BY <1>0, <2>2
<1>2. ASSUME NEW n \in 0..(N - 1), n \in S PROVE n + 1 \in S
  <2>1. PICK g \in [0..n -> V] : Solves(n, g)
    BY <1>2
  <2>2. n + 1 \in 1..N /\ up[n + 1] \in 0..n /\ n \in Nat
    BY <1>0
  <2> DEFINE h == [m \in 0..(n + 1) |-> IF m = n + 1 THEN G[<<n + 1, g[up[n + 1]]>>] ELSE g[m]]
  <2>3. \A m \in 0..n : m \in 0..(n + 1) /\ m # n + 1 /\ h[m] = g[m]
    BY <2>2
  <2>4. G[<<n + 1, g[up[n + 1]]>>] \in V
    BY <1>0, <2>1, <2>2
  <2>5. h \in [0..(n + 1) -> V]
    <3>1. \A m \in 0..(n + 1) : m = n + 1 \/ m \in 0..n
      BY <2>2
    <3> QED
      BY <2>1, <2>4, <3>1
  <2>6. h[n + 1] = G[<<n + 1, g[up[n + 1]]>>]
    BY <2>2
  <2> HIDE DEF h
  <2>7. ASSUME NEW i \in 1..(n + 1) PROVE h[i] = G[<<i, h[up[i]]>>]
    <3>1. CASE i = n + 1
      BY <2>2, <2>3, <2>6, <3>1
    <3>2. CASE i \in 1..n
      <4>1. i \in 1..N /\ i \in 0..n /\ up[i] \in 0..n
        BY <1>0, <2>2, <3>2
      <4> QED
        BY <2>1, <2>3, <3>2, <4>1
    <3> QED
      BY <2>2, <3>1, <3>2
  <2>8. h[0] = base
    BY <2>1, <2>2, <2>3
  <2>9. Solved(n + 1)
    BY <2>5, <2>7, <2>8
  <2> HIDE DEF Solved
  <2> QED
    BY <1>0, <2>2, <2>9
<1>3. \A m \in 0..N : m \in S
  <2> HIDE DEF S
  <2> QED
    BY <1>0, <1>1, <1>2, Climb
<1>4. N \in S
  <2>1. N \in 0..N
    BY <1>0
  <2> HIDE DEF S
  <2> QED
    BY <1>3, <2>1
<1>5. Solved(N)
  <2> HIDE DEF Solved
  <2> QED
    BY <1>4
<1> QED
  BY <1>5 DEF Follows

-----------------------------------------------------------------------------
(* Python: the tree and its scopes.                                        *)

PyNames == {form.name : form \in PyForms}
PyNode == [kind : PyStatements, name : PyNames, up : Nat,
           field : {"body", "args", "header", "decorator"}]

\* A node is below an earlier one, and stands in a place that the grammar
\* allows; a header is one call.
PyTree ==
  /\ tree \in Seq(PyNode)
  /\ \A i \in Nodes :
       /\ Up(i) < i /\ Kind(Up(i)) # "import"
       /\ IsDefinition(i) => tree[i].name # ""
       /\ InHeader(i) => Kind(i) = "call"
       /\ Up(i) # 0 => ~InHeader(Up(i))
       /\ tree[i].field # "body" => Up(i) # 0 /\ IsDefinition(Up(i))

(* The nodes of a tree are numbered, a parent before its children.         *)
LEMMA PyNodes ==
  ASSUME PyTree
  PROVE  /\ Len(tree) \in Nat /\ Nodes = 1..Len(tree)
         /\ \A i \in Nodes : /\ Up(i) \in Nat /\ Up(i) < i /\ (Up(i) # 0 => Up(i) \in Nodes)
                             /\ i # 0 /\ Kind(i) = tree[i].kind /\ Kind(i) \in PyStatements
                             /\ tree[i].field \in {"body", "args", "header", "decorator"}
                             /\ tree[i].name \in PyNames
<1>1. Len(tree) \in Nat /\ Nodes = 1..Len(tree)
  BY LenProperties DEF PyTree, Nodes
<1>2. \A i \in Nodes : tree[i] \in PyNode
  BY <1>1, ElementOfSeq DEF PyTree
<1>3. \A i \in Nodes : Up(i) \in Nat /\ Up(i) < i
  BY <1>2 DEF PyTree, PyNode, Up
<1> QED
  BY <1>1, <1>2, <1>3 DEF PyNode, Kind

\* One step of the scope of a node.
PyScopeStep(i, above) ==
  IF Up(i) = 0 THEN 0
  ELSE IF IsDefinition(Up(i)) /\ tree[i].field = "body" THEN Up(i) ELSE above

(* The scope of a node, from that of the node above it.                    *)
LEMMA PyScopeUnfolds ==
  ASSUME PyTree
  PROVE  PyScope[0] = 0 /\ \A i \in Nodes : PyScope[i] = PyScopeStep(i, PyScope[Up(i)])
<1> DEFINE N == Len(tree)
           F(f) == [i \in Nodes \cup {0} |->
                     IF i = 0 \/ Up(i) = 0 THEN 0
                     ELSE IF IsDefinition(Up(i)) /\ tree[i].field = "body" THEN Up(i)
                          ELSE f[Up(i)]]
           up == [i \in 1..N |-> Up(i)]
           G == [p \in (1..N) \X Nat |-> PyScopeStep(p[1], p[2])]
<1>1. N \in Nat /\ Nodes = 1..N /\ \A i \in 1..N : Up(i) \in Nat /\ Up(i) < i
  BY PyNodes
<1>2. up \in [1..N -> Nat] /\ \A i \in 1..N : up[i] = Up(i)
  BY <1>1
<1>3. /\ G \in [(1..N) \X Nat -> Nat]
      /\ \A i \in 1..N, n \in Nat : G[<<i, n>>] = PyScopeStep(i, n)
  BY <1>1 DEF PyScopeStep
<1> HIDE DEF N, up, G
<1>4. PICK f \in [0..N -> Nat] : f[0] = 0 /\ \A i \in 1..N : f[i] = G[<<i, f[up[i]]>>]
  <2>1. \A i \in 1..N : up[i] < i
    BY <1>1, <1>2
  <2>2. 0 \in Nat
    OBVIOUS
  <2>3. \E f \in [0..N -> Nat] : f[0] = 0 /\ \A i \in 1..N : f[i] = G[<<i, f[up[i]]>>]
    <3>1. Climbs(N, Nat, 0, up, G)
      BY <1>1, <1>2, <1>3, <2>1, <2>2 DEF Climbs
    <3>2. \E f : Follows(f, N, Nat, 0, up, G)
      BY <3>1, FromAbove
    <3> QED
      BY <3>2 DEF Follows
  <2> QED
    BY <2>3
<1>5. f = F(f)
  <2>1. Nodes \cup {0} = 0..N
    BY <1>1
  <2>2. ASSUME NEW i \in 1..N PROVE f[i] = PyScopeStep(i, f[Up(i)])
    <3>1. Up(i) \in 0..N
      BY <1>1
    <3>2. f[Up(i)] \in Nat
      BY <1>4, <3>1
    <3>3. f[i] = G[<<i, f[Up(i)]>>]
      BY <1>2, <1>4
    <3> QED
      BY <1>3, <3>2, <3>3
  <2>3. \A i \in 0..N : i = 0 \/ i \in 1..N
    BY <1>1
  <2>4. \A i \in 0..N : f[i] = F(f)[i]
    BY <1>4, <2>1, <2>2, <2>3 DEF PyScopeStep
  <2>5. F(f) = [i \in 0..N |-> F(f)[i]]
    BY <2>1
  <2>6. f = [i \in 0..N |-> f[i]]
    BY <1>4
  <2> HIDE DEF F
  <2> QED
    BY <2>4, <2>5, <2>6
<1>6. PyScope = CHOOSE g : g = F(g)
  BY DEF PyScope
<1>7. PyScope = F(PyScope)
  <2> HIDE DEF F
  <2> QED
    BY <1>5, <1>6
<1>8. 0 \in Nodes \cup {0} /\ \A i \in Nodes : i \in Nodes \cup {0} /\ i # 0
  BY <1>1
<1>9. \A i \in Nodes \cup {0} : PyScope[i] = F(PyScope)[i]
  BY <1>7
<1> QED
  BY <1>8, <1>9 DEF PyScopeStep

(* The scopes follow from the tree.                                        *)
LEMMA PyScopeStays ==
  ASSUME tree' = tree
  PROVE  PyScope' = PyScope
BY DEF PyScope, Nodes, Up, IsDefinition, Kind

-----------------------------------------------------------------------------
(* Python: the walk.                                                       *)

PyEntry == [node : Nat, owner : Nat, context : BOOLEAN]
PyScopes == {"module", "class", "method", "function"}
PySymbol == [node : Nat, name : PyNames, kind : PyScopes, parent : Nat,
             exported : BOOLEAN, returns : BOOLEAN]
PyCall == [node : Nat, caller : Nat]
PyImport == [node : Nat, scope : PyScopes, conditional : BOOLEAN, typeOnly : BOOLEAN]
PyResult == [symbols : Seq(PySymbol), calls : Seq(PyCall), imports : Seq(PyImport),
             exports : {<< >>}, truncated : BOOLEAN]

Decorates(j) == tree[j].field = "decorator"
Entered(j) == ~Decorates(j) /\ ~InHeader(j)
PyCalls(j) == Kind(j) = "call" /\ tree[j].name # ""
Decorated(i) == \E j \in Nodes : Up(j) = i /\ Decorates(j)

\* A node is taken up with its parent, V being the nodes visited and D the
\* definitions dropped at the limit; a decorator before the definition and
\* a header never.
PyReached(i, V, D, entries) ==
  \/ Up(i) = 0
  \/ Decorates(i) /\ (Up(i) \in V \/ \E x \in entries : x.node = Up(i) /\ ~x.context)
  \/ Entered(i) /\ Up(i) \in V \ D

\* Every node is taken up once.
PyStacked(s, V, D) ==
  /\ IsStack(s, PyEntry)
  /\ V \subseteq Nodes /\ D \subseteq V /\ \A i \in D : IsDefinition(i)
  /\ NodesOf(s) \subseteq Nodes \ V
  /\ \A x \in ToSet(s) : x.context => IsDefinition(x.node)
  /\ \A i \in Nodes : i \in V \cup NodesOf(s) <=> PyReached(i, V, D, ToSet(s))

\* k is the key of node i; 0 is the key of the module.
HasKey(res, i, k) ==
  IF k = 0 THEN i = 0 ELSE k \in DOMAIN res.symbols /\ res.symbols[k].node = i

\* An entry waits with the key of its scope.
PyOwned(s, res) == \A x \in ToSet(s) : HasKey(res, PyScope[x.node], x.owner)

\* The symbols are the definitions visited and not dropped.
PyRecorded(res, V, D) ==
  /\ \A k \in DOMAIN res.symbols :
       LET t == res.symbols[k] IN
         /\ t.node \in V \ D /\ IsDefinition(t.node) /\ t.name = tree[t.node].name
         /\ t.parent < k /\ HasKey(res, PyScope[t.node], t.parent)
  /\ Distinct(res.symbols)
  /\ \A i \in V \ D : IsDefinition(i) => \E k \in DOMAIN res.symbols : res.symbols[k].node = i

\* The calls are the calls visited that have a name.
PyCalled(res, V) ==
  /\ \A n \in DOMAIN res.calls :
       LET c == res.calls[n] IN
         c.node \in V /\ PyCalls(c.node) /\ HasKey(res, PyScope[c.node], c.caller)
  /\ Distinct(res.calls)
  /\ \A i \in V : PyCalls(i) => \E n \in DOMAIN res.calls : res.calls[n].node = i

DroppedAtTheLimit(res, D) ==
  IF res.truncated THEN Len(res.symbols) >= MaxSymbols ELSE D = {}

PyWalk(s, res, V, D) ==
  /\ PyStacked(s, V, D) /\ res \in PyResult /\ PyOwned(s, res)
  /\ PyRecorded(res, V, D) /\ PyCalled(res, V) /\ DroppedAtTheLimit(res, D)

(* What is decorated has a wrapper.                                        *)
LEMMA ChildrenAreSorted ==
  ASSUME PyTree, NEW i, NEW fields
  PROVE  /\ Children(i) = Sorted({j \in Nodes : Up(j) = i})
         /\ ChildrenIn(i, fields) = Sorted({j \in Nodes : Up(j) = i /\ tree[j].field \in fields})
         /\ Wrapper(i) <=> Decorated(i)
<1> DEFINE S == {j \in Nodes : Up(j) = i /\ tree[j].field \in {"decorator"}}
<1>1. Len(tree) \in Nat /\ S \in SUBSET (1..Len(tree))
  BY PyNodes
<1>2. Sorted(S) \in Seq(S) /\ ToSet(Sorted(S)) = S
  <2> HIDE DEF S
  <2> QED
    BY <1>1, SortedFacts
<1>3. Sorted(S) # << >> <=> S # {}
  <2> HIDE DEF S
  <2>1. ToSet(<< >>) = {}
    BY DEF ToSet
  <2>2. CASE Sorted(S) # << >>
    <3>1. Sorted(S)[1] \in S
      BY <1>2, <2>2, EmptySeq, LenProperties, ElementOfSeq
    <3> QED
      BY <2>2, <3>1
  <2> QED
    BY <1>2, <2>1, <2>2
<1>4. S # {} <=> Decorated(i)
  BY DEF Decorated, Decorates
<1>5. Wrapper(i) <=> Sorted(S) # << >>
  BY DEF Wrapper, ChildrenIn
<1> QED
  BY <1>3, <1>4, <1>5 DEF Children, ChildrenIn

(* The entries that are laid on the stack for some nodes.                  *)
LEMMA PyEntriesOf ==
  ASSUME PyTree, NEW P \in SUBSET Nodes, NEW o \in Nat
  PROVE  LET s == PyEntries(Sorted(P), o)
         IN /\ IsStack(s, PyEntry) /\ NodesOf(s) = P
            /\ \A x \in ToSet(s) : x.owner = o /\ (x.context <=> Decorated(x.node))
<1> DEFINE g == [j \in P |-> [node |-> j, owner |-> o, context |-> Wrapper(j)]]
           list == Sorted(P)
           s == PyEntries(list, o)
<1>1. Len(tree) \in Nat /\ P \in SUBSET (1..Len(tree)) /\ \A j \in P : j \in Nat
  BY PyNodes
<1>2. \A j \in P : Wrapper(j) \in BOOLEAN /\ (Wrapper(j) <=> Decorated(j))
  <2>1. \A j \in P : Wrapper(j) <=> Decorated(j)
    BY ChildrenAreSorted
  <2> QED
    BY <2>1 DEF Wrapper
<1>3. g \in [P -> PyEntry] /\ \A j \in P : g[j].node = j /\ g[j].owner = o /\ g[j].context = Wrapper(j)
  BY <1>1, <1>2 DEF PyEntry
<1>4. list \in Seq(P) /\ \A n \in DOMAIN list : list[n] \in P
  <2>1. list \in Seq(P)
    BY <1>1, SortedFacts
  <2> HIDE DEF list
  <2> QED
    BY <2>1, LenProperties, ElementOfSeq
<1>5. s = Reverse([n \in DOMAIN list |-> g[list[n]]])
  <2>1. \A n \in DOMAIN list :
          g[list[n]] = [node |-> list[n], owner |-> o, context |-> Wrapper(list[n])]
    BY <1>4
  <2> HIDE DEF g, list
  <2>2. [n \in DOMAIN list |-> [node |-> list[n], owner |-> o, context |-> Wrapper(list[n])]]
          = [n \in DOMAIN list |-> g[list[n]]]
    BY <2>1
  <2> QED
    BY <2>2 DEF PyEntries
<1> HIDE DEF g
<1>6. IsStack(s, PyEntry) /\ ToSet(s) = {g[j] : j \in P} /\ NodesOf(s) = P
  <2> DEFINE t == Reverse([n \in DOMAIN list |-> g[list[n]]])
  <2>1. \A j \in P : g[j].node = j
    BY <1>3
  <2>2. IsStack(t, PyEntry) /\ ToSet(t) = {g[j] : j \in P} /\ NodesOf(t) = P
    <3>1. g \in [P -> PyEntry]
      BY <1>3
    <3> QED
      BY <1>1, <2>1, <3>1, LaidDown
  <2> HIDE DEF s
  <2> QED
    BY <1>5, <2>2
<1>7. \A x \in {g[j] : j \in P} : x.owner = o /\ (x.context <=> Decorated(x.node))
  BY <1>2, <1>3
<1> HIDE DEF s, list
<1>8. \A x \in ToSet(s) : x.owner = o /\ (x.context <=> Decorated(x.node))
  BY <1>6, <1>7
<1> QED
  BY <1>6, <1>8 DEF s, list

(* The node on top was not visited, and what hangs on it was not taken up. *)
LEMMA PyFresh ==
  ASSUME PyTree, NEW V, NEW D, PyStacked(stack, V, D), stack # << >>
  PROVE  /\ Top \in PyEntry /\ Top \in ToSet(stack)
         /\ Top.node \in Nodes /\ Top.node \notin V /\ Top.node # 0
         /\ \A j \in Nodes : Up(j) = Top.node /\ (Decorates(j) => Top.context)
                               => j \notin V /\ j \notin NodesOf(stack)
<1>1. IsStack(stack, PyEntry)
  BY DEF PyStacked
<1>2. Top \in PyEntry /\ Top \in ToSet(stack) /\ \A x \in ToSet(stack) : x # Top => x.node # Top.node
  BY <1>1, Taken
<1>3. Top.node \in NodesOf(stack)
  BY <1>2 DEF NodesOf
<1>4. Top.node \in Nodes /\ Top.node \notin V /\ Top.node # 0
  BY <1>3, PyNodes DEF PyStacked
<1>5. ASSUME NEW j \in Nodes, Up(j) = Top.node, Decorates(j) => Top.context
      PROVE  ~PyReached(j, V, D, ToSet(stack))
  BY <1>2, <1>4, <1>5 DEF PyReached
<1> QED
  BY <1>2, <1>4, <1>5 DEF PyStacked

(* The node on top is visited, or dropped with what hangs on it.           *)
LEMMA PyVisits ==
  ASSUME PyTree, NEW V, NEW D, PyStacked(stack, V, D), stack # << >>, ~Top.context,
         NEW drop \in BOOLEAN, drop => IsDefinition(Top.node),
         NEW next, NEW Q, IsStack(next, PyEntry), ToSet(next) = ToSet(Popped) \cup Q,
         NodesOf(next) = NodesOf(Popped) \cup
           {j \in Nodes : Up(j) = Top.node /\ Entered(j) /\ ~drop},
         \A x \in Q : x.context <=> Decorated(x.node)
  PROVE  PyStacked(next, V \cup {Top.node}, IF drop THEN D \cup {Top.node} ELSE D)
<1> DEFINE t == Top.node
           W == V \cup {t}
           E == IF drop THEN D \cup {t} ELSE D
           P == {j \in Nodes : Up(j) = t /\ Entered(j) /\ ~drop}
<1>1. /\ IsStack(stack, PyEntry)
      /\ V \subseteq Nodes /\ D \subseteq V /\ \A i \in D : IsDefinition(i)
      /\ NodesOf(stack) \subseteq Nodes \ V
      /\ \A x \in ToSet(stack) : x.context => IsDefinition(x.node)
      /\ \A i \in Nodes : i \in V \cup NodesOf(stack) <=> PyReached(i, V, D, ToSet(stack))
  BY DEF PyStacked
<1>2. /\ Top \in ToSet(stack) /\ t \in Nodes /\ t \notin V /\ t # 0
      /\ \A j \in Nodes : Up(j) = t /\ ~Decorates(j) => j \notin V /\ j \notin NodesOf(stack)
  BY PyFresh
<1>3. /\ ToSet(Popped) = ToSet(stack) \ {Top} /\ NodesOf(Popped) = NodesOf(stack) \ {t}
      /\ t \in NodesOf(stack) /\ \A x \in ToSet(stack) : x # Top => x.node # t
  <2>1. t \in NodesOf(stack)
    BY <1>2 DEF NodesOf
  <2> QED
    BY <1>1, <2>1, Taken
<1>4. W \subseteq Nodes /\ E \subseteq W /\ \A i \in E : IsDefinition(i)
  BY <1>1, <1>2
<1>5. t \notin P /\ P \subseteq Nodes /\ P \cap V = {}
  BY <1>2, PyNodes DEF Entered
<1>6. NodesOf(next) \subseteq Nodes \ W
  BY <1>1, <1>3, <1>5
<1>7. ASSUME NEW x \in ToSet(next), x.context PROVE IsDefinition(x.node)
  <2>1. CASE x \in ToSet(stack)
    BY <1>1, <1>7, <2>1
  <2>2. CASE x \in Q
    <3>1. PICK j \in Nodes : Up(j) = x.node /\ Decorates(j)
      BY <1>7, <2>2 DEF Decorated
    <3> QED
      BY <3>1 DEF PyTree, Decorates
  <2> QED
    BY <1>3, <2>1, <2>2
<1>8. ASSUME NEW i \in Nodes PROVE i \in W \cup NodesOf(next) <=> PyReached(i, W, E, ToSet(next))
  <2>1. i \in W \cup NodesOf(next) <=> i \in V \cup NodesOf(stack) \/ i \in P
    BY <1>3
  <2>2. i \in V \cup NodesOf(stack) <=> PyReached(i, V, D, ToSet(stack))
    BY <1>1
  <2>3. CASE Up(i) = t /\ Decorates(i)
    <3>1. PyReached(i, V, D, ToSet(stack))
      BY <1>2, <2>3 DEF PyReached
    <3>2. PyReached(i, W, E, ToSet(next))
      BY <2>3 DEF PyReached
    <3> QED
      BY <2>1, <2>2, <3>1, <3>2
  <2>4. CASE Up(i) = t /\ ~Decorates(i)
    <3>1. i \in P <=> Entered(i) /\ ~drop
      BY <2>4
    <3>2. i \notin V \cup NodesOf(stack)
      BY <1>2, <2>4
    <3>3. t \in W \ E <=> ~drop
      BY <1>1, <1>2
    <3>4. PyReached(i, W, E, ToSet(next)) <=> Entered(i) /\ t \in W \ E
      BY <1>2, <2>4 DEF PyReached
    <3> QED
      BY <2>1, <3>1, <3>2, <3>3, <3>4
  <2>5. CASE Up(i) # t
    <3>1. i \notin P /\ (Up(i) \in W <=> Up(i) \in V) /\ (Up(i) \in W \ E <=> Up(i) \in V \ D)
      BY <2>5
    <3>2. Decorates(i) => \A x \in Q : x.node = Up(i) => x.context
      BY DEF Decorated
    <3>3. Decorates(i) => ((\E x \in ToSet(next) : x.node = Up(i) /\ ~x.context)
                             <=> \E x \in ToSet(stack) : x.node = Up(i) /\ ~x.context)
      BY <1>3, <2>5, <3>2
    <3>4. PyReached(i, W, E, ToSet(next)) <=> PyReached(i, V, D, ToSet(stack))
      BY <3>1, <3>3 DEF PyReached
    <3> QED
      BY <2>1, <2>2, <3>1, <3>4
  <2> QED
    BY <2>3, <2>4, <2>5
<1> QED
  BY <1>4, <1>6, <1>7, <1>8 DEF PyStacked

(* The decorators are laid on the definition.                              *)
LEMMA PyDecorates ==
  ASSUME PyTree, NEW V, NEW D, PyStacked(stack, V, D), stack # << >>, Top.context,
         NEW next, NEW Q, IsStack(next, PyEntry),
         ToSet(next) = ToSet(Popped) \cup {[Top EXCEPT !.context = FALSE]} \cup Q,
         NodesOf(next) = NodesOf(stack) \cup {j \in Nodes : Up(j) = Top.node /\ Decorates(j)},
         \A x \in Q : x.context <=> Decorated(x.node)
  PROVE  PyStacked(next, V, D)
<1> DEFINE t == Top.node
           P == {j \in Nodes : Up(j) = t /\ Decorates(j)}
           top == [Top EXCEPT !.context = FALSE]
<1>1. /\ IsStack(stack, PyEntry)
      /\ V \subseteq Nodes /\ D \subseteq V /\ \A i \in D : IsDefinition(i)
      /\ NodesOf(stack) \subseteq Nodes \ V
      /\ \A x \in ToSet(stack) : x.context => IsDefinition(x.node)
      /\ \A i \in Nodes : i \in V \cup NodesOf(stack) <=> PyReached(i, V, D, ToSet(stack))
  BY DEF PyStacked
<1>2. /\ Top \in PyEntry /\ Top \in ToSet(stack) /\ t \in Nodes /\ t \notin V /\ t # 0
      /\ \A j \in Nodes : Up(j) = t => j \notin V /\ j \notin NodesOf(stack)
  BY PyFresh
<1>3. /\ ToSet(Popped) = ToSet(stack) \ {Top}
      /\ \A x \in ToSet(stack) : x # Top => x.node # t
  BY <1>1, Taken
<1>4. top.node = t /\ ~top.context
  BY <1>2 DEF PyEntry
<1> HIDE DEF top
<1>5. NodesOf(next) \subseteq Nodes \ V
  BY <1>1, <1>2
<1>6. ASSUME NEW x \in ToSet(next), x.context PROVE IsDefinition(x.node)
  <2>1. CASE x \in ToSet(stack)
    BY <1>1, <1>6, <2>1
  <2>2. CASE x \in Q
    <3>1. PICK j \in Nodes : Up(j) = x.node /\ Decorates(j)
      BY <1>6, <2>2 DEF Decorated
    <3> QED
      BY <3>1 DEF PyTree, Decorates
  <2> QED
    BY <1>3, <1>4, <1>6, <2>1, <2>2 DEF top
<1>7. ASSUME NEW i \in Nodes PROVE i \in V \cup NodesOf(next) <=> PyReached(i, V, D, ToSet(next))
  <2>1. i \in V \cup NodesOf(next) <=> i \in V \cup NodesOf(stack) \/ i \in P
    OBVIOUS
  <2>2. i \in V \cup NodesOf(stack) <=> PyReached(i, V, D, ToSet(stack))
    BY <1>1
  <2>3. CASE Up(i) = t /\ Decorates(i)
    <3>1. top \in ToSet(next)
      BY DEF top
    <3>2. PyReached(i, V, D, ToSet(next))
      BY <1>4, <2>3, <3>1 DEF PyReached
    <3> QED
      BY <2>1, <2>3, <3>2
  <2>4. CASE Up(i) = t /\ ~Decorates(i)
    <3>1. PyReached(i, V, D, ToSet(next)) <=> PyReached(i, V, D, ToSet(stack))
      BY <2>4 DEF PyReached
    <3> QED
      BY <2>1, <2>2, <2>4, <3>1
  <2>5. CASE Up(i) # t
    <3>1. Decorates(i) => \A x \in Q : x.node = Up(i) => x.context
      BY DEF Decorated
    <3>2. \A x \in ToSet(next) : x \in Q \/ x = top \/ (x \in ToSet(stack) /\ x # Top)
      BY <1>3 DEF top
    <3>3. \A x \in ToSet(stack) : x # Top => x \in ToSet(next)
      BY <1>3
    <3>4. Decorates(i) => ((\E x \in ToSet(next) : x.node = Up(i) /\ ~x.context)
                             <=> \E x \in ToSet(stack) : x.node = Up(i) /\ ~x.context)
      BY <1>4, <2>5, <3>1, <3>2, <3>3
    <3>5. PyReached(i, V, D, ToSet(next)) <=> PyReached(i, V, D, ToSet(stack))
      BY <3>4 DEF PyReached
    <3> QED
      BY <2>1, <2>2, <2>5, <3>5
  <2> QED
    BY <2>3, <2>4, <2>5
<1> QED
  BY <1>1, <1>5, <1>6, <1>7 DEF PyStacked

-----------------------------------------------------------------------------
(* Python: what a visit adds to the result.                                *)

\* A result in which the keys still stand for the same nodes.
Carries(r, res) ==
  \A k \in DOMAIN r.symbols :
    /\ k \in DOMAIN res.symbols /\ res.symbols[k].node = r.symbols[k].node
    /\ res.symbols[k].name = r.symbols[k].name /\ res.symbols[k].parent = r.symbols[k].parent

(* A key stays what it is when the result grows.                           *)
LEMMA KeysCarried ==
  ASSUME NEW r, NEW res, Carries(r, res), NEW i, NEW k, HasKey(r, i, k)
  PROVE  HasKey(res, i, k)
BY DEF Carries, HasKey

(* A sequence with one more element.                                       *)
LEMMA Appended ==
  ASSUME NEW T, NEW s \in Seq(T), NEW x \in T
  PROVE  /\ Append(s, x) \in Seq(T) /\ Len(s) \in Nat /\ Len(Append(s, x)) = Len(s) + 1
         /\ DOMAIN s = 1..Len(s) /\ DOMAIN Append(s, x) = 1..(Len(s) + 1)
         /\ Append(s, x)[Len(s) + 1] = x
         /\ \A i \in DOMAIN s : i # Len(s) + 1 /\ i \in DOMAIN Append(s, x) /\ Append(s, x)[i] = s[i]
         /\ \A i \in DOMAIN Append(s, x) : i \in DOMAIN s \/ i = Len(s) + 1
<1>1. PICK n \in Nat : n = Len(s)
  BY LenProperties
<1>2. DOMAIN s = 1..n
  BY <1>1, LenProperties
<1>3. Append(s, x) \in Seq(T) /\ Len(Append(s, x)) = n + 1 /\ DOMAIN Append(s, x) = 1..(n + 1)
  BY <1>1, AppendProperties, LenProperties
<1>4. Append(s, x)[n + 1] = x /\ \A i \in 1..n : Append(s, x)[i] = s[i]
  BY <1>1, AppendProperties
<1>5. /\ \A i \in 1..n : i # n + 1 /\ i \in 1..(n + 1)
      /\ \A i \in 1..(n + 1) : i \in 1..n \/ i = n + 1
  OBVIOUS
<1> QED
  BY <1>1, <1>2, <1>3, <1>4, <1>5

(* The symbols are the same ones and no other definition was visited.      *)
LEMMA SameSymbols ==
  ASSUME NEW r, NEW res, Carries(r, res), DOMAIN res.symbols = DOMAIN r.symbols,
         NEW V, NEW D, NEW W, NEW E, PyRecorded(r, V, D),
         \A i : IsDefinition(i) => (i \in W \ E <=> i \in V \ D)
  PROVE  PyRecorded(res, W, E)
<1>1. ASSUME NEW k \in DOMAIN res.symbols
      PROVE  LET t == res.symbols[k] IN
               /\ t.node \in W \ E /\ IsDefinition(t.node) /\ t.name = tree[t.node].name
               /\ t.parent < k /\ HasKey(res, PyScope[t.node], t.parent)
  <2>1. /\ res.symbols[k].node = r.symbols[k].node /\ res.symbols[k].name = r.symbols[k].name
        /\ res.symbols[k].parent = r.symbols[k].parent
    BY DEF Carries
  <2>2. LET t == r.symbols[k] IN
          /\ t.node \in V \ D /\ IsDefinition(t.node) /\ t.name = tree[t.node].name
          /\ t.parent < k /\ HasKey(r, PyScope[t.node], t.parent)
    BY DEF PyRecorded
  <2>3. HasKey(res, PyScope[r.symbols[k].node], r.symbols[k].parent)
    BY <2>2, KeysCarried
  <2> QED
    BY <2>1, <2>2, <2>3
<1>2. Distinct(res.symbols)
  BY DEF PyRecorded, Distinct, Carries
<1>3. \A i \in W \ E : IsDefinition(i) => \E k \in DOMAIN res.symbols : res.symbols[k].node = i
  BY DEF PyRecorded, Carries
<1> QED
  BY <1>1, <1>2, <1>3 DEF PyRecorded

(* The calls are the same ones and no other call was visited.              *)
LEMMA SameCalls ==
  ASSUME NEW r, NEW res, Carries(r, res), res.calls = r.calls,
         NEW V, NEW W, V \subseteq W, PyCalled(r, V), \A i \in W : PyCalls(i) => i \in V
  PROVE  PyCalled(res, W)
<1>1. ASSUME NEW n \in DOMAIN res.calls
      PROVE  LET c == res.calls[n] IN
               c.node \in W /\ PyCalls(c.node) /\ HasKey(res, PyScope[c.node], c.caller)
  <2>1. LET c == r.calls[n] IN
          c.node \in V /\ PyCalls(c.node) /\ HasKey(r, PyScope[c.node], c.caller)
    BY DEF PyCalled
  <2> QED
    BY <2>1, KeysCarried
<1> QED
  BY <1>1 DEF PyCalled

(* A definition is recorded.                                               *)
LEMMA PyAddsSymbol ==
  ASSUME PyTree, result \in PyResult, NEW V, NEW D, D \subseteq V,
         PyRecorded(result, V, D), PyCalled(result, V),
         NEW t \in Nodes, t \notin V, IsDefinition(t),
         NEW o \in Nat, HasKey(result, PyScope[t], o)
  PROVE  LET res == AddSymbol(t, o)
         IN /\ res \in PyResult /\ Carries(result, res) /\ HasKey(res, t, NextKey) /\ NextKey \in Nat
            /\ PyRecorded(res, V \cup {t}, D) /\ PyCalled(res, V \cup {t})
            /\ res.truncated = result.truncated
<1> DEFINE res == AddSymbol(t, o)
           new == [node |-> t, name |-> tree[t].name, kind |-> PyKind(t, o), parent |-> o,
                   exported |-> FALSE, returns |-> FALSE]
           n == Len(result.symbols)
           list == Append(result.symbols, new)
<1>1. result.symbols \in Seq(PySymbol)
  BY DEF PyResult
<1>2. new \in PySymbol /\ new.node = t /\ new.name = tree[t].name /\ new.parent = o
  <2>1. t \in Nat /\ tree[t].name \in PyNames
    BY PyNodes
  <2>2. PyKind(t, o) \in PyScopes
    BY DEF PyKind, PyScopes
  <2> QED
    BY <2>1, <2>2 DEF PySymbol
<1>3. res = [result EXCEPT !.symbols = list]
  BY DEF AddSymbol
<1> HIDE DEF new, res
<1>4. /\ list \in Seq(PySymbol) /\ n \in Nat
      /\ DOMAIN result.symbols = 1..n /\ DOMAIN list = 1..(n + 1) /\ list[n + 1] = new
      /\ \A i \in DOMAIN result.symbols :
           i # n + 1 /\ i \in DOMAIN list /\ list[i] = result.symbols[i]
      /\ \A i \in DOMAIN list : i \in DOMAIN result.symbols \/ i = n + 1
  BY <1>1, <1>2, Appended
<1> HIDE DEF list
<1>5. /\ res \in PyResult /\ res.symbols = list /\ res.calls = result.calls
      /\ res.truncated = result.truncated
  BY <1>3, <1>4 DEF PyResult
<1>6. Carries(result, res)
  BY <1>4, <1>5 DEF Carries
<1>7. HasKey(res, t, n + 1) /\ n + 1 \in Nat /\ n + 1 # 0 /\ n + 1 \in DOMAIN list
  <2>1. n + 1 \in Nat /\ n + 1 # 0 /\ n + 1 \in DOMAIN list
    BY <1>4
  <2> QED
    BY <1>2, <1>4, <1>5, <2>1 DEF HasKey
<1>8. o < n + 1 /\ HasKey(res, PyScope[t], o)
  <2>1. o = 0 \/ o \in 1..n
    BY <1>4 DEF HasKey
  <2>2. o < n + 1
    BY <1>4, <2>1
  <2> QED
    BY <1>6, <2>2, KeysCarried
<1>9. PyRecorded(res, V \cup {t}, D)
  <2>1. ASSUME NEW k \in DOMAIN res.symbols
        PROVE  LET s == res.symbols[k] IN
                 /\ s.node \in (V \cup {t}) \ D /\ IsDefinition(s.node) /\ s.name = tree[s.node].name
                 /\ s.parent < k /\ HasKey(res, PyScope[s.node], s.parent)
    <3>1. CASE k = n + 1
      BY <1>2, <1>4, <1>5, <1>8, <3>1
    <3>2. CASE k \in DOMAIN result.symbols
      <4>1. LET s == result.symbols[k] IN
              /\ s.node \in V \ D /\ IsDefinition(s.node) /\ s.name = tree[s.node].name
              /\ s.parent < k /\ HasKey(result, PyScope[s.node], s.parent)
        BY <3>2 DEF PyRecorded
      <4>2. HasKey(res, PyScope[result.symbols[k].node], result.symbols[k].parent)
        BY <1>6, <4>1, KeysCarried
      <4> QED
        BY <1>4, <1>5, <3>2, <4>1, <4>2
    <3> QED
      BY <1>4, <1>5, <3>1, <3>2
  <2>2. Distinct(res.symbols)
    <3>1. \A k \in DOMAIN result.symbols : result.symbols[k].node \in V
      BY DEF PyRecorded
    <3>2. Distinct(result.symbols)
      BY DEF PyRecorded
    <3> QED
      BY <1>2, <1>4, <1>5, <3>1, <3>2 DEF Distinct
  <2>3. ASSUME NEW i \in (V \cup {t}) \ D, IsDefinition(i)
        PROVE  \E k \in DOMAIN res.symbols : res.symbols[k].node = i
    <3>1. CASE i = t
      BY <1>2, <1>4, <1>5, <1>7, <3>1
    <3>2. CASE i \in V
      BY <1>4, <1>5, <2>3, <3>2 DEF PyRecorded
    <3> QED
      BY <3>1, <3>2
  <2> QED
    BY <2>1, <2>2, <2>3 DEF PyRecorded
<1>10. PyCalled(res, V \cup {t})
  <2>1. ~PyCalls(t)
    BY DEF PyCalls, IsDefinition, PyDefinitions
  <2> QED
    BY <1>5, <1>6, <2>1, SameCalls
<1> QED
  BY <1>5, <1>6, <1>7, <1>9, <1>10 DEF res, NextKey

(* A call is recorded.                                                     *)
LEMMA PyAddsCall ==
  ASSUME PyTree, result \in PyResult, NEW V, NEW D,
         PyRecorded(result, V, D), PyCalled(result, V),
         NEW t \in Nodes, t \notin V, PyCalls(t),
         NEW o \in Nat, HasKey(result, PyScope[t], o)
  PROVE  LET res == [result EXCEPT !.calls = Append(@, [node |-> t, caller |-> o])]
         IN /\ res \in PyResult /\ res.symbols = result.symbols /\ res.truncated = result.truncated
            /\ PyRecorded(res, V \cup {t}, D) /\ PyCalled(res, V \cup {t})
<1> DEFINE new == [node |-> t, caller |-> o]
           n == Len(result.calls)
           list == Append(result.calls, new)
           res == [result EXCEPT !.calls = list]
<1>1. result.calls \in Seq(PyCall)
  BY DEF PyResult
<1>2. new \in PyCall /\ new.node = t /\ new.caller = o
  BY PyNodes DEF PyCall
<1> HIDE DEF new
<1>3. /\ list \in Seq(PyCall) /\ n \in Nat
      /\ DOMAIN result.calls = 1..n /\ DOMAIN list = 1..(n + 1) /\ list[n + 1] = new
      /\ \A i \in DOMAIN result.calls : i # n + 1 /\ i \in DOMAIN list /\ list[i] = result.calls[i]
      /\ \A i \in DOMAIN list : i \in DOMAIN result.calls \/ i = n + 1
  BY <1>1, <1>2, Appended
<1>4. n + 1 \in DOMAIN list
  BY <1>3
<1> HIDE DEF list
<1>5. /\ res \in PyResult /\ res.symbols = result.symbols /\ res.calls = list
      /\ res.truncated = result.truncated
  BY <1>3 DEF PyResult
<1> HIDE DEF res
<1>6. Carries(result, res)
  BY <1>5 DEF Carries
<1>7. PyRecorded(res, V \cup {t}, D)
  <2>1. ~IsDefinition(t)
    BY DEF PyCalls, IsDefinition, PyDefinitions
  <2> QED
    BY <1>5, <1>6, <2>1, SameSymbols
<1>8. ASSUME NEW m \in DOMAIN res.calls
      PROVE  LET c == res.calls[m] IN
               /\ c.node \in V \cup {t} /\ PyCalls(c.node)
               /\ HasKey(res, PyScope[c.node], c.caller)
  <2>1. CASE m = n + 1
    BY <1>2, <1>3, <1>5, <1>6, <2>1, KeysCarried
  <2>2. CASE m \in DOMAIN result.calls
    <3>1. LET c == result.calls[m] IN
            c.node \in V /\ PyCalls(c.node) /\ HasKey(result, PyScope[c.node], c.caller)
      BY <2>2 DEF PyCalled
    <3> QED
      BY <1>3, <1>5, <1>6, <2>2, <3>1, KeysCarried
  <2> QED
    BY <1>3, <1>5, <2>1, <2>2
<1>9. Distinct(res.calls)
  <2>1. \A m \in DOMAIN result.calls : result.calls[m].node \in V
    BY DEF PyCalled
  <2>2. Distinct(result.calls)
    BY DEF PyCalled
  <2> QED
    BY <1>2, <1>3, <1>5, <2>1, <2>2 DEF Distinct
<1>10. ASSUME NEW i \in V \cup {t}, PyCalls(i)
       PROVE  \E m \in DOMAIN res.calls : res.calls[m].node = i
  <2>1. CASE i = t
    BY <1>2, <1>3, <1>4, <1>5, <2>1
  <2>2. CASE i \in V
    BY <1>3, <1>5, <1>10, <2>2 DEF PyCalled
  <2> QED
    BY <2>1, <2>2
<1> QED
  BY <1>2, <1>5, <1>7, <1>8, <1>9, <1>10 DEF PyCalled, res, list, new

-----------------------------------------------------------------------------
(* Python: the steps of the walk.                                          *)

(* Nodes that were not taken up are laid on the rest of the stack.         *)
LEMMA PyPushes ==
  ASSUME PyTree, NEW s, IsStack(s, PyEntry),
         NEW P \in SUBSET Nodes, P \cap NodesOf(s) = {}, NEW o \in Nat
  PROVE  LET entries == PyEntries(Sorted(P), o)
             next == s \o entries
         IN /\ IsStack(next, PyEntry) /\ ToSet(next) = ToSet(s) \cup ToSet(entries)
            /\ NodesOf(next) = NodesOf(s) \cup P
            /\ \A x \in ToSet(entries) :
                 x.node \in P /\ x.owner = o /\ (x.context <=> Decorated(x.node))
<1> DEFINE entries == PyEntries(Sorted(P), o)
<1>1. /\ IsStack(entries, PyEntry) /\ NodesOf(entries) = P
      /\ \A x \in ToSet(entries) : x.owner = o /\ (x.context <=> Decorated(x.node))
  BY PyEntriesOf
<1> HIDE DEF entries
<1>2. \A x \in ToSet(entries) : x.node \in P
  BY <1>1 DEF NodesOf
<1>3. NodesOf(s) \cap NodesOf(entries) = {}
  BY <1>1
<1>4. /\ IsStack(s \o entries, PyEntry) /\ ToSet(s \o entries) = ToSet(s) \cup ToSet(entries)
      /\ NodesOf(s \o entries) = NodesOf(s) \cup NodesOf(entries)
  BY <1>1, <1>3, Joined
<1> QED
  BY <1>1, <1>2, <1>4 DEF entries

(* The entries of the next stack are owned if the new ones are.            *)
LEMMA PyOwnedNext ==
  ASSUME IsStack(stack, PyEntry), stack # << >>, NEW res, Carries(result, res),
         PyOwned(stack, result), NEW next, NEW Q, ToSet(next) = ToSet(Popped) \cup Q,
         \A x \in Q : HasKey(res, PyScope[x.node], x.owner)
  PROVE  PyOwned(next, res)
<1>1. ToSet(Popped) = ToSet(stack) \ {Top}
  BY Taken
<1>2. \A x \in ToSet(stack) : HasKey(res, PyScope[x.node], x.owner)
  BY KeysCarried DEF PyOwned
<1> QED
  BY <1>1, <1>2 DEF PyOwned

(* The scope of a node under another one.                                  *)
LEMMA PyScopeOfChild ==
  ASSUME PyTree, NEW j \in Nodes, Up(j) # 0
  PROVE  PyScope[j] = IF IsDefinition(Up(j)) /\ tree[j].field = "body" THEN Up(j)
                      ELSE PyScope[Up(j)]
BY PyScopeUnfolds DEF PyScopeStep

(* A node that is no definition: what hangs on it belongs to its owner.    *)
LEMMA PyGoesOn ==
  ASSUME PyTree, NEW V, NEW D, PyStacked(stack, V, D), PyOwned(stack, result), stack # << >>,
         ~IsDefinition(Top.node), NEW res, Carries(result, res)
  PROVE  LET next == Popped \o PyEntries(Children(Top.node), Top.owner)
         IN PyStacked(next, V \cup {Top.node}, D) /\ PyOwned(next, res)
<1> DEFINE t == Top.node
           P == {j \in Nodes : Up(j) = t}
           Q == PyEntries(Sorted(P), Top.owner)
           next == Popped \o Q
<1>1. IsStack(stack, PyEntry) /\ \A x \in ToSet(stack) : x.context => IsDefinition(x.node)
  BY DEF PyStacked
<1>2. /\ Top \in PyEntry /\ Top \in ToSet(stack) /\ t \in Nodes /\ t # 0
      /\ \A j \in Nodes : Up(j) = t /\ (Decorates(j) => Top.context) => j \notin NodesOf(stack)
  BY PyFresh
<1>3. ~Top.context /\ Top.owner \in Nat
  BY <1>1, <1>2 DEF PyEntry
<1>4. \A j \in P : Entered(j) /\ ~Decorates(j) /\ j \notin NodesOf(stack)
  BY <1>2 DEF PyTree, Entered, Decorates, InHeader
<1>5. IsStack(Popped, PyEntry) /\ NodesOf(Popped) = NodesOf(stack) \ {t}
  BY <1>1, Taken
<1>6. /\ IsStack(next, PyEntry) /\ ToSet(next) = ToSet(Popped) \cup ToSet(Q)
      /\ NodesOf(next) = NodesOf(Popped) \cup P
      /\ \A x \in ToSet(Q) :
           x.node \in P /\ x.owner = Top.owner /\ (x.context <=> Decorated(x.node))
  <2>1. P \in SUBSET Nodes /\ P \cap NodesOf(Popped) = {}
    BY <1>4, <1>5
  <2> HIDE DEF P
  <2> QED
    BY <1>3, <1>5, <2>1, PyPushes
<1> HIDE DEF Q, next
<1>7. PyStacked(next, V \cup {t}, D)
  <2>1. {j \in Nodes : Up(j) = t /\ Entered(j) /\ ~FALSE} = P
    BY <1>4
  <2> HIDE DEF P
  <2>2. PyStacked(next, V \cup {t}, IF FALSE THEN D \cup {t} ELSE D)
    BY <1>3, <1>6, <2>1, PyVisits
  <2> QED
    BY <2>2
<1>8. PyOwned(next, res)
  <2>1. ASSUME NEW x \in ToSet(Q) PROVE HasKey(res, PyScope[x.node], x.owner)
    <3>1. PyScope[x.node] = PyScope[t]
      BY <1>2, <1>6, PyScopeOfChild
    <3>2. HasKey(result, PyScope[t], Top.owner)
      BY <1>2 DEF PyOwned
    <3>3. HasKey(res, PyScope[t], Top.owner)
      BY <3>2, KeysCarried
    <3> QED
      BY <1>6, <3>1, <3>3
  <2> QED
    BY <1>1, <1>6, <2>1, PyOwnedNext
<1>9. Children(t) = Sorted(P)
  BY DEF Children
<1> QED
  BY <1>7, <1>8, <1>9 DEF next, Q

(* A decorated definition.                                                 *)
LEMMA PyVisitDecorated ==
  ASSUME PyTree, NEW V, NEW D, PyWalk(stack, result, V, D), stack # << >>, VisitDecorated
  PROVE  PyWalk(stack', result', V, D)
<1> DEFINE t == Top.node
           P == {j \in Nodes : Up(j) = t /\ tree[j].field \in {"decorator"}}
           Q == PyEntries(Sorted(P), Top.owner)
           top == [Top EXCEPT !.context = FALSE]
           one == <<top>>
           low == Popped \o one
<1>1. /\ IsStack(stack, PyEntry) /\ PyStacked(stack, V, D) /\ PyOwned(stack, result)
      /\ \A x \in ToSet(stack) : x.context => IsDefinition(x.node)
  BY DEF PyWalk, PyStacked
<1>2. /\ Top \in PyEntry /\ Top \in ToSet(stack) /\ t \in Nodes /\ t # 0
      /\ \A j \in Nodes : Up(j) = t /\ (Decorates(j) => Top.context) => j \notin NodesOf(stack)
  BY <1>1, PyFresh
<1>3. Top.context /\ result' = result /\ stack' = low \o Reverse(Q)
  BY DEF VisitDecorated, ChildrenIn
<1>4. /\ IsStack(Popped, PyEntry) /\ NodesOf(Popped) = NodesOf(stack) \ {t} /\ t \in NodesOf(stack)
  <2>1. t \in NodesOf(stack)
    BY <1>2 DEF NodesOf
  <2> QED
    BY <1>1, <2>1, Taken
<1>5. top \in PyEntry /\ top.node = t /\ top.owner = Top.owner /\ Top.owner \in Nat
  BY <1>2 DEF PyEntry
<1> HIDE DEF top
<1>6. IsStack(one, PyEntry) /\ ToSet(one) = {top} /\ NodesOf(one) = {t}
  <2>1. one \in Seq(PyEntry) /\ DOMAIN one = {1} /\ one[1] = top
    BY <1>5
  <2> HIDE DEF one
  <2>2. Distinct(one) /\ ToSet(one) = {top}
    BY <2>1 DEF Distinct, ToSet
  <2>3. NodesOf(one) = {t}
    BY <1>5, <2>2 DEF NodesOf
  <2> QED
    BY <2>1, <2>2, <2>3 DEF IsStack
<1>7. /\ IsStack(low, PyEntry) /\ ToSet(low) = ToSet(Popped) \cup {top} /\ NodesOf(low) = NodesOf(stack)
  <2> HIDE DEF one
  <2>1. NodesOf(Popped) \cap NodesOf(one) = {}
    BY <1>4, <1>6
  <2>2. /\ IsStack(low, PyEntry) /\ ToSet(low) = ToSet(Popped) \cup ToSet(one)
        /\ NodesOf(low) = NodesOf(Popped) \cup NodesOf(one)
    BY <1>4, <1>6, <2>1, Joined
  <2> HIDE DEF low
  <2> QED
    BY <1>4, <1>6, <2>2
<1> HIDE DEF low
<1>8. \A j \in P : j \notin NodesOf(stack)
  BY <1>2, <1>3
<1>9. /\ IsStack(Q, PyEntry) /\ NodesOf(Q) = P
      /\ \A x \in ToSet(Q) : x.owner = Top.owner /\ (x.context <=> Decorated(x.node))
  <2>1. P \in SUBSET Nodes
    OBVIOUS
  <2> HIDE DEF P
  <2> QED
    BY <1>5, <2>1, PyEntriesOf
<1> HIDE DEF Q
<1>10. IsStack(Reverse(Q), PyEntry) /\ ToSet(Reverse(Q)) = ToSet(Q) /\ NodesOf(Reverse(Q)) = P
  BY <1>9, Reversed
<1>11. /\ IsStack(stack', PyEntry) /\ ToSet(stack') = ToSet(Popped) \cup {top} \cup ToSet(Q)
       /\ NodesOf(stack') = NodesOf(stack) \cup P
  <2>1. NodesOf(low) \cap NodesOf(Reverse(Q)) = {}
    BY <1>7, <1>8, <1>10
  <2> QED
    BY <1>3, <1>7, <1>10, <2>1, Joined
<1>12. PyStacked(stack', V, D)
  <2>1. P = {j \in Nodes : Up(j) = t /\ Decorates(j)}
    BY DEF Decorates
  <2> HIDE DEF P
  <2>2. ToSet(stack') = ToSet(Popped) \cup {[Top EXCEPT !.context = FALSE]} \cup ToSet(Q)
    BY <1>11 DEF top
  <2>3. NodesOf(stack') = NodesOf(stack) \cup {j \in Nodes : Up(j) = Top.node /\ Decorates(j)}
    BY <1>11, <2>1
  <2> QED
    BY <1>1, <1>3, <1>9, <1>11, <2>2, <2>3, PyDecorates
<1>13. PyOwned(stack', result)
  <2>1. HasKey(result, PyScope[t], Top.owner)
    BY <1>1, <1>2 DEF PyOwned
  <2>2. ASSUME NEW x \in {top} \cup ToSet(Q) PROVE HasKey(result, PyScope[x.node], x.owner)
    <3>1. CASE x = top
      BY <1>5, <2>1, <3>1
    <3>2. CASE x \in ToSet(Q)
      <4>1. x.node \in P
        BY <1>9, <3>2 DEF NodesOf
      <4>2. PyScope[x.node] = PyScope[t]
        <5>1. x.node \in Nodes /\ Up(x.node) = t /\ tree[x.node].field # "body"
          BY <4>1
        <5> QED
          BY <1>2, <5>1, PyScopeOfChild
      <4> QED
        BY <1>9, <2>1, <3>2, <4>2
    <3> QED
      BY <3>1, <3>2
  <2>3. Carries(result, result)
    BY DEF Carries
  <2>4. ToSet(stack') = ToSet(Popped) \cup ({top} \cup ToSet(Q))
    BY <1>11
  <2> QED
    BY <1>1, <2>2, <2>3, <2>4, PyOwnedNext
<1> QED
  BY <1>3, <1>12, <1>13 DEF PyWalk

(* A definition.                                                           *)
LEMMA PyVisitDefinition ==
  ASSUME PyTree, NEW V, NEW D, PyWalk(stack, result, V, D), stack # << >>, VisitDefinition
  PROVE  \E E : PyWalk(stack', result', V \cup {Top.node}, E)
<1> DEFINE t == Top.node
           W == V \cup {t}
           Pb == {j \in Nodes : Up(j) = t /\ tree[j].field \in {"body"}}
           Pa == {j \in Nodes : Up(j) = t /\ tree[j].field \in {"args"}}
           Qb == PyEntries(Sorted(Pb), NextKey)
           Qa == PyEntries(Sorted(Pa), Top.owner)
           low == Popped \o Qb
<1>1. /\ IsStack(stack, PyEntry) /\ PyStacked(stack, V, D) /\ PyOwned(stack, result)
      /\ V \subseteq Nodes /\ D \subseteq V
      /\ result \in PyResult /\ PyRecorded(result, V, D) /\ PyCalled(result, V)
      /\ DroppedAtTheLimit(result, D)
  BY DEF PyWalk, PyStacked
<1>2. /\ Top \in PyEntry /\ Top \in ToSet(stack) /\ t \in Nodes /\ t \notin V /\ t # 0
      /\ \A j \in Nodes : Up(j) = t /\ ~Decorates(j) => j \notin NodesOf(stack)
  BY <1>1, PyFresh
<1>3. IsStack(Popped, PyEntry) /\ NodesOf(Popped) = NodesOf(stack) \ {t}
  BY <1>1, Taken
<1>4. IsDefinition(t) /\ ~Top.context /\ Top.owner \in Nat
  BY <1>2 DEF VisitDefinition, PyEntry
<1>5. CASE SymbolsFull
  <2> DEFINE E == D \cup {t}
  <2>1. result' = Truncated /\ stack' = Popped
    BY <1>5 DEF VisitDefinition
  <2>2. /\ result' \in PyResult /\ result'.symbols = result.symbols
        /\ result'.calls = result.calls /\ result'.truncated = TRUE
    BY <1>1, <2>1 DEF Truncated, PyResult
  <2>3. Carries(result, result')
    BY <2>2 DEF Carries
  <2>4. PyStacked(stack', W, E)
    <3>1. {j \in Nodes : Up(j) = Top.node /\ Entered(j) /\ ~TRUE} = {}
      OBVIOUS
    <3>2. PyStacked(stack', V \cup {Top.node}, IF TRUE THEN D \cup {Top.node} ELSE D)
      <4>1. ToSet(stack') = ToSet(Popped) \cup {}
        BY <2>1
      <4>2. NodesOf(stack') = NodesOf(Popped) \cup
              {j \in Nodes : Up(j) = Top.node /\ Entered(j) /\ ~TRUE}
        BY <2>1, <3>1
      <4> QED
        BY <1>1, <1>3, <1>4, <2>1, <4>1, <4>2, PyVisits
    <3> QED
      BY <3>2
  <2>5. PyOwned(stack', result')
    <3> DEFINE none == {}
    <3>1. ToSet(stack') = ToSet(Popped) \cup none
      BY <2>1
    <3>2. \A x \in none : HasKey(result', PyScope[x.node], x.owner)
      OBVIOUS
    <3> HIDE DEF none
    <3> QED
      BY <1>1, <2>3, <3>1, <3>2, PyOwnedNext
  <2>6. PyRecorded(result', W, E)
    <3>1. \A i : i \in W \ E <=> i \in V \ D
      BY <1>2
    <3> HIDE DEF W, E
    <3> QED
      BY <1>1, <2>2, <2>3, <3>1, SameSymbols
  <2>7. PyCalled(result', W)
    <3>1. ~PyCalls(t)
      BY <1>4 DEF PyCalls, IsDefinition, PyDefinitions
    <3> QED
      BY <1>1, <2>2, <2>3, <3>1, SameCalls
  <2>8. DroppedAtTheLimit(result', E)
    BY <1>5, <2>2 DEF DroppedAtTheLimit, SymbolsFull
  <2> QED
    BY <2>2, <2>4, <2>5, <2>6, <2>7, <2>8 DEF PyWalk
<1>6. CASE ~SymbolsFull
  <2>1. result' = AddSymbol(t, Top.owner) /\ stack' = low \o Qa
    BY <1>6 DEF VisitDefinition, ChildrenIn
  <2>2. HasKey(result, PyScope[t], Top.owner)
    BY <1>1, <1>2 DEF PyOwned
  <2>3. /\ result' \in PyResult /\ Carries(result, result') /\ HasKey(result', t, NextKey)
        /\ NextKey \in Nat
        /\ PyRecorded(result', W, D) /\ PyCalled(result', W)
        /\ result'.truncated = result.truncated
    <3> DEFINE res == AddSymbol(t, Top.owner)
    <3>1. /\ res \in PyResult /\ Carries(result, res) /\ HasKey(res, t, NextKey)
          /\ NextKey \in Nat
          /\ PyRecorded(res, W, D) /\ PyCalled(res, W) /\ res.truncated = result.truncated
      BY <1>1, <1>2, <1>4, <2>2, PyAddsSymbol
    <3> HIDE DEF res
    <3>2. result' = res
      BY <2>1 DEF res
    <3> QED
      BY <3>1, <3>2
  <2>4. /\ \A j \in Pb : j \in Nodes /\ j \notin NodesOf(stack) /\ j \notin Pa
        /\ \A j \in Pa : j \in Nodes /\ j \notin NodesOf(stack)
    BY <1>2 DEF Decorates
  <2>5. /\ IsStack(low, PyEntry) /\ ToSet(low) = ToSet(Popped) \cup ToSet(Qb)
        /\ NodesOf(low) = NodesOf(Popped) \cup Pb
        /\ \A x \in ToSet(Qb) :
             x.node \in Pb /\ x.owner = NextKey /\ (x.context <=> Decorated(x.node))
    <3>1. Pb \in SUBSET Nodes /\ Pb \cap NodesOf(Popped) = {}
      BY <1>3, <2>4
    <3> HIDE DEF Pb
    <3> QED
      BY <1>3, <2>3, <3>1, PyPushes
  <2> HIDE DEF Qb, low
  <2>6. /\ IsStack(stack', PyEntry) /\ ToSet(stack') = ToSet(low) \cup ToSet(Qa)
        /\ NodesOf(stack') = NodesOf(low) \cup Pa
        /\ \A x \in ToSet(Qa) :
             x.node \in Pa /\ x.owner = Top.owner /\ (x.context <=> Decorated(x.node))
    <3>1. Pa \in SUBSET Nodes /\ Pa \cap NodesOf(low) = {}
      BY <1>3, <2>4, <2>5
    <3> HIDE DEF Pa, Pb
    <3> QED
      BY <1>4, <2>1, <2>5, <3>1, PyPushes
  <2> HIDE DEF Qa
  <2> DEFINE Q == ToSet(Qa) \cup ToSet(Qb)
  <2>7. ToSet(stack') = ToSet(Popped) \cup Q /\ NodesOf(stack') = NodesOf(Popped) \cup (Pa \cup Pb)
    BY <2>5, <2>6
  <2>8. PyStacked(stack', W, D)
    <3>1. {j \in Nodes : Up(j) = Top.node /\ Entered(j) /\ ~FALSE} = Pa \cup Pb
      <4>1. \A j \in Nodes : Entered(j) <=> tree[j].field = "body" \/ tree[j].field = "args"
        BY PyNodes DEF Entered, Decorates, InHeader
      <4> QED
        BY <4>1
    <3>2. \A x \in Q : x.context <=> Decorated(x.node)
      BY <2>5, <2>6
    <3> HIDE DEF Pa, Pb, Q
    <3>3. NodesOf(stack') = NodesOf(Popped) \cup
              {j \in Nodes : Up(j) = Top.node /\ Entered(j) /\ ~FALSE}
      BY <2>7, <3>1
    <3>4. PyStacked(stack', V \cup {Top.node}, IF FALSE THEN D \cup {Top.node} ELSE D)
      BY <1>1, <1>4, <2>6, <2>7, <3>2, <3>3, PyVisits
    <3> QED
      BY <3>4
  <2>9. PyOwned(stack', result')
    <3>1. HasKey(result', PyScope[t], Top.owner)
      BY <2>2, <2>3, KeysCarried
    <3>2. ASSUME NEW x \in Q PROVE HasKey(result', PyScope[x.node], x.owner)
      <4>1. CASE x \in ToSet(Qb)
        <5>1. PyScope[x.node] = t
          BY <1>2, <1>4, <2>5, <4>1, PyScopeOfChild
        <5> QED
          BY <2>3, <2>5, <4>1, <5>1
      <4>2. CASE x \in ToSet(Qa)
        <5>1. PyScope[x.node] = PyScope[t]
          BY <1>2, <2>6, <4>2, PyScopeOfChild
        <5> QED
          BY <2>6, <3>1, <4>2, <5>1
      <4> QED
        BY <4>1, <4>2
    <3> HIDE DEF Q
    <3> QED
      BY <1>1, <2>3, <2>7, <3>2, PyOwnedNext
  <2>10. DroppedAtTheLimit(result', D)
    <3>1. ~result.truncated /\ D = {}
      BY <1>1, <1>6 DEF DroppedAtTheLimit, SymbolsFull, PyResult
    <3> QED
      BY <2>3, <3>1 DEF DroppedAtTheLimit
  <2> QED
    BY <2>3, <2>8, <2>9, <2>10 DEF PyWalk
<1> QED
  BY <1>5, <1>6

(* An import has nothing on it.                                            *)
LEMMA PyVisitImport ==
  ASSUME PyTree, NEW V, NEW D, PyWalk(stack, result, V, D), stack # << >>, VisitImport
  PROVE  PyWalk(stack', result', V \cup {Top.node}, D)
<1> DEFINE t == Top.node
           W == V \cup {t}
           new == [node |-> t,
                   scope |-> IF Top.owner = 0 THEN "module" ELSE result.symbols[Top.owner].kind,
                   conditional |-> Around(t) \cap {"if", "if typing"} # {},
                   typeOnly |-> "if typing" \in Around(t)]
           list == Append(result.imports, new)
<1>1. /\ IsStack(stack, PyEntry) /\ PyStacked(stack, V, D) /\ PyOwned(stack, result)
      /\ \A x \in ToSet(stack) : x.context => IsDefinition(x.node)
      /\ result \in PyResult /\ PyRecorded(result, V, D) /\ PyCalled(result, V)
      /\ DroppedAtTheLimit(result, D)
  BY DEF PyWalk, PyStacked
<1>2. Top \in PyEntry /\ Top \in ToSet(stack) /\ t \in Nodes
  BY <1>1, PyFresh
<1>3. IsStack(Popped, PyEntry)
  BY <1>1, Taken
<1>4. Kind(t) = "import" /\ result' = [result EXCEPT !.imports = list] /\ stack' = Popped
  BY DEF VisitImport
<1>5. new \in PyImport
  <2>1. t \in Nat /\ Top.owner \in Nat
    BY <1>2, PyNodes DEF PyEntry
  <2>2. HasKey(result, PyScope[t], Top.owner)
    BY <1>1, <1>2 DEF PyOwned
  <2>3. (IF Top.owner = 0 THEN "module" ELSE result.symbols[Top.owner].kind) \in PyScopes
    <3>1. CASE Top.owner = 0
      BY <3>1 DEF PyScopes
    <3>2. CASE Top.owner # 0
      <4>1. Top.owner \in DOMAIN result.symbols /\ result.symbols \in Seq(PySymbol)
        BY <1>1, <2>2, <3>2 DEF HasKey, PyResult
      <4>2. result.symbols[Top.owner] \in PySymbol
        BY <4>1, LenProperties, ElementOfSeq
      <4> QED
        BY <3>2, <4>2 DEF PySymbol
    <3> QED
      BY <3>1, <3>2
  <2>4. (Around(t) \cap {"if", "if typing"} # {}) \in BOOLEAN /\ ("if typing" \in Around(t)) \in BOOLEAN
    OBVIOUS
  <2> QED
    BY <2>1, <2>3, <2>4 DEF PyImport
<1> HIDE DEF new
<1>6. list \in Seq(PyImport)
  BY <1>1, <1>5, Appended DEF PyResult
<1> HIDE DEF list
<1>7. /\ result' \in PyResult /\ result'.symbols = result.symbols
      /\ result'.calls = result.calls /\ result'.truncated = result.truncated
  BY <1>1, <1>4, <1>6 DEF PyResult
<1>8. Carries(result, result') /\ ~IsDefinition(t) /\ ~PyCalls(t)
  BY <1>4, <1>7 DEF Carries, PyCalls, IsDefinition, PyDefinitions
<1>9. PyStacked(stack', W, D)
  <2>1. {j \in Nodes : Up(j) = Top.node /\ Entered(j) /\ ~FALSE} = {}
    BY <1>4 DEF PyTree
  <2>2. ~Top.context
    BY <1>1, <1>2, <1>8 DEF PyEntry
  <2> DEFINE none == {}
  <2>3. ToSet(stack') = ToSet(Popped) \cup none
    BY <1>4
  <2>4. NodesOf(stack') = NodesOf(Popped) \cup
              {j \in Nodes : Up(j) = Top.node /\ Entered(j) /\ ~FALSE}
    BY <1>4, <2>1
  <2>5. (\A x \in none : x.context <=> Decorated(x.node)) /\ IsStack(stack', PyEntry)
    BY <1>3, <1>4
  <2> HIDE DEF none
  <2>6. PyStacked(stack', V \cup {Top.node}, IF FALSE THEN D \cup {Top.node} ELSE D)
    BY <1>1, <2>2, <2>3, <2>4, <2>5, PyVisits
  <2> QED
    BY <2>6
<1>10. PyOwned(stack', result')
  <2> DEFINE none == {}
  <2>1. ToSet(stack') = ToSet(Popped) \cup none
    BY <1>4
  <2>2. \A x \in none : HasKey(result', PyScope[x.node], x.owner)
    OBVIOUS
  <2> HIDE DEF none
  <2> QED
    BY <1>1, <1>8, <2>1, <2>2, PyOwnedNext
<1>11. PyRecorded(result', W, D) /\ PyCalled(result', W)
  BY <1>1, <1>7, <1>8, SameSymbols, SameCalls
<1> QED
  BY <1>1, <1>7, <1>9, <1>10, <1>11 DEF PyWalk, DroppedAtTheLimit

(* A call.                                                                 *)
LEMMA PyVisitCall ==
  ASSUME PyTree, NEW V, NEW D, PyWalk(stack, result, V, D), stack # << >>, VisitCall
  PROVE  PyWalk(stack', result', V \cup {Top.node}, D)
<1> DEFINE t == Top.node
           W == V \cup {t}
           res == [result EXCEPT !.calls = Append(@, [node |-> t, caller |-> Top.owner])]
<1>1. /\ PyStacked(stack, V, D) /\ PyOwned(stack, result)
      /\ result \in PyResult /\ PyRecorded(result, V, D) /\ PyCalled(result, V)
      /\ DroppedAtTheLimit(result, D)
  BY DEF PyWalk
<1>2. Top \in PyEntry /\ Top \in ToSet(stack) /\ t \in Nodes /\ t \notin V /\ Top.owner \in Nat
  BY <1>1, PyFresh DEF PyEntry
<1>3. HasKey(result, PyScope[t], Top.owner)
  BY <1>1, <1>2 DEF PyOwned
<1>4. /\ Kind(t) = "call" /\ result' = (IF tree[t].name = "" THEN result ELSE res)
      /\ stack' = Popped \o PyEntries(Children(t), Top.owner)
  BY DEF VisitCall
<1>5. /\ result' \in PyResult /\ result'.symbols = result.symbols
      /\ result'.truncated = result.truncated
      /\ PyRecorded(result', W, D) /\ PyCalled(result', W)
  <2>1. CASE tree[t].name # ""
    <3>1. PyCalls(t) /\ result' = res
      BY <1>4, <2>1 DEF PyCalls
    <3>2. /\ res \in PyResult /\ res.symbols = result.symbols /\ res.truncated = result.truncated
          /\ PyRecorded(res, W, D) /\ PyCalled(res, W)
      BY <1>1, <1>2, <1>3, <3>1, PyAddsCall
    <3> HIDE DEF res
    <3> QED
      BY <3>1, <3>2
  <2>2. CASE tree[t].name = ""
    <3>1. ~PyCalls(t) /\ ~IsDefinition(t) /\ result' = result
      BY <1>4, <2>2 DEF PyCalls, IsDefinition, PyDefinitions
    <3>2. Carries(result, result)
      BY DEF Carries
    <3> QED
      BY <1>1, <3>1, <3>2, SameSymbols, SameCalls
  <2> QED
    BY <2>1, <2>2
<1>6. Carries(result, result') /\ ~IsDefinition(t)
  BY <1>4, <1>5 DEF Carries, IsDefinition, PyDefinitions
<1>7. PyStacked(stack', W, D) /\ PyOwned(stack', result')
  BY <1>1, <1>4, <1>6, PyGoesOn
<1>8. DroppedAtTheLimit(result', D)
  BY <1>1, <1>5 DEF DroppedAtTheLimit
<1> QED
  BY <1>5, <1>7, <1>8 DEF PyWalk

(* A return marks the function it is in.                                   *)
LEMMA PyVisitOther ==
  ASSUME PyTree, NEW V, NEW D, PyWalk(stack, result, V, D), stack # << >>, VisitOther
  PROVE  PyWalk(stack', result', V \cup {Top.node}, D)
<1> DEFINE t == Top.node
           W == V \cup {t}
           marked == [result EXCEPT !.symbols[Top.owner].returns = TRUE]
<1>1. /\ PyStacked(stack, V, D) /\ PyOwned(stack, result)
      /\ result \in PyResult /\ PyRecorded(result, V, D) /\ PyCalled(result, V)
      /\ DroppedAtTheLimit(result, D)
  BY DEF PyWalk
<1>2. Top \in PyEntry /\ Top \in ToSet(stack) /\ t \in Nodes /\ t \notin V /\ Top.owner \in Nat
  BY <1>1, PyFresh DEF PyEntry
<1>3. HasKey(result, PyScope[t], Top.owner)
  BY <1>1, <1>2 DEF PyOwned
<1>4. /\ stack' = Popped \o PyEntries(Children(t), Top.owner)
      /\ (result' = marked /\ Top.owner # 0) \/ result' = result
      /\ ~IsDefinition(t) /\ ~PyCalls(t)
  BY DEF VisitOther, PyCalls, IsDefinition, PyDefinitions
<1>5. /\ result' \in PyResult /\ result'.calls = result.calls
      /\ result'.truncated = result.truncated
      /\ DOMAIN result'.symbols = DOMAIN result.symbols
      /\ Len(result'.symbols) = Len(result.symbols) /\ Carries(result, result')
  <2>1. CASE result' = result
    BY <1>1, <2>1 DEF Carries
  <2>2. CASE result' = marked /\ Top.owner # 0
    <3> DEFINE o == Top.owner
               one == [result.symbols[o] EXCEPT !.returns = TRUE]
               list == [result.symbols EXCEPT ![o] = one]
    <3>1. result.symbols \in Seq(PySymbol) /\ o \in DOMAIN result.symbols
      BY <1>1, <1>3, <2>2 DEF HasKey, PyResult
    <3>2. result.symbols[o] \in PySymbol
      BY <3>1, LenProperties, ElementOfSeq
    <3>3. /\ one \in PySymbol /\ one.node = result.symbols[o].node
          /\ one.name = result.symbols[o].name /\ one.parent = result.symbols[o].parent
      BY <3>2 DEF PySymbol
    <3>4. result' = [result EXCEPT !.symbols = list]
      BY <1>1, <2>2 DEF PyResult
    <3> HIDE DEF one
    <3>5. /\ DOMAIN list = DOMAIN result.symbols
          /\ \A k \in DOMAIN list : list[k] = IF k = o THEN one ELSE result.symbols[k]
      BY <3>1
    <3>6. list \in Seq(PySymbol) /\ Len(list) = Len(result.symbols)
      BY <3>1, <3>3, ExceptSeq
    <3> HIDE DEF list
    <3>7. /\ result' \in PyResult /\ result'.calls = result.calls /\ result'.symbols = list
          /\ result'.truncated = result.truncated
      BY <1>1, <3>4, <3>6 DEF PyResult
    <3> QED
      BY <3>3, <3>5, <3>6, <3>7 DEF Carries
  <2> QED
    BY <1>4, <2>1, <2>2
<1>6. PyStacked(stack', W, D) /\ PyOwned(stack', result')
  BY <1>1, <1>4, <1>5, PyGoesOn
<1>7. PyRecorded(result', W, D) /\ PyCalled(result', W)
  <2>1. \A i : IsDefinition(i) => (i \in W \ D <=> i \in V \ D)
    BY <1>4
  <2>2. V \subseteq W /\ \A i \in W : PyCalls(i) => i \in V
    BY <1>4
  <2> HIDE DEF W
  <2>3. PyRecorded(result', W, D)
    BY <1>1, <1>5, <2>1, SameSymbols
  <2>4. PyCalled(result', W)
    BY <1>1, <1>5, <2>2, SameCalls
  <2> QED
    BY <2>3, <2>4
<1>8. DroppedAtTheLimit(result', D)
  BY <1>1, <1>5 DEF DroppedAtTheLimit
<1> QED
  BY <1>5, <1>6, <1>7, <1>8 DEF PyWalk

-----------------------------------------------------------------------------
(* Python: the whole analysis.                                             *)

\* What the walk leaves: everything but the headers is visited unless the
\* file is truncated.
PyVisited(res, V, D) ==
  /\ V \subseteq Nodes /\ \A i \in V : ~InHeader(i)
  /\ PyRecorded(res, V, D) /\ PyCalled(res, V) /\ DroppedAtTheLimit(res, D)
  /\ ~res.truncated => \A i \in Nodes : InHeader(i) \/ i \in V
  /\ 0 \notin DOMAIN res.symbols

PyInv ==
  language = "python" =>
    /\ PyTree /\ stage \in {"parse", "walk", "done"}
    /\ stage = "parse" => stack = << >> /\ result = NoResult
    /\ stage = "walk" => \E V, D : PyWalk(stack, result, V, D)
    /\ stage = "done" => ExportsAgree /\ \E V, D : PyVisited(result, V, D)

(* What holds of the walk holds in the next state if the tree is the same. *)
LEMMA PyWalkStays ==
  ASSUME tree' = tree, NEW V, NEW D, PyWalk(stack', result', V, D)
  PROVE  PyWalk(stack, result, V, D)'
<1>1. PyScope' = PyScope
  BY PyScopeStays
<1>2. PyStacked(stack', V, D) => PyStacked(stack, V, D)'
  BY DEF PyStacked, PyReached, Entered, Decorates, InHeader, IsDefinition, Kind, Up, Nodes, NodesOf, ToSet, IsStack,
         Distinct
<1>3. PyOwned(stack', result') => PyOwned(stack, result)'
  BY <1>1 DEF PyOwned, HasKey
<1>4. PyRecorded(result', V, D) => PyRecorded(result, V, D)'
  BY <1>1 DEF PyRecorded, HasKey, IsDefinition, Kind, Distinct
<1>5. PyCalled(result', V) => PyCalled(result, V)'
  BY <1>1 DEF PyCalled, PyCalls, HasKey, Kind, Distinct
<1>6. DroppedAtTheLimit(result', D) => DroppedAtTheLimit(result, D)'
  BY DEF DroppedAtTheLimit
<1> QED
  BY <1>2, <1>3, <1>4, <1>5, <1>6 DEF PyWalk

(* The same of what the walk leaves.                                       *)
LEMMA PyVisitedStays ==
  ASSUME tree' = tree, NEW V, NEW D, PyVisited(result', V, D)
  PROVE  PyVisited(result, V, D)'
<1>1. PyScope' = PyScope
  BY PyScopeStays
<1>2. PyRecorded(result', V, D) => PyRecorded(result, V, D)'
  BY <1>1 DEF PyRecorded, HasKey, IsDefinition, Kind, Distinct
<1>3. PyCalled(result', V) => PyCalled(result, V)'
  BY <1>1 DEF PyCalled, PyCalls, HasKey, Kind, Distinct
<1>4. DroppedAtTheLimit(result', D) => DroppedAtTheLimit(result, D)'
  BY DEF DroppedAtTheLimit
<1> QED
  BY <1>2, <1>3, <1>4 DEF PyVisited, InHeader, Nodes

(* A tree grows by a node below one of those that are there.               *)
LEMMA PyTreeGrows ==
  ASSUME PyTree, PyGrows
  PROVE  PyTree'
<1>1. PICK form \in PyForms, up \in OpenNodes :
        /\ PyPlaces(form, up)
        /\ \E field \in PyFields(form, up) :
             Grows([kind |-> form.kind, name |-> form.name, up |-> up, field |-> field])
  BY DEF PyGrows
<1>2. PICK field \in PyFields(form, up) :
        Grows([kind |-> form.kind, name |-> form.name, up |-> up, field |-> field])
  BY <1>1
<1> DEFINE node == [kind |-> form.kind, name |-> form.name, up |-> up, field |-> field]
           n == Len(tree)
<1>3. tree' = Append(tree, node)
  BY <1>2 DEF Grows
<1>4. tree \in Seq(PyNode) /\ n \in Nat /\ Nodes = 1..n /\ up \in 0..n /\ (up = 0 \/ ~InHeader(up))
  BY PyNodes DEF PyTree, OpenNodes
<1>5. /\ field \in {"body", "args", "header", "decorator"}
      /\ field # "body" => IsDefinition(up) /\ form.kind = "call"
  <2>1. PyFields(form, up) \subseteq {"body", "args", "header", "decorator"}
    BY DEF PyFields
  <2>2. ~IsDefinition(up) \/ form.kind # "call" => field = "body"
    BY DEF PyFields
  <2> QED
    BY <2>1, <2>2
<1>6. node \in PyNode
  <2>1. form.kind \in PyStatements /\ form.name \in PyNames
    BY PyFormsAssumption DEF PyNames
  <2> QED
    BY <1>4, <1>5, <2>1 DEF PyNode
<1>7. Kind(up) # "import" /\ ~IsDefinition(0)
  BY <1>1 DEF PyPlaces, IsDefinition, Kind, PyDefinitions
<1>8. form.kind \in PyDefinitions => form.name # ""
  BY PyFormsAssumption
<1>9. /\ node.kind = form.kind /\ node.name = form.name
      /\ node.up = up /\ node.field = field
  OBVIOUS
<1> HIDE DEF node
<1>10. /\ tree' \in Seq(PyNode) /\ Nodes' = 1..(n + 1) /\ tree'[n + 1] = node
       /\ \A i \in Nodes : i # n + 1 /\ i \in Nodes' /\ tree'[i] = tree[i]
       /\ \A i \in Nodes' : i \in Nodes \/ i = n + 1
  BY <1>3, <1>4, <1>6, Appended DEF Nodes
<1>11. \A i \in Nodes \cup {0} : Kind(i)' = Kind(i) /\ (IsDefinition(i)' <=> IsDefinition(i))
  BY <1>10 DEF Kind, IsDefinition
<1>12. ASSUME NEW i \in Nodes'
       PROVE  /\ Up(i)' < i /\ Kind(Up(i))' # "import"
              /\ IsDefinition(i)' => tree'[i].name # ""
              /\ InHeader(i)' => Kind(i)' = "call"
              /\ Up(i)' # 0 => ~InHeader(Up(i))'
              /\ tree'[i].field # "body" => Up(i)' # 0 /\ IsDefinition(Up(i))'
  <2>1. CASE i \in Nodes
    <3>1. /\ Up(i) < i /\ Kind(Up(i)) # "import" /\ (IsDefinition(i) => tree[i].name # "")
          /\ (InHeader(i) => Kind(i) = "call") /\ (Up(i) # 0 => ~InHeader(Up(i)))
          /\ tree[i].field # "body" => Up(i) # 0 /\ IsDefinition(Up(i))
          /\ Up(i) \in Nodes \cup {0}
      BY <2>1, PyNodes DEF PyTree
    <3>2. Up(i)' = Up(i) /\ tree'[i] = tree[i]
      BY <1>10, <2>1 DEF Up
    <3>3. Kind(Up(i))' = Kind(Up(i)) /\ (IsDefinition(Up(i))' <=> IsDefinition(Up(i)))
      BY <1>11, <3>1, <3>2 DEF Kind, IsDefinition
    <3>4. Up(i) # 0 => (InHeader(Up(i))' <=> InHeader(Up(i)))
      BY <1>10, <3>1, <3>2 DEF InHeader
    <3>5. (InHeader(i)' <=> InHeader(i)) /\ Kind(i)' = Kind(i)
      BY <1>11, <2>1, <3>2 DEF InHeader
    <3> QED
      BY <1>11, <2>1, <3>1, <3>2, <3>3, <3>4, <3>5
  <2>2. CASE i = n + 1
    <3>1. Up(i)' = up /\ up < i /\ up \in Nodes \cup {0} /\ i # 0
      BY <1>4, <1>9, <1>10, <2>2 DEF Up
    <3>2. Kind(Up(i))' = Kind(up) /\ (IsDefinition(Up(i))' <=> IsDefinition(up))
      BY <1>11, <3>1 DEF Kind, IsDefinition
    <3>3. IsDefinition(i)' => form.kind \in PyDefinitions
      BY <1>9, <1>10, <2>2, <3>1 DEF Kind, IsDefinition
    <3>4. InHeader(i)' => Kind(i)' = "call"
      BY <1>5, <1>9, <1>10, <2>2, <3>1 DEF InHeader, Kind
    <3>5. Up(i)' # 0 => ~InHeader(Up(i))'
      BY <1>4, <1>10, <3>1 DEF InHeader
    <3> QED
      BY <1>5, <1>7, <1>8, <1>9, <1>10, <2>2, <3>1, <3>2, <3>3, <3>4, <3>5
  <2> QED
    BY <1>10, <2>1, <2>2
<1> QED
  BY <1>10, <1>12 DEF PyTree

(* The walk begins with the nodes under the root.                          *)
LEMMA PyBegins ==
  ASSUME PyTree, result = NoResult, PyParsed
  PROVE  PyWalk(stack', result', {}, {})
<1> DEFINE P == {j \in Nodes : Up(j) = 0}
           S == ToSet(stack')
<1>1. stack' = PyEntries(Sorted(P), 0) /\ result' = NoResult
  BY DEF PyParsed, Children
<1>2. /\ IsStack(stack', PyEntry) /\ NodesOf(stack') = P
      /\ \A x \in S : x.owner = 0 /\ (x.context <=> Decorated(x.node))
  <2>1. P \in SUBSET Nodes /\ 0 \in Nat
    OBVIOUS
  <2> HIDE DEF P
  <2> QED
    BY <1>1, <2>1, PyEntriesOf
<1>3. \A x \in S : x.node \in P
  BY <1>2 DEF NodesOf
<1>4. \A i : Decorated(i) => IsDefinition(i) /\ i # 0
  BY DEF Decorated, Decorates, PyTree
<1>5. PyStacked(stack', {}, {})
  <2>1. ASSUME NEW i \in Nodes PROVE i \in P <=> PyReached(i, {}, {}, S)
    <3>1. Decorates(i) => \A x \in S : x.node = Up(i) => x.context
      BY <1>2 DEF Decorated
    <3> QED
      BY <3>1 DEF PyReached
  <2>2. P \subseteq Nodes
    OBVIOUS
  <2> HIDE DEF P
  <2> QED
    BY <1>2, <1>3, <1>4, <2>1, <2>2 DEF PyStacked
<1>6. PyOwned(stack', result')
  <2>1. \A x \in S : PyScope[x.node] = 0
    BY <1>3, PyScopeUnfolds DEF PyScopeStep
  <2> QED
    BY <1>2, <2>1 DEF PyOwned, HasKey
<1>7. /\ result'.symbols = << >> /\ result'.calls = << >> /\ result'.imports = << >>
      /\ result'.exports = << >> /\ result'.truncated = FALSE
      /\ result' = [symbols |-> << >>, calls |-> << >>, imports |-> << >>, exports |-> << >>,
                    truncated |-> FALSE]
  BY <1>1 DEF NoResult
<1>8. result' \in PyResult
  BY <1>7 DEF PyResult
<1>9. PyRecorded(result', {}, {}) /\ PyCalled(result', {}) /\ DroppedAtTheLimit(result', {})
  BY <1>7 DEF PyRecorded, PyCalled, DroppedAtTheLimit, Distinct
<1> QED
  BY <1>5, <1>6, <1>8, <1>9 DEF PyWalk

(* When the stack is empty every node was visited, unless one was dropped. *)
LEMMA PyVisitsAll ==
  ASSUME PyTree, NEW V, NEW D, PyWalk(<< >>, result, V, D)
  PROVE  PyVisited(result, V, D)
<1> DEFINE N == Len(tree)
           S == {n \in 0..N : \A i \in 1..n : InHeader(i) \/ i \in V}
<1>1. /\ V \subseteq Nodes /\ PyRecorded(result, V, D) /\ PyCalled(result, V)
      /\ DroppedAtTheLimit(result, D) /\ PyStacked(<< >>, V, D)
  BY DEF PyWalk, PyStacked
<1>2. ASSUME ~result.truncated PROVE \A i \in Nodes : InHeader(i) \/ i \in V
  <2>1. D = {}
    BY <1>1, <1>2 DEF DroppedAtTheLimit
  <2>2. NodesOf(<< >>) = {} /\ ToSet(<< >>) = {}
    BY DEF NodesOf, ToSet
  <2>3. \A i \in Nodes : i \in V <=> PyReached(i, V, D, {})
    BY <1>1, <2>2 DEF PyStacked
  <2>4. \A i \in Nodes : ~InHeader(i) /\ (Up(i) = 0 \/ Up(i) \in V) => i \in V
    BY <2>1, <2>3 DEF PyReached, Entered
  <2>5. /\ N \in Nat /\ Nodes = 1..N
        /\ \A i \in Nodes : Up(i) \in Nat /\ Up(i) < i /\ (Up(i) # 0 => Up(i) \in Nodes)
    BY PyNodes
  <2>6. 0 \in S
    BY <2>5
  <2>7. ASSUME NEW n \in 0..(N - 1), n \in S PROVE n + 1 \in S
    <3>1. n + 1 \in 1..N /\ n + 1 \in 0..N /\ \A i \in 1..(n + 1) : i \in 1..n \/ i = n + 1
      BY <2>5
    <3>2. Up(n + 1) = 0 \/ Up(n + 1) \in 1..n
      BY <2>5, <3>1
    <3>3. Up(n + 1) = 0 \/ Up(n + 1) \in V
      BY <2>5, <2>7, <3>1, <3>2 DEF PyTree
    <3>4. InHeader(n + 1) \/ n + 1 \in V
      BY <2>4, <2>5, <3>1, <3>3
    <3> QED
      BY <2>7, <3>1, <3>4
  <2>8. \A n \in 0..N : n \in S
    <3> HIDE DEF S
    <3> QED
      BY <2>5, <2>6, <2>7, Climb
  <2>9. N \in S
    <3>1. N \in 0..N
      BY <2>5
    <3> HIDE DEF S
    <3> QED
      BY <2>8, <3>1
  <2> QED
    BY <1>1, <2>5, <2>9
<1>3. 0 \notin DOMAIN result.symbols
  <2>1. result.symbols \in Seq(PySymbol)
    BY DEF PyWalk, PyResult
  <2>2. DOMAIN result.symbols = 1..Len(result.symbols) /\ Len(result.symbols) \in Nat
    BY <2>1, LenProperties
  <2> QED
    BY <2>2
<1>4. \A i \in V : ~InHeader(i)
  <2>1. ToSet(<< >>) = {}
    BY DEF ToSet
  <2>2. \A i \in V : i \in Nodes /\ PyReached(i, V, D, {})
    BY <1>1, <2>1 DEF PyStacked
  <2> QED
    BY <2>2 DEF PyReached, Entered, Decorates, InHeader, PyTree
<1> QED
  BY <1>1, <1>2, <1>3, <1>4 DEF PyVisited

(* The exports, when they are applied.                                     *)
LEMMA PyApplies ==
  ASSUME PyTree, language = "python", language' = language, NEW V, NEW D,
         PyVisited(result, V, D), result \in PyResult, ApplyExports
  PROVE  PyVisited(result', V, D) /\ ExportsAgree'
<1> DEFINE All == DunderAll
           IsExported(symbol) ==
             /\ AtTopLevel(symbol)
             /\ IF All # << >> THEN symbol.name \in ToSet(All) ELSE symbol.name \notin Private
           local == {s.name : s \in {t \in ToSet(result.symbols) : AtTopLevel(t)}}
           E == {k \in DOMAIN result.symbols : IsExported(result.symbols[k])}
           public == Sorted(E)
           marked == [k \in DOMAIN result.symbols |->
                        [result.symbols[k] EXCEPT !.exported = IsExported(result.symbols[k])]]
           named == [k \in DOMAIN All |->
                       [name |-> All[k], local |-> IF All[k] \in local THEN All[k] ELSE ""]]
           listed == [n \in DOMAIN public |-> LET name == result.symbols[public[n]].name IN
                        [name |-> name, local |-> name]]
<1>1. result' = [result EXCEPT !.symbols = marked,
                               !.exports = IF All # << >> THEN named ELSE listed]
  BY DEF ApplyExports
<1>2. /\ result'.symbols = marked /\ result'.exports = (IF All # << >> THEN named ELSE listed)
      /\ result'.calls = result.calls /\ result'.truncated = result.truncated
  BY <1>1 DEF PyResult
<1>3. /\ result.symbols \in Seq(PySymbol) /\ Len(result.symbols) \in Nat
      /\ DOMAIN result.symbols = 1..Len(result.symbols)
      /\ \A k \in DOMAIN result.symbols : result.symbols[k] \in PySymbol
  BY LenProperties, ElementOfSeq DEF PyResult
<1>4. /\ DOMAIN marked = DOMAIN result.symbols
      /\ \A k \in DOMAIN result.symbols :
           /\ marked[k].node = result.symbols[k].node /\ marked[k].name = result.symbols[k].name
           /\ marked[k].parent = result.symbols[k].parent
           /\ marked[k].exported <=> IsExported(result.symbols[k])
  <2> HIDE DEF IsExported
  <2> QED
    BY <1>3 DEF PySymbol
<1>5. Len(marked) = Len(result.symbols)
  <2> HIDE DEF marked
  <2>1. \A n \in Nat : DOMAIN marked = 1..n => Len(marked) = n
    OBVIOUS
  <2> QED
    BY <1>3, <1>4, <2>1
<1>6. \A k \in DOMAIN result.symbols : result.symbols[k].name # ""
  <2>1. \A k \in DOMAIN result.symbols :
          LET t == result.symbols[k] IN
            t.node \in Nodes /\ IsDefinition(t.node) /\ t.name = tree[t.node].name
    BY DEF PyVisited, PyRecorded
  <2> QED
    BY <2>1 DEF PyTree
<1>7. PyVisited(result', V, D)
  <2>1. Carries(result, result') /\ DOMAIN result'.symbols = DOMAIN result.symbols
    <3> HIDE DEF marked
    <3> QED
      BY <1>2, <1>4 DEF Carries
  <2>2. PyRecorded(result', V, D)
    BY <2>1, SameSymbols DEF PyVisited
  <2>3. PyCalled(result', V)
    BY <1>2, <2>1, SameCalls DEF PyVisited
  <2>4. DroppedAtTheLimit(result', D)
    BY <1>2, <1>5 DEF PyVisited, DroppedAtTheLimit
  <2> QED
    BY <1>2, <2>1, <2>2, <2>3, <2>4 DEF PyVisited
<1>8. ASSUME NEW k \in DOMAIN result.symbols, AtTopLevel(result.symbols[k])
      PROVE  (\E e \in ToSet(result'.exports) : e.local = result.symbols[k].name)
               <=> \E l \in DOMAIN result.symbols :
                     result.symbols[l].name = result.symbols[k].name /\ IsExported(result.symbols[l])
  <2> DEFINE name == result.symbols[k].name
  <2>1. name # "" /\ name \in local
    <3>1. result.symbols[k] \in ToSet(result.symbols)
      BY DEF ToSet
    <3> QED
      BY <1>6, <1>8, <3>1
  <2>2. CASE All # << >>
    <3>1. result'.exports = named
      BY <1>2, <2>2
    <3> HIDE DEF All, local
    <3>2. /\ DOMAIN named = DOMAIN All
          /\ \A m \in DOMAIN All : named[m].local = IF All[m] \in local THEN All[m] ELSE ""
      OBVIOUS
    <3> HIDE DEF named, name
    <3>3. (\E e \in ToSet(result'.exports) : e.local = name) <=> \E m \in DOMAIN All : All[m] = name
      BY <2>1, <3>1, <3>2 DEF ToSet
    <3>4. (\E m \in DOMAIN All : All[m] = name) <=> name \in ToSet(All)
      BY DEF ToSet
    <3>5. (\E l \in DOMAIN result.symbols : result.symbols[l].name = name /\ IsExported(result.symbols[l]))
            <=> name \in ToSet(All)
      BY <1>8, <2>2 DEF name
    <3> QED
      BY <3>3, <3>4, <3>5 DEF name
  <2>3. CASE All = << >>
    <3>1. result'.exports = listed
      BY <1>2, <2>3
    <3>2. ToSet(public) = E
      <4>1. E \in SUBSET (1..Len(result.symbols))
        BY <1>3
      <4> HIDE DEF E
      <4> QED
        BY <1>3, <4>1, SortedFacts
    <3> HIDE DEF public
    <3>3. DOMAIN listed = DOMAIN public /\ \A m \in DOMAIN public : listed[m].local = result.symbols[public[m]].name
      OBVIOUS
    <3> HIDE DEF listed, name, E
    <3>4. (\E e \in ToSet(result'.exports) : e.local = name)
            <=> \E m \in DOMAIN public : result.symbols[public[m]].name = name
      BY <3>1, <3>3 DEF ToSet
    <3>5. (\E m \in DOMAIN public : result.symbols[public[m]].name = name)
            <=> \E l \in E : result.symbols[l].name = name
      BY <3>2 DEF ToSet
    <3> QED
      BY <3>4, <3>5 DEF name, E
  <2> QED
    BY <2>2, <2>3
<1>9. ExportsAgree'
  <2> HIDE DEF IsExported, marked
  <2>1. ModuleSymbols' = {marked[k] : k \in {l \in DOMAIN result.symbols : AtTopLevel(result.symbols[l])}}
    <3>1. ToSet(result'.symbols) = {marked[k] : k \in DOMAIN result.symbols}
      BY <1>2, <1>4 DEF ToSet
    <3>2. \A k \in DOMAIN result.symbols : marked[k].parent = 0 <=> AtTopLevel(result.symbols[k])
      BY <1>4 DEF AtTopLevel
    <3> QED
      BY <3>1, <3>2 DEF ModuleSymbols
  <2>2. ASSUME NEW s \in ModuleSymbols'
        PROVE  (\E e \in ToSet(result'.exports) : e.local = s.name)
                 <=> \E t \in ModuleSymbols' : t.name = s.name /\ t.exported
    <3>1. PICK k \in DOMAIN result.symbols : s = marked[k] /\ AtTopLevel(result.symbols[k])
      BY <2>1
    <3>2. s.name = result.symbols[k].name
      BY <1>4, <3>1
    <3>3. (\E t \in ModuleSymbols' : t.name = s.name /\ t.exported)
            <=> \E l \in DOMAIN result.symbols :
                  /\ AtTopLevel(result.symbols[l]) /\ result.symbols[l].name = s.name
                  /\ IsExported(result.symbols[l])
      BY <1>4, <2>1
    <3>4. \A l \in DOMAIN result.symbols :
            IsExported(result.symbols[l]) => AtTopLevel(result.symbols[l])
      BY DEF IsExported
    <3> QED
      BY <1>8, <3>1, <3>2, <3>3, <3>4
  <2> QED
    BY <2>2 DEF ExportsAgree
<1> QED
  BY <1>7, <1>9

(* What was visited is what the scopes say.                                *)
LEMMA PyScopesAreRight ==
  ASSUME PyInv, language = "python"
  PROVE  ScopesAreRight
<1> SUFFICES ASSUME stage = "done" PROVE ScopesAreRight
  BY DEF ScopesAreRight
<1>1. PyTree /\ \E V, D : PyVisited(result, V, D)
  BY DEF PyInv
<1>2. PICK V, D : PyVisited(result, V, D)
  BY <1>1
<1>3. /\ V \subseteq Nodes /\ PyRecorded(result, V, D) /\ PyCalled(result, V)
      /\ DroppedAtTheLimit(result, D) /\ \A i \in V : ~InHeader(i)
      /\ ~result.truncated => \A i \in Nodes : InHeader(i) \/ i \in V
  BY <1>2 DEF PyVisited
<1>4. 0 \notin Nodes /\ \A i \in Nodes : Kind(i) \in PyStatements
  BY <1>1, PyNodes
<1>11. \A i : i \in CallNodes <=> i \in Nodes /\ ~InHeader(i) /\ PyCalls(i)
  BY <1>4 DEF CallNodes, PyCalls, PyStatements, PyDefinitions
<1>5. Recorded = {result.symbols[k].node : k \in DOMAIN result.symbols}
  BY DEF Recorded, ToSet
<1>6. ASSUME NEW i, NEW k, HasKey(result, i, k) PROVE KeyOf(i) = k
  <2>1. CASE k = 0
    <3>1. i = 0 /\ \A l \in DOMAIN result.symbols : result.symbols[l].node \in Nodes
      BY <1>3, <1>6, <2>1 DEF HasKey, PyRecorded
    <3>2. i \notin Recorded
      BY <1>4, <1>5, <3>1
    <3> QED
      BY <2>1, <3>2 DEF KeyOf
  <2>2. CASE k # 0
    <3>1. k \in DOMAIN result.symbols /\ result.symbols[k].node = i
      BY <1>6, <2>2 DEF HasKey
    <3>2. \A l \in DOMAIN result.symbols : result.symbols[l].node = i => l = k
      BY <1>3, <3>1 DEF PyRecorded, Distinct
    <3>3. i \in Recorded
      BY <1>5, <3>1
    <3> QED
      BY <3>1, <3>2, <3>3 DEF KeyOf
  <2> QED
    BY <2>1, <2>2
<1>7. ASSUME NEW k \in DOMAIN result.symbols
      PROVE  LET s == result.symbols[k] IN
               /\ IsSymbolOf(s.node) /\ KeyOf(s.node) = k
               /\ s.parent = KeyOf(Scope(s.node)) /\ s.parent < k
  <2> DEFINE s == result.symbols[k]
  <2>1. IsDefinition(s.node) /\ s.parent < k /\ HasKey(result, PyScope[s.node], s.parent)
    BY <1>3 DEF PyRecorded
  <2>2. HasKey(result, s.node, k)
    <3>1. k # 0
      BY <1>2 DEF PyVisited
    <3> QED
      BY <3>1 DEF HasKey
  <2> QED
    BY <1>6, <2>1, <2>2 DEF IsSymbolOf, PySymbolic, Scope
<1>8. ASSUME NEW c \in ToSet(result.calls) 
      PROVE  c.node \in CallNodes /\ c.caller = KeyOf(CallScope(c.node))
  <2>1. PICK n \in DOMAIN result.calls : c = result.calls[n]
    BY DEF ToSet
  <2>2. c.node \in V /\ PyCalls(c.node) /\ HasKey(result, PyScope[c.node], c.caller)
    BY <1>3, <2>1 DEF PyCalled
  <2>3. c.node \in CallNodes
    BY <1>3, <1>11, <2>2
  <2> QED
    BY <1>6, <2>2, <2>3 DEF CallScope
<1>9. CASE result.truncated
  <2>1. SymbolsFull
    BY <1>3, <1>9 DEF DroppedAtTheLimit, SymbolsFull
  <2> QED
    BY <1>7, <1>8, <1>9, <2>1 DEF ScopesAreRight
<1>10. CASE ~result.truncated
  <2>1. D = {} /\ \A i \in Nodes : InHeader(i) \/ i \in V
    BY <1>3, <1>10 DEF DroppedAtTheLimit
  <2>2. \A i \in Nodes : IsSymbolOf(i) => i \in Recorded
    <3>1. \A i \in Nodes : IsDefinition(i) => ~InHeader(i)
      BY <1>1 DEF PyTree, IsDefinition, PyDefinitions
    <3> QED
      BY <1>3, <1>5, <2>1, <3>1 DEF PyRecorded, IsSymbolOf, PySymbolic
  <2>3. ASSUME NEW i \in CallNodes
        PROVE  Cardinality({n \in DOMAIN result.calls : result.calls[n].node = i}) = 1
    <3>1. i \in V /\ PyCalls(i)
      BY <1>11, <2>1
    <3>2. PICK n \in DOMAIN result.calls : result.calls[n].node = i
      BY <1>3, <2>1, <3>1 DEF PyCalled
    <3>3. \A m \in DOMAIN result.calls : result.calls[m].node = i => m = n
      BY <1>3, <3>2 DEF PyCalled, Distinct
    <3>4. {m \in DOMAIN result.calls : result.calls[m].node = i} = {n}
      BY <3>2, <3>3
    <3> QED
      BY <3>4, FS_Singleton
  <2> QED
    BY <1>7, <1>8, <1>10, <2>2, <2>3 DEF ScopesAreRight
<1> QED
  BY <1>9, <1>10

(* Every step of the analysis keeps the invariant.                         *)
LEMMA PyStep ==
  ASSUME PyInv, [ExtractionNext]_extractionVars
  PROVE  PyInv'
<1> SUFFICES ASSUME language' = "python" PROVE PyInv'
  BY DEF PyInv
<1>1. language = "python" /\ language' = language
  BY DEF ExtractionNext, extractionVars
<1>2. /\ PyTree /\ stage \in {"parse", "walk", "done"}
      /\ stage = "parse" => stack = << >> /\ result = NoResult
      /\ stage = "walk" => \E V, D : PyWalk(stack, result, V, D)
      /\ stage = "done" => ExportsAgree /\ \E V, D : PyVisited(result, V, D)
  BY <1>1 DEF PyInv
<1>3. CASE PyGrows
  <2>1. stage = "parse" /\ UNCHANGED <<stack, result, stage>>
    BY <1>3 DEF PyGrows, Grows
  <2>2. PyTree'
    BY <1>2, <1>3, PyTreeGrows
  <2> QED
    BY <1>2, <2>1, <2>2 DEF PyInv
<1>4. ASSUME tree' = tree PROVE PyTree'
  BY <1>2, <1>4 DEF PyTree, Nodes, Up, Kind, IsDefinition, InHeader
<1>5. CASE PyParsed
  <2>1. stage = "parse" /\ stage' = "walk" /\ tree' = tree
    BY <1>5 DEF PyParsed
  <2>2. PyWalk(stack', result', {}, {})
    BY <1>2, <1>5, <2>1, PyBegins
  <2>3. PyWalk(stack, result, {}, {})'
    BY <2>1, <2>2, PyWalkStays
  <2> QED
    BY <1>4, <2>1, <2>3 DEF PyInv
<1>6. CASE PyVisit
  <2>1. stage = "walk" /\ stage' = "walk" /\ tree' = tree /\ stack # << >>
    BY <1>6 DEF PyVisit
  <2>2. PICK V, D : PyWalk(stack, result, V, D)
    BY <1>2, <2>1
  <2>3. \E W, E : PyWalk(stack', result', W, E)
    <3>1. CASE VisitDecorated
      BY <1>2, <2>1, <2>2, <3>1, PyVisitDecorated
    <3>2. CASE VisitDefinition
      BY <1>2, <2>1, <2>2, <3>2, PyVisitDefinition
    <3>3. CASE VisitImport
      BY <1>2, <2>1, <2>2, <3>3, PyVisitImport
    <3>4. CASE VisitCall
      BY <1>2, <2>1, <2>2, <3>4, PyVisitCall
    <3>5. CASE VisitOther
      BY <1>2, <2>1, <2>2, <3>5, PyVisitOther
    <3> QED
      BY <1>6, <3>1, <3>2, <3>3, <3>4, <3>5 DEF PyVisit
  <2>4. PICK W, E : PyWalk(stack', result', W, E)
    BY <2>3
  <2>5. PyWalk(stack, result, W, E)'
    BY <2>1, <2>4, PyWalkStays
  <2> QED
    BY <1>4, <2>1, <2>5 DEF PyInv
<1>7. CASE ApplyExports
  <2>1. stage = "walk" /\ stage' = "done" /\ tree' = tree /\ stack = << >>
    BY <1>7 DEF ApplyExports
  <2>2. PICK V, D : PyWalk(stack, result, V, D)
    BY <1>2, <2>1
  <2>3. PyVisited(result, V, D) /\ result \in PyResult
    BY <1>2, <2>1, <2>2, PyVisitsAll DEF PyWalk
  <2>4. PyVisited(result', V, D) /\ ExportsAgree'
    BY <1>1, <1>2, <1>7, <2>3, PyApplies
  <2>5. PyVisited(result, V, D)'
    BY <2>1, <2>4, PyVisitedStays
  <2> QED
    BY <1>4, <2>1, <2>4, <2>5 DEF PyInv
<1>8. CASE UNCHANGED extractionVars
  <2>1. tree' = tree /\ stack' = stack /\ result' = result /\ stage' = stage
    BY <1>8 DEF extractionVars, analysisVars
  <2>2. CASE stage = "walk"
    <3>1. PICK V, D : PyWalk(stack, result, V, D)
      BY <1>2, <2>2
    <3>2. PyWalk(stack, result, V, D)'
      <4>1. PyWalk(stack', result', V, D)
        BY <2>1, <3>1
      <4> QED
        BY <2>1, <4>1, PyWalkStays
    <3> QED
      BY <1>4, <2>1, <2>2, <3>2 DEF PyInv
  <2>3. CASE stage = "done"
    <3>1. PICK V, D : PyVisited(result, V, D)
      BY <1>2, <2>3
    <3>2. PyVisited(result, V, D)'
      <4>1. PyVisited(result', V, D)
        BY <2>1, <3>1
      <4> QED
        BY <2>1, <4>1, PyVisitedStays
    <3>3. ExportsAgree'
      BY <1>1, <1>2, <2>1, <2>3
           DEF ExportsAgree, ModuleSymbols, HasTwoNames
    <3> QED
      BY <1>4, <2>1, <2>3, <3>2, <3>3 DEF PyInv
  <2>4. CASE stage = "parse"
    BY <1>2, <1>4, <2>1, <2>4 DEF PyInv
  <2> QED
    BY <1>2, <2>2, <2>3, <2>4
<1> QED
  BY <1>1, <1>3, <1>5, <1>6, <1>7, <1>8 DEF ExtractionNext, PyNext

-----------------------------------------------------------------------------
(* ECMAScript: the tree and its scopes.                                    *)

EsNames == {form.name : form \in EsForms} \cup {form.bind : form \in EsForms}
             \cup {"", "default", "alias"}
EsNode == [kind : EsKinds, name : EsNames, bind : EsNames, export : {"no", "named", "default"},
           up : Nat, field : {"body", "header"}]

Scoping == {"function", "arrow", "method"}
Wrapping == {"default", "assign", "memo", "field"}
EsParents == Scoping \cup Wrapping \cup {"root", "const", "class", "call", "jsx"}

\* A node is below an earlier one, and stands in a place that the grammar
\* allows: only a declaration is exported, only a declarator is bound, what
\* wraps a value wraps one, and only a class has a header.
EsTree ==
  /\ tree \in Seq(EsNode)
  /\ \A i \in Nodes :
       /\ Up(i) < i /\ Kind(Up(i)) \in EsParents
       /\ tree[i].export # "no" => Up(i) = 0 /\ Kind(i) \in Declarations
       /\ tree[i].bind # "" => Kind(Up(i)) = "const"
       /\ Kind(i) \in {"type", "assign", "memo"} => tree[i].name # ""
       /\ InHeader(i) => Kind(Up(i)) = "class" /\ Kind(i) = "call"
       /\ Up(i) # 0 => ~InHeader(Up(i))
       /\ Kind(Up(i)) = "const" => Kind(i) \in {"arrow", "class", "value", "call", "memo"}
       /\ Kind(Up(i)) = "memo" => Kind(i) = "arrow"
       /\ Kind(Up(i)) = "field" => Kind(i) \in {"arrow", "call"}
       /\ Kind(Up(i)) \in {"default", "assign"} => Kind(i) \in Values \ {"memo"}
       /\ Kind(i) = "arrow" => Kind(Up(i)) \in Wrapping \cup {"const", "call", "jsx"}
       /\ Kind(Up(i)) \in Wrapping => \A j \in Nodes : Up(j) = Up(i) => j = i

(* Only what hangs on a class is in a header.                              *)
LEMMA EsNoHeader ==
  ASSUME EsTree, NEW j \in Nodes, Kind(Up(j)) # "class"
  PROVE  ~InHeader(j)
BY DEF EsTree

(* The nodes of a tree are numbered, a parent before its children.         *)
LEMMA EsNodes ==
  ASSUME EsTree
  PROVE  /\ Len(tree) \in Nat /\ Nodes = 1..Len(tree)
         /\ \A i \in Nodes : /\ Up(i) \in Nat /\ Up(i) < i /\ (Up(i) # 0 => Up(i) \in Nodes)
                             /\ i # 0 /\ i \in Nat /\ Kind(i) = tree[i].kind /\ Kind(i) \in EsKinds
                             /\ tree[i].name \in EsNames /\ tree[i].bind \in EsNames
                             /\ tree[i].export \in {"no", "named", "default"}
<1>1. Len(tree) \in Nat /\ Nodes = 1..Len(tree)
  BY LenProperties DEF EsTree, Nodes
<1>2. \A i \in Nodes : tree[i] \in EsNode
  BY <1>1, ElementOfSeq DEF EsTree
<1>3. \A i \in Nodes : Up(i) \in Nat /\ Up(i) < i
  BY <1>2 DEF EsTree, EsNode, Up
<1> QED
  BY <1>1, <1>2, <1>3 DEF EsNode, Kind

\* One step of the scope of a node.
EsScopeStep(i, above) ==
  IF Up(i) = 0 THEN 0 ELSE IF IsSymbol(Up(i), above) THEN Up(i) ELSE above

(* The scope of a node, from that of the node above it.                    *)
LEMMA EsScopeUnfolds ==
  ASSUME EsTree
  PROVE  EsScope[0] = 0 /\ \A i \in Nodes : EsScope[i] = EsScopeStep(i, EsScope[Up(i)])
<1> DEFINE N == Len(tree)
           F(f) == [i \in Nodes \cup {0} |->
                     IF i = 0 \/ Up(i) = 0 THEN 0
                     ELSE IF IsSymbol(Up(i), f[Up(i)]) THEN Up(i) ELSE f[Up(i)]]
           up == [i \in 1..N |-> Up(i)]
           G == [p \in (1..N) \X Nat |-> EsScopeStep(p[1], p[2])]
<1>1. N \in Nat /\ Nodes = 1..N /\ \A i \in 1..N : Up(i) \in Nat /\ Up(i) < i
  BY EsNodes
<1>2. up \in [1..N -> Nat] /\ \A i \in 1..N : up[i] = Up(i)
  BY <1>1
<1>3. /\ G \in [(1..N) \X Nat -> Nat]
      /\ \A i \in 1..N, n \in Nat : G[<<i, n>>] = EsScopeStep(i, n)
  BY <1>1 DEF EsScopeStep
<1> HIDE DEF N, up, G
<1>4. PICK f \in [0..N -> Nat] : f[0] = 0 /\ \A i \in 1..N : f[i] = G[<<i, f[up[i]]>>]
  <2>1. \A i \in 1..N : up[i] < i
    BY <1>1, <1>2
  <2>2. 0 \in Nat
    OBVIOUS
  <2>3. Climbs(N, Nat, 0, up, G)
    BY <1>1, <1>2, <1>3, <2>1, <2>2 DEF Climbs
  <2>4. \E f : Follows(f, N, Nat, 0, up, G)
    BY <2>3, FromAbove
  <2> QED
    BY <2>4 DEF Follows
<1>5. f = F(f)
  <2>1. Nodes \cup {0} = 0..N
    BY <1>1
  <2>2. ASSUME NEW i \in 1..N PROVE f[i] = EsScopeStep(i, f[Up(i)])
    <3>1. Up(i) \in 0..N
      BY <1>1
    <3>2. f[Up(i)] \in Nat
      BY <1>4, <3>1
    <3>3. f[i] = G[<<i, f[Up(i)]>>]
      BY <1>2, <1>4
    <3> QED
      BY <1>3, <3>2, <3>3
  <2>3. \A i \in 0..N : i = 0 \/ i \in 1..N
    BY <1>1
  <2>4. \A i \in 0..N : f[i] = F(f)[i]
    BY <1>4, <2>1, <2>2, <2>3 DEF EsScopeStep
  <2>5. F(f) = [i \in 0..N |-> F(f)[i]]
    BY <2>1
  <2>6. f = [i \in 0..N |-> f[i]]
    BY <1>4
  <2> HIDE DEF F
  <2> QED
    BY <2>4, <2>5, <2>6
<1>6. EsScope = CHOOSE g : g = F(g)
  BY DEF EsScope
<1>7. EsScope = F(EsScope)
  <2> HIDE DEF F
  <2> QED
    BY <1>5, <1>6
<1>8. 0 \in Nodes \cup {0} /\ \A i \in Nodes : i \in Nodes \cup {0} /\ i # 0
  BY <1>1
<1>9. \A i \in Nodes \cup {0} : EsScope[i] = F(EsScope)[i]
  BY <1>7
<1> QED
  BY <1>8, <1>9 DEF EsScopeStep

(* The scopes follow from the tree.                                        *)
LEMMA EsScopeStays ==
  ASSUME tree' = tree
  PROVE  /\ EsScope' = EsScope
         /\ \A i, n : IsSymbol(i, n)' <=> IsSymbol(i, n)
         /\ \A i, n : IsVariable(i, n)' <=> IsVariable(i, n)
         /\ \A i : IsWrapper(i)' <=> IsWrapper(i)
         /\ \A i : PlaceName(i)' = PlaceName(i)
<1>1. \A i : Up(i)' = Up(i) /\ Kind(i)' = Kind(i)
  BY DEF Up, Kind
<1>2. \A i : HoldsFunction(i)' <=> HoldsFunction(i)
  BY <1>1 DEF HoldsFunction, Nodes, Up, Kind
<1>3. \A i : PlaceName(i)' = PlaceName(i)
  BY <1>1 DEF PlaceName, OwnName, Up, Kind
<1>4. \A i, n : IsVariable(i, n)' <=> IsVariable(i, n)
  BY <1>1, <1>2 DEF IsVariable, Up, Kind
<1>5. \A i, n : IsSymbol(i, n)' <=> IsSymbol(i, n)
  BY <1>1, <1>2, <1>3, <1>4 DEF IsSymbol, Up, Kind
<1>6. \A i : IsWrapper(i)' <=> IsWrapper(i)
  BY <1>1, <1>2 DEF IsWrapper, Up, Kind
<1>7. EsScope' = EsScope
  BY DEF EsScope, IsSymbol, IsVariable, HoldsFunction, PlaceName, OwnName, Nodes, Up, Kind
<1> QED
  BY <1>3, <1>4, <1>5, <1>6, <1>7

EsSymbol(i) == IsSymbol(i, EsScope[i])
EsVariable(i) == IsVariable(i, EsScope[i])
\* The scope of what hangs on a node.
Inner(i) == IF EsSymbol(i) THEN i ELSE EsScope[i]

(* The scope of a node under another one.                                  *)
LEMMA EsScopeOfChild ==
  ASSUME EsTree, NEW j \in Nodes
  PROVE  EsScope[j] = IF Up(j) = 0 THEN 0 ELSE Inner(Up(j))
BY EsScopeUnfolds DEF EsScopeStep, Inner, EsSymbol

(* Which nodes are symbols.                                                *)
LEMMA EsSymbols ==
  ASSUME EsTree, NEW i \in Nodes
  PROVE  /\ EsVariable(i) => /\ EsSymbol(i) /\ Kind(i) \in {"value", "call", "memo"}
                             /\ Kind(Up(i)) = "const" /\ Inner(i) = i /\ EsCallScope(i) = i
                             /\ EsScope[i] = 0
         /\ ~EsVariable(i) => EsCallScope(i) = EsScope[i]
         /\ Kind(i) \in {"function", "class", "method", "type"} => EsSymbol(i)
         /\ Kind(i) = "field" => (EsSymbol(i) <=> HoldsFunction(i))
         /\ Kind(i) = "arrow" =>
              (EsSymbol(i) <=> PlaceName(i) # "" /\ (Kind(Up(i)) = "assign" => EsScope[i] = 0))
         /\ Kind(i) \notin {"function", "class", "method", "type", "field", "arrow"} =>
              (EsSymbol(i) <=> EsVariable(i))
<1>1. Kind(Up(i)) = "const" => Kind(i) \in {"arrow", "class", "value", "call", "memo"}
  BY DEF EsTree
<1>2. EsVariable(i) => Kind(i) \in {"value", "call", "memo"} /\ Kind(Up(i)) = "const" /\ EsScope[i] = 0
  BY <1>1 DEF EsVariable, IsVariable
<1>3. EsVariable(i) => EsSymbol(i)
  BY DEF EsVariable, EsSymbol, IsSymbol
<1> QED
  BY <1>1, <1>2, <1>3 DEF EsVariable, EsSymbol, IsSymbol, Inner, EsCallScope

-----------------------------------------------------------------------------
(* ECMAScript: the walk.                                                   *)

EsContext == [exported : BOOLEAN, default : BOOLEAN, name : EsNames, wrapped : BOOLEAN]
EsEntry == [node : Nat, owner : Nat, context : EsContext]
EsSymbolKinds == {"function", "class", "method", "type", "variable", "component"}
EsSymbolRecord == [node : Nat, name : EsNames, kind : EsSymbolKinds, parent : Nat,
                   exported : BOOLEAN, default : BOOLEAN, jsx : BOOLEAN, wrapped : BOOLEAN]
EsCall == [node : Nat, caller : Nat, kind : {"call", "render"}]
EsImport == [node : Nat]
EsExportKinds == {"named", "default", "re_export", "commonjs"}
EsExport == [name : EsNames, local : EsNames, kind : EsExportKinds]
EsResult == [symbols : Seq(EsSymbolRecord), calls : Seq(EsCall), imports : Seq(EsImport),
             exports : Seq(EsExport), truncated : BOOLEAN]

\* A node is taken up with its parent, V being the nodes visited or passed
\* over, D those dropped at the limit and M the declarators to be taken.
EsStacked(s, V, D, M) ==
  /\ IsStack(s, EsEntry)
  /\ V \subseteq Nodes /\ D \subseteq V /\ NodesOf(s) \subseteq Nodes \ V
  /\ \A i \in Nodes : i \in V \cup NodesOf(s)
                         <=> ~InHeader(i) /\ i \notin M /\ (Up(i) = 0 \/ Up(i) \in V \ D)

\* The key of a node; X are the variables that the limit kept out.
KeyIs(res, X, i, k) == HasKey(res, i, k) \/ (k = 0 /\ i \in X)

Locals(res) == {e.local : e \in ToSet(res.exports)}
\* The export of a symbol is on the list, unless the symbol has two names.
Listed(res, i, name) ==
  name \in Locals(res) \/ (Kind(i) = "class" /\ PlaceName(i) \notin {"", name})

\* The name that a visit gives a node.
NameGiven(i, context) ==
  IF Kind(i) = "arrow" THEN context.name
  ELSE IF Kind(i) = "type" THEN tree[i].name ELSE OwnName(i, context.name)

WillBeListed(x, res) ==
  /\ Kind(x.node) \in Declarations \cup {"arrow"}
  /\ IF Kind(x.node) # "const" THEN Listed(res, x.node, NameGiven(x.node, x.context))
     ELSE /\ tree[x.node].export # "no"
          /\ \A j \in Nodes : Up(j) = x.node /\ tree[j].bind # "" => tree[j].bind \in Locals(res)

\* An entry waits with the key of its scope; a function has a name if and
\* only if it is a symbol; and the export of what is exported is on the list.
EsEntryRight(x, res, X) ==
  /\ KeyIs(res, X, EsCallScope(x.node), x.owner) /\ ~IsWrapper(x.node)
  /\ Kind(x.node) = "arrow" =>
       IF x.context.name = "" THEN ~EsSymbol(x.node) ELSE EsSymbol(x.node) \/ X # {}
  /\ x.context.exported => WillBeListed(x, res)

EsOwned(s, res, X) == \A x \in ToSet(s) : EsEntryRight(x, res, X)

\* A variable is recorded with its declaration, any other symbol when it is
\* visited.
Taken1(i, s, V, D, X) == (i \in V \/ (i \in NodesOf(s) /\ EsVariable(i))) /\ i \notin D /\ i \notin X

EsRecorded(s, res, V, D, X) ==
  /\ \A k \in DOMAIN res.symbols :
       LET t == res.symbols[k] IN
         /\ t.node \in Nodes /\ t.parent < k /\ KeyIs(res, X, EsScope[t.node], t.parent)
         /\ t.exported => Listed(res, t.node, t.name)
  /\ Distinct(res.symbols)
  /\ \A i \in Nodes : (\E k \in DOMAIN res.symbols : res.symbols[k].node = i)
                        <=> EsSymbol(i) /\ Taken1(i, s, V, D, X)

EsCalled(res, V, X) ==
  /\ \A n \in DOMAIN res.calls :
       LET c == res.calls[n] IN
         c.node \in V /\ c.node \in CallNodes /\ KeyIs(res, X, EsCallScope(c.node), c.caller)
  /\ Distinct(res.calls)
  /\ \A i \in V : i \in CallNodes => \E n \in DOMAIN res.calls : res.calls[n].node = i

KeptOut(s, V, X) == X \subseteq V \cup NodesOf(s) /\ \A i \in X : EsVariable(i)

EsWalk(s, res, V, D, X, M) ==
  /\ EsStacked(s, V, D, M) /\ KeptOut(s, V, X) /\ res \in EsResult /\ EsOwned(s, res, X)
  /\ EsRecorded(s, res, V, D, X) /\ EsCalled(res, V, X) /\ DroppedAtTheLimit(res, D \cup X)

-----------------------------------------------------------------------------
(* ECMAScript: what a visit adds to the result.                            *)

EsCarries(r, res) ==
  /\ Carries(r, res) /\ Locals(r) \subseteq Locals(res)
  /\ \A k \in DOMAIN r.symbols : res.symbols[k].exported <=> r.symbols[k].exported

(* A key stays what it is when the result grows.                           *)
LEMMA KeysKept ==
  ASSUME NEW r, NEW res, EsCarries(r, res), NEW X, NEW Y, X \subseteq Y,
         NEW i, NEW k, KeyIs(r, X, i, k)
  PROVE  KeyIs(res, Y, i, k)
BY KeysCarried DEF EsCarries, KeyIs

(* An export stays on the list.                                            *)
LEMMA ListedStill ==
  ASSUME NEW r, NEW res, EsCarries(r, res), NEW i, NEW name, Listed(r, i, name)
  PROVE  Listed(res, i, name)
BY DEF EsCarries, Listed

(* What waits on the stack waits as well with the result to come.          *)
LEMMA EsEntryStays ==
  ASSUME NEW r, NEW res, EsCarries(r, res), NEW X, NEW Y, X \subseteq Y, NEW x, EsEntryRight(x, r, X)
  PROVE  EsEntryRight(x, res, Y)
<1>1. KeyIs(res, Y, EsCallScope(x.node), x.owner)
  BY KeysKept DEF EsEntryRight
<1>2. x.context.exported => WillBeListed(x, res)
  BY ListedStill DEF EsEntryRight, WillBeListed, EsCarries
<1> QED
  BY <1>1, <1>2 DEF EsEntryRight

(* The symbols are the same ones and no other symbol was taken.            *)
LEMMA EsSameSymbols ==
  ASSUME NEW r, NEW res, EsCarries(r, res), DOMAIN res.symbols = DOMAIN r.symbols,
         NEW s, NEW V, NEW D, NEW X, EsRecorded(s, r, V, D, X),
         NEW next, NEW W, NEW E, NEW Y, X \subseteq Y,
         \A i \in Nodes : EsSymbol(i) => (Taken1(i, next, W, E, Y) <=> Taken1(i, s, V, D, X))
  PROVE  EsRecorded(next, res, W, E, Y)
<1>1. ASSUME NEW k \in DOMAIN res.symbols
      PROVE  LET t == res.symbols[k] IN
               /\ t.node \in Nodes /\ t.parent < k /\ KeyIs(res, Y, EsScope[t.node], t.parent)
               /\ t.exported => Listed(res, t.node, t.name)
  <2>1. /\ res.symbols[k].node = r.symbols[k].node /\ res.symbols[k].name = r.symbols[k].name
        /\ res.symbols[k].parent = r.symbols[k].parent
        /\ res.symbols[k].exported <=> r.symbols[k].exported
    BY DEF EsCarries, Carries
  <2>2. LET t == r.symbols[k] IN
          /\ t.node \in Nodes /\ t.parent < k /\ KeyIs(r, X, EsScope[t.node], t.parent)
          /\ t.exported => Listed(r, t.node, t.name)
    BY DEF EsRecorded
  <2>3. KeyIs(res, Y, EsScope[r.symbols[k].node], r.symbols[k].parent)
    BY <2>2, KeysKept
  <2>4. r.symbols[k].exported => Listed(res, r.symbols[k].node, r.symbols[k].name)
    BY <2>2, ListedStill
  <2> QED
    BY <2>1, <2>2, <2>3, <2>4
<1>2. Distinct(res.symbols)
  BY DEF EsRecorded, Distinct, EsCarries, Carries
<1>3. ASSUME NEW i \in Nodes
      PROVE  (\E k \in DOMAIN res.symbols : res.symbols[k].node = i)
               <=> EsSymbol(i) /\ Taken1(i, next, W, E, Y)
  <2>1. (\E k \in DOMAIN res.symbols : res.symbols[k].node = i)
          <=> \E k \in DOMAIN r.symbols : r.symbols[k].node = i
    BY DEF EsCarries, Carries
  <2> QED
    BY <2>1 DEF EsRecorded
<1> QED
  BY <1>1, <1>2, <1>3 DEF EsRecorded

(* The calls are the same ones and no other call was visited.              *)
LEMMA EsSameCalls ==
  ASSUME NEW r, NEW res, EsCarries(r, res), res.calls = r.calls,
         NEW V, NEW W, V \subseteq W, NEW X, NEW Y, X \subseteq Y, EsCalled(r, V, X),
         \A i \in W : i \in CallNodes => i \in V
  PROVE  EsCalled(res, W, Y)
<1>1. ASSUME NEW n \in DOMAIN res.calls
      PROVE  LET c == res.calls[n] IN
               c.node \in W /\ c.node \in CallNodes /\ KeyIs(res, Y, EsCallScope(c.node), c.caller)
  <2>1. LET c == r.calls[n] IN
          c.node \in V /\ c.node \in CallNodes /\ KeyIs(r, X, EsCallScope(c.node), c.caller)
    BY DEF EsCalled
  <2> QED
    BY <2>1, KeysKept
<1> QED
  BY <1>1 DEF EsCalled

(* A symbol is recorded.                                                   *)
LEMMA EsAddsSymbol ==
  ASSUME EsTree, NEW r \in EsResult, NEW s, NEW V, EsRecorded(s, r, V, {}, {}),
         NEW i \in Nodes, EsSymbol(i), ~Taken1(i, s, V, {}, {}),
         NEW o \in Nat, KeyIs(r, {}, EsScope[i], o),
         NEW name \in EsNames, NEW kind \in EsSymbolKinds, NEW context \in EsContext,
         context.exported => Listed(r, i, name),
         NEW next, NEW W,
         \A j \in Nodes : EsSymbol(j) =>
           (Taken1(j, next, W, {}, {}) <=> Taken1(j, s, V, {}, {}) \/ j = i)
  PROVE  LET res == NewSymbol(r, name, kind, i, o, context)
         IN /\ res \in EsResult /\ EsCarries(r, res) /\ res.calls = r.calls
            /\ HasKey(res, i, Len(r.symbols) + 1) /\ Len(r.symbols) + 1 \in Nat
            /\ EsRecorded(next, res, W, {}, {}) /\ res.truncated = r.truncated
<1> DEFINE new == [node |-> i, name |-> name, kind |-> kind, parent |-> o,
                   exported |-> context.exported /\ o = 0, default |-> context.default,
                   jsx |-> FALSE, wrapped |-> context.wrapped]
           n == Len(r.symbols)
           list == Append(r.symbols, new)
           res == NewSymbol(r, name, kind, i, o, context)
<1>1. r.symbols \in Seq(EsSymbolRecord)
  BY DEF EsResult
<1>2. new \in EsSymbolRecord /\ new.node = i /\ new.name = name /\ new.parent = o
  <2>1. i \in Nat
    BY EsNodes
  <2> QED
    BY <2>1 DEF EsSymbolRecord, EsContext
<1>3. new.exported => context.exported
  OBVIOUS
<1>4. res = [r EXCEPT !.symbols = list]
  BY DEF NewSymbol
<1> HIDE DEF new, res
<1>5. /\ list \in Seq(EsSymbolRecord) /\ n \in Nat
      /\ DOMAIN r.symbols = 1..n /\ DOMAIN list = 1..(n + 1) /\ list[n + 1] = new
      /\ \A k \in DOMAIN r.symbols : k # n + 1 /\ k \in DOMAIN list /\ list[k] = r.symbols[k]
      /\ \A k \in DOMAIN list : k \in DOMAIN r.symbols \/ k = n + 1
  BY <1>1, <1>2, Appended
<1> HIDE DEF list
<1>6. /\ res \in EsResult /\ res.symbols = list /\ res.calls = r.calls
      /\ res.truncated = r.truncated /\ res.exports = r.exports
  BY <1>4, <1>5 DEF EsResult
<1>7. EsCarries(r, res)
  BY <1>5, <1>6 DEF EsCarries, Carries, Locals
<1>8. HasKey(res, i, n + 1) /\ n + 1 \in Nat /\ n + 1 \in DOMAIN list
  <2>1. n + 1 \in Nat /\ n + 1 # 0 /\ n + 1 \in DOMAIN list
    BY <1>5
  <2> QED
    BY <1>2, <1>5, <1>6, <2>1 DEF HasKey
<1>9. o < n + 1 /\ KeyIs(res, {}, EsScope[i], o)
  <2>1. o = 0 \/ o \in 1..n
    BY <1>5 DEF KeyIs, HasKey
  <2>2. o < n + 1
    BY <1>5, <2>1
  <2> QED
    BY <1>7, <2>2, KeysKept
<1>10. ASSUME NEW k \in DOMAIN res.symbols
       PROVE  LET t == res.symbols[k] IN
                /\ t.node \in Nodes /\ t.parent < k /\ KeyIs(res, {}, EsScope[t.node], t.parent)
                /\ t.exported => Listed(res, t.node, t.name)
  <2>1. CASE k = n + 1
    <3>1. new.exported => Listed(res, i, name)
      BY <1>3, <1>7, ListedStill
    <3> QED
      BY <1>2, <1>5, <1>6, <1>9, <2>1, <3>1
  <2>2. CASE k \in DOMAIN r.symbols
    <3>1. LET t == r.symbols[k] IN
            /\ t.node \in Nodes /\ t.parent < k /\ KeyIs(r, {}, EsScope[t.node], t.parent)
            /\ t.exported => Listed(r, t.node, t.name)
      BY <2>2 DEF EsRecorded
    <3>2. KeyIs(res, {}, EsScope[r.symbols[k].node], r.symbols[k].parent)
      BY <1>7, <3>1, KeysKept
    <3>3. r.symbols[k].exported => Listed(res, r.symbols[k].node, r.symbols[k].name)
      BY <1>7, <3>1, ListedStill
    <3> QED
      BY <1>5, <1>6, <2>2, <3>1, <3>2, <3>3
  <2> QED
    BY <1>5, <1>6, <2>1, <2>2
<1>11. \A j \in Nodes : (\E k \in DOMAIN res.symbols : res.symbols[k].node = j)
                          <=> (\E k \in DOMAIN r.symbols : r.symbols[k].node = j) \/ j = i
  BY <1>2, <1>5, <1>6, <1>8
<1>12. \A j \in Nodes : (\E k \in DOMAIN r.symbols : r.symbols[k].node = j)
                          <=> EsSymbol(j) /\ Taken1(j, s, V, {}, {})
  BY DEF EsRecorded
<1>13. Distinct(res.symbols)
  <2>1. \A k \in DOMAIN r.symbols : r.symbols[k].node # i
    BY <1>12
  <2>2. Distinct(r.symbols)
    BY DEF EsRecorded
  <2> QED
    BY <1>2, <1>5, <1>6, <2>1, <2>2 DEF Distinct
<1>14. EsRecorded(next, res, W, {}, {})
  <2>1. \A j \in Nodes : (\E k \in DOMAIN res.symbols : res.symbols[k].node = j)
                           <=> EsSymbol(j) /\ Taken1(j, next, W, {}, {})
    BY <1>11, <1>12
  <2> QED
    BY <1>10, <1>13, <2>1 DEF EsRecorded
<1> QED
  BY <1>6, <1>7, <1>8, <1>14 DEF res

(* A call is recorded.                                                     *)
LEMMA EsAddsCall ==
  ASSUME EsTree, result \in EsResult, NEW V, NEW X, EsCalled(result, V, X),
         NEW t \in CallNodes, t \notin V, NEW o \in Nat, KeyIs(result, X, EsCallScope(t), o),
         NEW kind \in {"call", "render"}
  PROVE  LET res == RecordCall(t, o, kind)
         IN /\ res \in EsResult /\ res.symbols = result.symbols /\ EsCarries(result, res)
            /\ res.truncated = result.truncated /\ EsCalled(res, V \cup {t}, X)
<1> DEFINE new == [node |-> t, caller |-> o, kind |-> kind]
           n == Len(result.calls)
           list == Append(result.calls, new)
           res == [result EXCEPT !.calls = list]
<1>1. result.calls \in Seq(EsCall)
  BY DEF EsResult
<1>2. new \in EsCall /\ new.node = t /\ new.caller = o
  <2>1. t \in Nat
    BY EsNodes DEF CallNodes
  <2> QED
    BY <2>1 DEF EsCall
<1> HIDE DEF new
<1>3. /\ list \in Seq(EsCall) /\ n \in Nat
      /\ DOMAIN result.calls = 1..n /\ DOMAIN list = 1..(n + 1) /\ list[n + 1] = new
      /\ \A i \in DOMAIN result.calls : i # n + 1 /\ i \in DOMAIN list /\ list[i] = result.calls[i]
      /\ \A i \in DOMAIN list : i \in DOMAIN result.calls \/ i = n + 1
  BY <1>1, <1>2, Appended
<1>4. n + 1 \in DOMAIN list
  BY <1>3
<1> HIDE DEF list
<1>5. /\ res \in EsResult /\ res.symbols = result.symbols /\ res.calls = list
      /\ res.truncated = result.truncated /\ res.exports = result.exports
  BY <1>3 DEF EsResult
<1> HIDE DEF res
<1>6. EsCarries(result, res)
  BY <1>5 DEF EsCarries, Carries, Locals
<1>7. ASSUME NEW m \in DOMAIN res.calls
      PROVE  LET c == res.calls[m] IN
               /\ c.node \in V \cup {t} /\ c.node \in CallNodes
               /\ KeyIs(res, X, EsCallScope(c.node), c.caller)
  <2>1. CASE m = n + 1
    <3>1. KeyIs(res, X, EsCallScope(t), o)
      BY <1>6, KeysKept
    <3> QED
      BY <1>2, <1>3, <1>5, <2>1, <3>1
  <2>2. CASE m \in DOMAIN result.calls
    <3>1. LET c == result.calls[m] IN
            c.node \in V /\ c.node \in CallNodes /\ KeyIs(result, X, EsCallScope(c.node), c.caller)
      BY <2>2 DEF EsCalled
    <3>2. KeyIs(res, X, EsCallScope(result.calls[m].node), result.calls[m].caller)
      BY <1>6, <3>1, KeysKept
    <3> QED
      BY <1>3, <1>5, <2>2, <3>1, <3>2
  <2> QED
    BY <1>3, <1>5, <2>1, <2>2
<1>8. Distinct(res.calls)
  <2>1. \A m \in DOMAIN result.calls : result.calls[m].node \in V
    BY DEF EsCalled
  <2>2. Distinct(result.calls)
    BY DEF EsCalled
  <2> QED
    BY <1>2, <1>3, <1>5, <2>1, <2>2 DEF Distinct
<1>9. ASSUME NEW i \in V \cup {t}, i \in CallNodes
      PROVE  \E m \in DOMAIN res.calls : res.calls[m].node = i
  <2>1. CASE i = t
    BY <1>2, <1>3, <1>4, <1>5, <2>1
  <2>2. CASE i \in V
    BY <1>3, <1>5, <1>9, <2>2 DEF EsCalled
  <2> QED
    BY <2>1, <2>2
<1>10. EsCalled(res, V \cup {t}, X)
  BY <1>7, <1>8, <1>9 DEF EsCalled
<1> QED
  BY <1>5, <1>6, <1>10 DEF res, list, new, RecordCall

-----------------------------------------------------------------------------
(* ECMAScript: what a visit does to the stack.                             *)

(* The entries that are laid on the stack for some nodes.                  *)
LEMMA EsEntriesOf ==
  ASSUME EsTree, NEW P \in SUBSET Nodes, NEW o \in Nat
  PROVE  LET s == Entries(Sorted(P), o, NoContext)
         IN /\ IsStack(s, EsEntry) /\ NodesOf(s) = P
            /\ \A x \in ToSet(s) : x.owner = o /\ x.context = NoContext
<1> DEFINE g == [j \in P |-> [node |-> j, owner |-> o, context |-> NoContext]]
           list == Sorted(P)
           s == Entries(list, o, NoContext)
<1>1. Len(tree) \in Nat /\ P \in SUBSET (1..Len(tree)) /\ \A j \in P : j \in Nat
  BY EsNodes
<1>2. NoContext \in EsContext
  BY DEF NoContext, EsContext, EsNames
<1>3. g \in [P -> EsEntry] /\ \A j \in P : g[j].node = j /\ g[j].owner = o /\ g[j].context = NoContext
  BY <1>1, <1>2 DEF EsEntry
<1>4. list \in Seq(P) /\ \A n \in DOMAIN list : list[n] \in P
  <2>1. list \in Seq(P)
    BY <1>1, SortedFacts
  <2> HIDE DEF list
  <2> QED
    BY <2>1, LenProperties, ElementOfSeq
<1>5. s = Reverse([n \in DOMAIN list |-> g[list[n]]])
  <2>1. \A n \in DOMAIN list :
          g[list[n]] = [node |-> list[n], owner |-> o, context |-> NoContext]
    BY <1>4
  <2> HIDE DEF g, list
  <2>2. [n \in DOMAIN list |-> [node |-> list[n], owner |-> o, context |-> NoContext]]
          = [n \in DOMAIN list |-> g[list[n]]]
    BY <2>1
  <2> QED
    BY <2>2 DEF Entries
<1> HIDE DEF g
<1>6. IsStack(s, EsEntry) /\ ToSet(s) = {g[j] : j \in P} /\ NodesOf(s) = P
  <2> DEFINE t == Reverse([n \in DOMAIN list |-> g[list[n]]])
  <2>1. \A j \in P : g[j].node = j
    BY <1>3
  <2>2. IsStack(t, EsEntry) /\ ToSet(t) = {g[j] : j \in P} /\ NodesOf(t) = P
    <3>1. g \in [P -> EsEntry]
      BY <1>3
    <3> QED
      BY <1>1, <2>1, <3>1, LaidDown
  <2> HIDE DEF s
  <2> QED
    BY <1>5, <2>2
<1>7. \A x \in {g[j] : j \in P} : x.owner = o /\ x.context = NoContext
  BY <1>3
<1> HIDE DEF s, list
<1>8. \A x \in ToSet(s) : x.owner = o /\ x.context = NoContext
  BY <1>6, <1>7
<1> QED
  BY <1>6, <1>8 DEF s, list

(* A stack with the entries of more nodes.                                 *)
LEMMA EsPushes ==
  ASSUME EsTree, NEW s, IsStack(s, EsEntry),
         NEW P \in SUBSET Nodes, P \cap NodesOf(s) = {}, NEW o \in Nat
  PROVE  LET entries == Entries(Sorted(P), o, NoContext)
             next == s \o entries
         IN /\ IsStack(next, EsEntry) /\ ToSet(next) = ToSet(s) \cup ToSet(entries)
            /\ NodesOf(next) = NodesOf(s) \cup P
            /\ \A x \in ToSet(entries) : x.node \in P /\ x.owner = o /\ x.context = NoContext
<1> DEFINE entries == Entries(Sorted(P), o, NoContext)
<1>1. /\ IsStack(entries, EsEntry) /\ NodesOf(entries) = P
      /\ \A x \in ToSet(entries) : x.owner = o /\ x.context = NoContext
  BY EsEntriesOf
<1> HIDE DEF entries
<1>2. \A x \in ToSet(entries) : x.node \in P
  BY <1>1 DEF NodesOf
<1>3. NodesOf(s) \cap NodesOf(entries) = {}
  BY <1>1
<1>4. /\ IsStack(s \o entries, EsEntry) /\ ToSet(s \o entries) = ToSet(s) \cup ToSet(entries)
      /\ NodesOf(s \o entries) = NodesOf(s) \cup NodesOf(entries)
  BY <1>1, <1>3, Joined
<1> QED
  BY <1>1, <1>2, <1>4 DEF entries

(* One entry is laid on a stack.                                           *)
LEMMA PushedOne ==
  ASSUME NEW T, NEW s, IsStack(s, T), NEW x \in T, x.node \notin NodesOf(s)
  PROVE  /\ IsStack(s \o <<x>>, T) /\ ToSet(s \o <<x>>) = ToSet(s) \cup {x}
         /\ NodesOf(s \o <<x>>) = NodesOf(s) \cup {x.node}
<1> DEFINE one == <<x>>
<1>1. IsStack(one, T) /\ ToSet(one) = {x} /\ NodesOf(one) = {x.node}
  <2>1. one \in Seq(T) /\ DOMAIN one = {1} /\ one[1] = x
    OBVIOUS
  <2> HIDE DEF one
  <2>2. Distinct(one) /\ ToSet(one) = {x}
    BY <2>1 DEF Distinct, ToSet
  <2>3. NodesOf(one) = {x.node}
    BY <2>2 DEF NodesOf
  <2> QED
    BY <2>1, <2>2, <2>3 DEF IsStack
<1> HIDE DEF one
<1>2. NodesOf(s) \cap NodesOf(one) = {}
  BY <1>1
<1>3. /\ IsStack(s \o one, T) /\ ToSet(s \o one) = ToSet(s) \cup ToSet(one)
      /\ NodesOf(s \o one) = NodesOf(s) \cup NodesOf(one)
  BY <1>1, <1>2, Joined
<1> QED
  BY <1>1, <1>3 DEF one

(* The node on top was not visited, and what hangs on it was not taken up. *)
LEMMA EsFresh ==
  ASSUME EsTree, NEW V, NEW D, EsStacked(stack, V, D, {}), stack # << >>
  PROVE  /\ Top \in EsEntry /\ Top \in ToSet(stack)
         /\ Top.node \in Nodes /\ Top.node \notin V /\ Top.node # 0 /\ Top.owner \in Nat
         /\ Top.context \in EsContext /\ ~InHeader(Top.node)
         /\ IsStack(Popped, EsEntry) /\ NodesOf(Popped) = NodesOf(stack) \ {Top.node}
         /\ ToSet(Popped) = ToSet(stack) \ {Top} /\ Top.node \in NodesOf(stack)
         /\ \A j \in Nodes : Up(j) = Top.node => /\ j \notin V /\ j \notin NodesOf(stack)
                                                 /\ j # Top.node /\ j # 0
         /\ \A j, k \in Nodes : Up(j) = Top.node /\ Up(k) = j
                                  => k \notin V /\ k \notin NodesOf(stack) /\ k # Top.node /\ k # j
<1>1. IsStack(stack, EsEntry)
  BY DEF EsStacked
<1>2. /\ Top \in EsEntry /\ Top \in ToSet(stack) /\ IsStack(Popped, EsEntry)
      /\ NodesOf(Popped) = NodesOf(stack) \ {Top.node} /\ ToSet(Popped) = ToSet(stack) \ {Top}
  BY <1>1, Taken
<1>3. Top.node \in NodesOf(stack)
  BY <1>2 DEF NodesOf
<1>4. Top.node \in Nodes /\ Top.node \notin V /\ Top.node # 0 /\ ~InHeader(Top.node)
  BY <1>3, EsNodes DEF EsStacked
<1>5. Top.owner \in Nat /\ Top.context \in EsContext
  BY <1>2 DEF EsEntry
<1>6. \A j \in Nodes : j # Up(j) /\ j # 0 /\ j \in Nat /\ Up(j) \in Nat /\ Up(j) < j
  BY EsNodes
<1>7. \A j \in Nodes : Up(j) = Top.node => j \notin V /\ j \notin NodesOf(stack) /\ j # Top.node /\ j # 0
  BY <1>4, <1>6 DEF EsStacked
<1>8. ASSUME NEW j \in Nodes, NEW k \in Nodes, Up(j) = Top.node, Up(k) = j
      PROVE  k \notin V /\ k \notin NodesOf(stack) /\ k # Top.node /\ k # j
  <2>1. j \notin V /\ j # 0 /\ j # Top.node
    BY <1>7, <1>8
  <2>2. k \notin V /\ k \notin NodesOf(stack)
    BY <1>8, <2>1 DEF EsStacked
  <2>3. k # Top.node /\ k # j
    BY <1>3, <1>6, <1>8, <2>2
  <2> QED
    BY <2>2, <2>3
<1> QED
  BY <1>2, <1>3, <1>4, <1>5, <1>7, <1>8

(* The node on top is visited: it and the nodes of A are passed over, those *)
(* of P pushed, and those of M put off.                                    *)
LEMMA EsVisits ==
  ASSUME EsTree, NEW V, NEW D, EsStacked(stack, V, D, {}), stack # << >>,
         NEW A \in SUBSET Nodes, NEW P \in SUBSET Nodes, NEW M \in SUBSET Nodes,
         A \cap P = {}, M \cap (A \cup P) = {},
         \A i \in Nodes : i \in A \cup P \cup M
                            <=> ~InHeader(i) /\ (Up(i) = Top.node \/ Up(i) \in A),
         \A i \in A : Up(i) = Top.node,
         NEW next, IsStack(next, EsEntry), NodesOf(next) = NodesOf(Popped) \cup P
  PROVE  EsStacked(next, V \cup {Top.node} \cup A, D, M)
<1> DEFINE t == Top.node
           W == V \cup {t} \cup A
<1>1. /\ V \subseteq Nodes /\ D \subseteq V /\ NodesOf(stack) \subseteq Nodes \ V
      /\ \A i \in Nodes : i \in V \cup NodesOf(stack)
                             <=> ~InHeader(i) /\ (Up(i) = 0 \/ Up(i) \in V \ D)
  BY DEF EsStacked
<1>2. /\ t \in Nodes /\ t \notin V /\ t # 0 /\ t \in NodesOf(stack)
      /\ NodesOf(Popped) = NodesOf(stack) \ {t}
      /\ \A j \in Nodes : Up(j) = t => j \notin V /\ j \notin NodesOf(stack) /\ j # t /\ j # 0
  BY EsFresh
<1>3. \A j \in Nodes : Up(j) \in A => j \notin V /\ j \notin NodesOf(stack) /\ j # t
  <2>1. \A j, k \in Nodes : Up(j) = t /\ Up(k) = j => k \notin V /\ k \notin NodesOf(stack) /\ k # t
    BY EsFresh
  <2> QED
    BY <2>1
<1>4. W \subseteq Nodes /\ D \subseteq W
  BY <1>1, <1>2
<1>5. \A i \in A \cup P \cup M : i \notin V /\ i \notin NodesOf(stack) /\ i # t
  BY <1>2, <1>3
<1>6. NodesOf(next) \subseteq Nodes \ W
  BY <1>1, <1>2, <1>5
<1>7. ASSUME NEW i \in Nodes
      PROVE  i \in W \cup NodesOf(next)
               <=> ~InHeader(i) /\ i \notin M /\ (Up(i) = 0 \/ Up(i) \in W \ D)
  <2>1. i \in W \cup NodesOf(next) <=> i \in V \cup NodesOf(stack) \cup A \cup P
    BY <1>2
  <2>2. Up(i) \in W \ D <=> Up(i) \in V \ D \/ Up(i) = t \/ Up(i) \in A
    BY <1>1, <1>2, <1>5
  <2>3. CASE Up(i) = t \/ Up(i) \in A
    <3>1. i \in A \cup P \cup M <=> ~InHeader(i)
      BY <2>3
    <3>2. i \notin V \cup NodesOf(stack)
      BY <1>2, <1>3, <2>3
    <3> QED
      BY <2>1, <2>2, <2>3, <3>1, <3>2
  <2>4. CASE ~(Up(i) = t \/ Up(i) \in A)
    <3>1. i \notin A \cup P \cup M
      BY <2>4
    <3> QED
      BY <1>1, <2>1, <2>2, <2>4, <3>1
  <2> QED
    BY <2>3, <2>4
<1> QED
  BY <1>4, <1>6, <1>7 DEF EsStacked

(* The node on top is dropped with all that hangs on it.                   *)
LEMMA EsDropsNode ==
  ASSUME EsTree, NEW V, NEW D, EsStacked(stack, V, D, {}), stack # << >>
  PROVE  EsStacked(Popped, V \cup {Top.node}, D \cup {Top.node}, {})
<1> DEFINE t == Top.node
           W == V \cup {t}
           E == D \cup {t}
<1>1. /\ V \subseteq Nodes /\ D \subseteq V /\ NodesOf(stack) \subseteq Nodes \ V
      /\ \A i \in Nodes : i \in V \cup NodesOf(stack)
                             <=> ~InHeader(i) /\ (Up(i) = 0 \/ Up(i) \in V \ D)
  BY DEF EsStacked
<1>2. /\ t \in Nodes /\ t \notin V /\ t # 0 /\ t \in NodesOf(stack)
      /\ NodesOf(Popped) = NodesOf(stack) \ {t} /\ IsStack(Popped, EsEntry)
  BY EsFresh
<1>3. W \subseteq Nodes /\ E \subseteq W /\ NodesOf(Popped) \subseteq Nodes \ W
  BY <1>1, <1>2
<1>4. \A i \in Nodes : i \in W \cup NodesOf(Popped) <=> i \in V \cup NodesOf(stack)
  BY <1>2
<1>5. \A i \in Nodes : Up(i) \in W \ E <=> Up(i) \in V \ D
  BY <1>1, <1>2
<1>6. \A i \in Nodes : i \in W \cup NodesOf(Popped)
                           <=> ~InHeader(i) /\ i \notin {} /\ (Up(i) = 0 \/ Up(i) \in W \ E)
  BY <1>1, <1>4, <1>5
<1> QED
  BY <1>2, <1>3, <1>6 DEF EsStacked

\* A step from the node on top: its values of A are passed over, the nodes of
\* P, with the entries of Q, take its place.
Moves(A, P, next, Q) ==
  /\ A \subseteq Nodes /\ P \subseteq Nodes /\ A \cap P = {}
  /\ \A i \in Nodes : i \in A \cup P <=> ~InHeader(i) /\ (Up(i) = Top.node \/ Up(i) \in A)
  /\ \A i \in A : Up(i) = Top.node /\ i \notin CallNodes /\ ~EsSymbol(i)
  /\ \A i \in P : ~EsVariable(i)
  /\ IsStack(next, EsEntry) /\ NodesOf(next) = NodesOf(Popped) \cup P
  /\ ToSet(next) = ToSet(Popped) \cup Q

(* The nodes below a visited one are taken up, and no others.              *)
LEMMA EsMoves ==
  ASSUME EsTree, NEW V, NEW D, EsStacked(stack, V, D, {}), stack # << >>,
         NEW A, NEW P, NEW next, NEW Q, Moves(A, P, next, Q)
  PROVE  EsStacked(next, V \cup {Top.node} \cup A, D, {})
<1> DEFINE M == {}
<1>1. /\ M \in SUBSET Nodes /\ A \in SUBSET Nodes /\ P \in SUBSET Nodes
      /\ A \cap P = {} /\ M \cap (A \cup P) = {}
      /\ \A i \in Nodes : i \in A \cup P \cup M
                             <=> ~InHeader(i) /\ (Up(i) = Top.node \/ Up(i) \in A)
      /\ \A i \in A : Up(i) = Top.node
      /\ IsStack(next, EsEntry) /\ NodesOf(next) = NodesOf(Popped) \cup P
  BY DEF Moves
<1>2. EsStacked(stack, V, D, {})
  OBVIOUS
<1> HIDE DEF M
<1>3. EsStacked(next, V \cup {Top.node} \cup A, D, M)
  BY <1>1, <1>2, EsVisits
<1> QED
  BY <1>3 DEF M

(* The entries of the next stack are right if the new ones are.            *)
LEMMA EsOwnedNext ==
  ASSUME NEW r, NEW res, EsCarries(r, res), NEW X, NEW Y, X \subseteq Y, NEW s, EsOwned(s, r, X),
         NEW next, NEW Q, ToSet(next) \subseteq ToSet(s) \cup Q, \A x \in Q : EsEntryRight(x, res, Y)
  PROVE  EsOwned(next, res, Y)
<1>1. \A x \in ToSet(s) : EsEntryRight(x, res, Y)
  BY EsEntryStays DEF EsOwned
<1> QED
  BY <1>1 DEF EsOwned

(* A result carries itself.                                                *)
LEMMA EsCarriesOn ==
  ASSUME NEW r, NEW res, res.symbols = r.symbols, Locals(r) \subseteq Locals(res)
  PROVE  EsCarries(r, res)
BY DEF EsCarries, Carries

(* A visit that records no symbol.                                         *)
LEMMA EsGoesOn ==
  ASSUME EsTree, NEW V, NEW D, NEW X, EsWalk(stack, result, V, D, X, {}), stack # << >>,
         EsSymbol(Top.node) => EsVariable(Top.node),
         NEW A, NEW P, NEW next, NEW Q, Moves(A, P, next, Q),
         NEW res \in EsResult, EsCarries(result, res), DOMAIN res.symbols = DOMAIN result.symbols,
         res.truncated = result.truncated, EsCalled(res, V \cup {Top.node}, X),
         \A x \in Q : EsEntryRight(x, res, X)
  PROVE  EsWalk(next, res, V \cup {Top.node} \cup A, D, X, {})
<1> DEFINE t == Top.node
           W == V \cup {t} \cup A
<1>1. /\ EsStacked(stack, V, D, {}) /\ KeptOut(stack, V, X) /\ result \in EsResult
      /\ EsOwned(stack, result, X) /\ EsRecorded(stack, result, V, D, X)
      /\ DroppedAtTheLimit(result, D \cup X)
  BY DEF EsWalk
<1>2. /\ t \in NodesOf(stack) /\ t \notin V /\ NodesOf(Popped) = NodesOf(stack) \ {t}
      /\ ToSet(Popped) = ToSet(stack) \ {Top}
  BY <1>1, EsFresh
<1>3. /\ NodesOf(next) = NodesOf(Popped) \cup P /\ ToSet(next) = ToSet(Popped) \cup Q
      /\ \A i \in A : i \notin CallNodes /\ ~EsSymbol(i)
      /\ \A i \in P : ~EsVariable(i)
  BY DEF Moves
<1>4. EsStacked(next, W, D, {})
  BY <1>1, EsMoves
<1>5. KeptOut(next, W, X)
  BY <1>1, <1>2, <1>3 DEF KeptOut
<1>6. EsOwned(next, res, X)
  <2>1. ToSet(next) \subseteq ToSet(stack) \cup Q
    BY <1>2, <1>3
  <2> QED
    BY <1>1, <2>1, EsOwnedNext
<1>7. EsRecorded(next, res, W, D, X)
  <2>1. \A i \in Nodes : EsSymbol(i) => (Taken1(i, next, W, D, X) <=> Taken1(i, stack, V, D, X))
    BY <1>2, <1>3 DEF Taken1
  <2> HIDE DEF W
  <2> QED
    BY <1>1, <2>1, EsSameSymbols
<1>8. EsCalled(res, W, X)
  <2> DEFINE U == V \cup {t}
  <2>1. EsCarries(res, res)
    BY EsCarriesOn
  <2>2. U \subseteq W /\ EsCalled(res, U, X) /\ \A i \in W : i \in CallNodes => i \in U
    BY <1>3
  <2> HIDE DEF U, W
  <2> QED
    BY <2>1, <2>2, EsSameCalls
<1>9. DroppedAtTheLimit(res, D \cup X)
  <2>1. Len(res.symbols) = Len(result.symbols)
    <3>1. res.symbols \in Seq(EsSymbolRecord) /\ result.symbols \in Seq(EsSymbolRecord)
      BY <1>1 DEF EsResult
    <3>2. PICK m, n \in Nat : /\ m = Len(res.symbols) /\ n = Len(result.symbols)
                              /\ DOMAIN res.symbols = 1..m /\ DOMAIN result.symbols = 1..n
      BY <3>1, LenProperties
    <3>3. 1..m = 1..n
      BY <3>2
    <3>4. /\ m = 0 \/ m \in 1..m
          /\ n = 0 \/ n \in 1..n
      OBVIOUS
    <3>5. m = n
      BY <3>3, <3>4
    <3> QED
      BY <3>2, <3>5
  <2> QED
    BY <1>1, <2>1 DEF DroppedAtTheLimit
<1> QED
  BY <1>4, <1>5, <1>6, <1>7, <1>8, <1>9 DEF EsWalk

(* Below the limit nothing was dropped or kept out.                        *)
LEMMA EsNotFull ==
  ASSUME NEW s, NEW V, NEW D, NEW X, NEW M, EsWalk(s, result, V, D, X, M), ~SymbolsFull
  PROVE  ~result.truncated /\ D = {} /\ X = {}
BY DEF EsWalk, DroppedAtTheLimit, SymbolsFull

(* A visit that records a symbol.                                          *)
LEMMA EsRecords ==
  ASSUME EsTree, NEW V, NEW D, NEW X, EsWalk(stack, result, V, D, X, {}), stack # << >>,
         ~SymbolsFull, EsSymbol(Top.node), ~EsVariable(Top.node), Top.node \notin CallNodes,
         NEW name \in EsNames, NEW kind \in EsSymbolKinds, NEW context \in EsContext,
         context.exported => Listed(result, Top.node, name),
         NEW A, NEW P, NEW next, NEW Q, Moves(A, P, next, Q),
         \A x \in Q : \A r : HasKey(r, Top.node, NextKey) => EsEntryRight(x, r, {})
  PROVE  EsWalk(next, NewSymbol(result, name, kind, Top.node, Top.owner, context),
                V \cup {Top.node} \cup A, {}, {}, {})
<1> DEFINE t == Top.node
           W == V \cup {t} \cup A
           o == Top.owner
           res == NewSymbol(result, name, kind, t, o, context)
           none == {}
<1>0. D = {} /\ X = {} /\ ~result.truncated
  BY EsNotFull
<1>1. /\ EsStacked(stack, V, none, {}) /\ KeptOut(stack, V, none) /\ result \in EsResult
      /\ EsOwned(stack, result, none) /\ EsRecorded(stack, result, V, none, none)
      /\ EsCalled(result, V, none)
  BY <1>0 DEF EsWalk
<1>2. /\ t \in NodesOf(stack) /\ t \notin V /\ NodesOf(Popped) = NodesOf(stack) \ {t}
      /\ ToSet(Popped) = ToSet(stack) \ {Top} /\ Top \in ToSet(stack) /\ t \in Nodes /\ o \in Nat
  BY <1>1, EsFresh
<1>3. /\ NodesOf(next) = NodesOf(Popped) \cup P /\ ToSet(next) = ToSet(Popped) \cup Q
      /\ \A i \in A : i \notin CallNodes /\ ~EsSymbol(i)
      /\ \A i \in P : ~EsVariable(i)
  BY DEF Moves
<1>4. EsStacked(next, W, none, {})
  <2> HIDE DEF none
  <2> QED
    BY <1>1, EsMoves
<1>5. KeyIs(result, {}, EsScope[t], o)
  <2>1. KeyIs(result, none, EsCallScope(t), o)
    BY <1>1, <1>2 DEF EsOwned, EsEntryRight
  <2>2. EsCallScope(t) = EsScope[t]
    BY <1>2, EsSymbols
  <2> QED
    BY <2>1, <2>2
<1>6. /\ res \in EsResult /\ EsCarries(result, res) /\ res.calls = result.calls
      /\ HasKey(res, t, NextKey) /\ NextKey \in Nat
      /\ EsRecorded(next, res, W, {}, {}) /\ res.truncated = result.truncated
  <2>1. \A j \in Nodes : EsSymbol(j) =>
           (Taken1(j, next, W, {}, {}) <=> Taken1(j, stack, V, {}, {}) \/ j = t)
    BY <1>2, <1>3 DEF Taken1
  <2>2. ~Taken1(t, stack, V, {}, {})
    BY <1>2 DEF Taken1
  <2>3. EsRecorded(stack, result, V, {}, {})
    BY <1>1
  <2>4. /\ result \in EsResult /\ t \in Nodes /\ o \in Nat /\ EsSymbol(t)
        /\ context.exported => Listed(result, t, name)
    BY <1>1, <1>2
  <2> HIDE DEF W, t, o, res
  <2>5. LET r == NewSymbol(result, name, kind, t, o, context)
        IN /\ r \in EsResult /\ EsCarries(result, r) /\ r.calls = result.calls
           /\ HasKey(r, t, Len(result.symbols) + 1) /\ Len(result.symbols) + 1 \in Nat
           /\ EsRecorded(next, r, W, {}, {}) /\ r.truncated = result.truncated
    BY <1>5, <2>1, <2>2, <2>3, <2>4, EsAddsSymbol
  <2> QED
    BY <2>5 DEF NextKey, res
<1> HIDE DEF res
<1>7. EsOwned(next, res, none)
  <2>1. ToSet(next) \subseteq ToSet(stack) \cup Q
    BY <1>2, <1>3
  <2>2. \A x \in Q : EsEntryRight(x, res, none)
    BY <1>6
  <2> HIDE DEF none
  <2> QED
    BY <1>1, <1>6, <2>1, <2>2, EsOwnedNext
<1>8. EsCalled(res, W, none)
  <2>1. V \subseteq W /\ \A i \in W : i \in CallNodes => i \in V
    BY <1>3
  <2> HIDE DEF W, none
  <2> QED
    BY <1>1, <1>6, <2>1, EsSameCalls
<1>9. KeptOut(next, W, none) /\ DroppedAtTheLimit(res, {} \cup {})
  BY <1>0, <1>6 DEF KeptOut, DroppedAtTheLimit
<1>10. EsWalk(next, res, W, {}, {}, {})
  BY <1>4, <1>6, <1>7, <1>8, <1>9 DEF EsWalk
<1> QED
  BY <1>10 DEF res

(* A visit that drops a symbol.                                            *)
LEMMA EsDrops ==
  ASSUME EsTree, NEW V, NEW D, NEW X, EsWalk(stack, result, V, D, X, {}), stack # << >>,
         SymbolsFull, ~EsVariable(Top.node), Top.node \notin CallNodes
  PROVE  EsWalk(Popped, Truncated, V \cup {Top.node}, D \cup {Top.node}, X, {})
<1> DEFINE t == Top.node
           W == V \cup {t}
           E == D \cup {t}
           none == {}
<1>1. /\ EsStacked(stack, V, D, {}) /\ KeptOut(stack, V, X) /\ result \in EsResult
      /\ EsOwned(stack, result, X) /\ EsRecorded(stack, result, V, D, X) /\ EsCalled(result, V, X)
  BY DEF EsWalk
<1>2. /\ t \in NodesOf(stack) /\ t \notin V /\ NodesOf(Popped) = NodesOf(stack) \ {t}
      /\ ToSet(Popped) = ToSet(stack) \ {Top}
  BY <1>1, EsFresh
<1>3. EsStacked(Popped, W, E, {})
  BY <1>1, EsDropsNode
<1>4. /\ Truncated \in EsResult /\ Truncated.symbols = result.symbols
      /\ Truncated.calls = result.calls /\ Truncated.truncated /\ Truncated.exports = result.exports
  BY <1>1 DEF Truncated, EsResult
<1>5. EsCarries(result, Truncated)
  BY <1>4 DEF EsCarries, Carries, Locals
<1>6. KeptOut(Popped, W, X)
  BY <1>1, <1>2 DEF KeptOut
<1>7. EsOwned(Popped, Truncated, X)
  <2>1. ToSet(Popped) \subseteq ToSet(stack) \cup none /\ \A x \in none : EsEntryRight(x, Truncated, X)
    BY <1>2
  <2> HIDE DEF none
  <2> QED
    BY <1>1, <1>5, <2>1, EsOwnedNext
<1>8. EsRecorded(Popped, Truncated, W, E, X)
  <2>1. \A i \in Nodes : EsSymbol(i) => (Taken1(i, Popped, W, E, X) <=> Taken1(i, stack, V, D, X))
    BY <1>2 DEF Taken1
  <2> HIDE DEF W, E
  <2> QED
    BY <1>1, <1>4, <1>5, <2>1, EsSameSymbols
<1>9. EsCalled(Truncated, W, X)
  <2>1. V \subseteq W /\ \A i \in W : i \in CallNodes => i \in V
    OBVIOUS
  <2> HIDE DEF W
  <2> QED
    BY <1>1, <1>4, <1>5, <2>1, EsSameCalls
<1>10. DroppedAtTheLimit(Truncated, E \cup X)
  BY <1>4 DEF DroppedAtTheLimit, SymbolsFull
<1> QED
  BY <1>3, <1>4, <1>6, <1>7, <1>8, <1>9, <1>10 DEF EsWalk

(* What wraps a value wraps one, the head of its children.                 *)
LEMMA EsWrapped ==
  ASSUME EsTree, NEW i \in Nodes, Kind(i) \in Wrapping, \E j \in Nodes : Up(j) = i
  PROVE  /\ Head(Children(i)) \in Nodes /\ Up(Head(Children(i))) = i
         /\ \A j \in Nodes : Up(j) = i <=> j = Head(Children(i))
<1> DEFINE S == {j \in Nodes : Up(j) = i}
           list == Sorted(S)
<1>1. PICK a \in Nodes : Up(a) = i
  OBVIOUS
<1>2. S = {a}
  <2>1. \A j \in Nodes : Up(j) = Up(a) => j = a
    BY <1>1 DEF EsTree
  <2> QED
    BY <1>1, <2>1
<1>3. Len(tree) \in Nat /\ S \in SUBSET (1..Len(tree))
  BY EsNodes
<1>4. list \in Seq(S) /\ ToSet(list) = S
  <2> HIDE DEF S
  <2> QED
    BY <1>3, SortedFacts
<1> HIDE DEF S, list
<1>5. list # << >>
  <2>1. ToSet(<< >>) = {}
    BY DEF ToSet
  <2> QED
    BY <1>2, <1>4, <2>1
<1>6. Head(list) = a
  BY <1>2, <1>4, <1>5, HeadTailProperties
<1>7. Children(i) = list
  BY DEF Children, S, list
<1> QED
  BY <1>1, <1>2, <1>6, <1>7 DEF S

(* The steps of the stack.                                                 *)
LEMMA EsPopsOnly ==
  ASSUME EsTree, NEW V, NEW D, EsStacked(stack, V, D, {}), stack # << >>,
         \A j \in Nodes : Up(j) # Top.node
  PROVE  Moves({}, {}, Popped, {})
<1>1. IsStack(Popped, EsEntry)
  BY EsFresh
<1> QED
  BY <1>1 DEF Moves

(* The only node below the top is passed over, and nothing is below it.    *)
LEMMA EsPassesOver ==
  ASSUME EsTree, NEW V, NEW D, EsStacked(stack, V, D, {}), stack # << >>,
         NEW a \in Nodes, \A j \in Nodes : Up(j) = Top.node <=> j = a, Kind(Top.node) # "class",
         \A j \in Nodes : Up(j) # a, a \notin CallNodes, ~EsSymbol(a)
  PROVE  Moves({a}, {}, Popped, {})
<1>1. IsStack(Popped, EsEntry)
  BY EsFresh
<1>2. ~InHeader(a)
  BY EsNoHeader
<1> QED
  BY <1>1, <1>2 DEF Moves

(* What hangs on a node outside its header is put on the stack.            *)
Takes(none, P, k, next, Q) ==
  /\ IsStack(Popped, EsEntry) /\ Kind(Top.node) # "const" /\ k \in Nat /\ none = {}
  /\ P \in SUBSET Nodes /\ \A j \in P : j \notin NodesOf(Popped)
  /\ \A j \in Nodes : j \in P <=> Up(j) = Top.node /\ ~InHeader(j)
  /\ next = Popped \o Entries(Sorted(P), k, NoContext)
  /\ Q = ToSet(Entries(Sorted(P), k, NoContext))

LEMMA EsPushesThese ==
  ASSUME EsTree, NEW none, NEW P, NEW k, NEW next, NEW Q, Takes(none, P, k, next, Q)
  PROVE  /\ Moves(none, P, next, Q)
         /\ \A x \in Q : x.node \in P /\ x.owner = k /\ x.context = NoContext
<1>1. P \cap NodesOf(Popped) = {}
  BY DEF Takes
<1>2. /\ IsStack(next, EsEntry) /\ ToSet(next) = ToSet(Popped) \cup Q
      /\ NodesOf(next) = NodesOf(Popped) \cup P
      /\ \A x \in Q : x.node \in P /\ x.owner = k /\ x.context = NoContext
  BY <1>1, EsPushes DEF Takes
<1>3. \A i \in P : ~EsVariable(i)
  BY DEF Takes, EsVariable, IsVariable
<1>4. Moves(none, P, next, Q)
  BY <1>1, <1>2, <1>3 DEF Takes, Moves
<1> QED
  BY <1>2, <1>4

(* The children of a node are put on the stack.                            *)
LEMMA EsPushesChildren ==
  ASSUME EsTree, NEW V, NEW D, EsStacked(stack, V, D, {}), stack # << >>,
         Kind(Top.node) \notin {"const", "class"}, NEW k \in Nat
  PROVE  \E Q : /\ Moves({}, {j \in Nodes : Up(j) = Top.node}, PushChildren(Top.node, k), Q)
                /\ \A x \in Q : /\ x.node \in Nodes /\ Up(x.node) = Top.node
                                /\ x.owner = k /\ x.context = NoContext
<1> DEFINE P == {j \in Nodes : Up(j) = Top.node}
           next == Popped \o Entries(Sorted(P), k, NoContext)
           Q == ToSet(Entries(Sorted(P), k, NoContext))
           none == {}
<1>1. P \in SUBSET Nodes /\ \A j \in Nodes : j \in P <=> Up(j) = Top.node /\ ~InHeader(j)
  BY EsNoHeader
<1>2. PushChildren(Top.node, k) = next
  BY DEF PushChildren, Children
<1>3. /\ next = Popped \o Entries(Sorted(P), k, NoContext)
      /\ Q = ToSet(Entries(Sorted(P), k, NoContext)) /\ none = {}
  OBVIOUS
<1>4. /\ Kind(Top.node) # "const" /\ IsStack(Popped, EsEntry)
      /\ \A j \in P : j \notin NodesOf(Popped)
  BY EsFresh
<1> HIDE DEF P, next, Q, none
<1>5. Takes(none, P, k, next, Q)
  BY <1>1, <1>3, <1>4 DEF Takes
<1>6. /\ Moves(none, P, next, Q)
      /\ \A x \in Q : x.node \in P /\ x.owner = k /\ x.context = NoContext
  BY <1>5, EsPushesThese
<1>7. /\ Moves(none, P, next, Q)
      /\ \A x \in Q : /\ x.node \in Nodes /\ Up(x.node) = Top.node
                      /\ x.owner = k /\ x.context = NoContext
  BY <1>1, <1>6
<1> QED
  BY <1>2, <1>7 DEF P, none

PushBody(i, k) == Popped \o Entries(ChildrenIn(i, {"body"}), k, NoContext)

(* The body of a class is put on the stack.                                *)
LEMMA EsPushesBody ==
  ASSUME EsTree, NEW V, NEW D, EsStacked(stack, V, D, {}), stack # << >>,
         Kind(Top.node) = "class", NEW k \in Nat
  PROVE  \E P, Q : /\ Moves({}, P, PushBody(Top.node, k), Q)
                   /\ \A x \in Q : /\ x.node \in Nodes /\ Up(x.node) = Top.node
                                   /\ x.owner = k /\ x.context = NoContext
<1> DEFINE P == {j \in Nodes : Up(j) = Top.node /\ tree[j].field \in {"body"}}
           next == Popped \o Entries(Sorted(P), k, NoContext)
           Q == ToSet(Entries(Sorted(P), k, NoContext))
           none == {}
<1>1. P \in SUBSET Nodes /\ \A j \in Nodes : j \in P <=> Up(j) = Top.node /\ ~InHeader(j)
  <2>1. \A j \in Nodes : tree[j].field \in {"body"} <=> ~InHeader(j)
    <3>1. \A j \in Nodes : tree[j] \in EsNode
      BY EsNodes, ElementOfSeq DEF EsTree
    <3> QED
      BY <3>1 DEF EsNode, InHeader
  <2> QED
    BY <2>1
<1>2. PushBody(Top.node, k) = next
  BY DEF PushBody, ChildrenIn
<1>3. /\ next = Popped \o Entries(Sorted(P), k, NoContext)
      /\ Q = ToSet(Entries(Sorted(P), k, NoContext)) /\ none = {}
  OBVIOUS
<1>4. /\ Kind(Top.node) # "const" /\ IsStack(Popped, EsEntry)
      /\ \A j \in P : j \notin NodesOf(Popped)
  BY EsFresh
<1> HIDE DEF P, next, Q, none
<1>5. Takes(none, P, k, next, Q)
  BY <1>1, <1>3, <1>4 DEF Takes
<1>6. /\ Moves(none, P, next, Q)
      /\ \A x \in Q : x.node \in P /\ x.owner = k /\ x.context = NoContext
  BY <1>5, EsPushesThese
<1>7. /\ Moves(none, P, next, Q)
      /\ \A x \in Q : /\ x.node \in Nodes /\ Up(x.node) = Top.node
                      /\ x.owner = k /\ x.context = NoContext
  BY <1>1, <1>6
<1> QED
  BY <1>2, <1>7 DEF none

(* The only node below the top is passed over, and what is below it is     *)
(* put on the stack.                                                       *)
LEMMA EsPushesBelow ==
  ASSUME EsTree, NEW V, NEW D, EsStacked(stack, V, D, {}), stack # << >>,
         NEW a \in Nodes, \A j \in Nodes : Up(j) = Top.node <=> j = a,
         Kind(Top.node) # "class", Kind(a) \notin {"const", "class"},
         a \notin CallNodes, ~EsSymbol(a), NEW k \in Nat
  PROVE  \E Q : /\ Moves({a}, {j \in Nodes : Up(j) = a}, PushChildren(a, k), Q)
                /\ \A x \in Q : /\ x.node \in Nodes /\ Up(x.node) = a
                                /\ x.owner = k /\ x.context = NoContext
<1> DEFINE t == Top.node
           P == {j \in Nodes : Up(j) = a}
           next == Popped \o Entries(Sorted(P), k, NoContext)
           Q == ToSet(Entries(Sorted(P), k, NoContext))
<1>1. /\ IsStack(Popped, EsEntry) /\ NodesOf(Popped) = NodesOf(stack) \ {t}
      /\ \A j \in P : j \notin NodesOf(stack) /\ j # a
  BY EsFresh
<1>2. /\ IsStack(next, EsEntry) /\ ToSet(next) = ToSet(Popped) \cup Q
      /\ NodesOf(next) = NodesOf(Popped) \cup P
      /\ \A x \in Q : x.node \in P /\ x.owner = k /\ x.context = NoContext
  <2>1. P \in SUBSET Nodes /\ P \cap NodesOf(Popped) = {}
    BY <1>1
  <2> HIDE DEF P
  <2> QED
    BY <1>1, <2>1, EsPushes
<1>3. PushChildren(a, k) = next
  BY DEF PushChildren, Children
<1>4. \A i \in P : ~EsVariable(i)
  BY DEF EsVariable, IsVariable
<1> HIDE DEF next, Q
<1>5. Moves({a}, P, next, Q)
  <2>1. {a} \cap P = {} /\ P \subseteq Nodes /\ \A i \in P : Up(i) = a
    BY <1>1
  <2>2. \A i \in Nodes : i \in {a} \cup P <=> ~InHeader(i) /\ (Up(i) = t \/ Up(i) \in {a})
    BY EsNoHeader
  <2> HIDE DEF P
  <2> QED
    BY <1>2, <1>4, <2>1, <2>2 DEF Moves
<1> QED
  BY <1>2, <1>3, <1>5

(* The only node below the top is put on the stack.                        *)
LEMMA EsPushesValue ==
  ASSUME EsTree, NEW V, NEW D, EsStacked(stack, V, D, {}), stack # << >>,
         Kind(Top.node) \notin {"const", "class"}, NEW a \in Nodes,
         \A j \in Nodes : Up(j) = Top.node <=> j = a,
         NEW k \in Nat, NEW context \in EsContext
  PROVE  Moves({}, {a}, PushValue(a, k, context), {[node |-> a, owner |-> k, context |-> context]})
<1> DEFINE t == Top.node
           x == [node |-> a, owner |-> k, context |-> context]
<1>1. /\ IsStack(Popped, EsEntry) /\ NodesOf(Popped) = NodesOf(stack) \ {t}
      /\ a \notin NodesOf(stack)
  BY EsFresh
<1>2. x \in EsEntry /\ x.node = a
  <2>1. a \in Nat
    BY EsNodes
  <2> QED
    BY <2>1 DEF EsEntry
<1>3. PushValue(a, k, context) = Popped \o <<x>>
  BY DEF PushValue
<1> HIDE DEF x
<1>4. /\ IsStack(Popped \o <<x>>, EsEntry) /\ ToSet(Popped \o <<x>>) = ToSet(Popped) \cup {x}
      /\ NodesOf(Popped \o <<x>>) = NodesOf(Popped) \cup {a}
  BY <1>1, <1>2, PushedOne
<1>5. ~EsVariable(a)
  BY DEF EsVariable, IsVariable
<1>6. ~InHeader(a)
  BY EsNoHeader
<1>7. Moves({}, {a}, Popped \o <<x>>, {x})
  BY <1>4, <1>5, <1>6 DEF Moves
<1> QED
  BY <1>3, <1>7 DEF x

(* What hangs on a node, laid down with the key of its scope.              *)
LEMMA EsChildRight ==
  ASSUME EsTree, NEW res, NEW X, NEW x, x.node \in Nodes, x.context = NoContext,
         Up(x.node) # 0, Kind(Up(x.node)) # "const",
         Kind(x.node) = "arrow" => ~EsSymbol(x.node),
         KeyIs(res, X, Inner(Up(x.node)), x.owner)
  PROVE  EsEntryRight(x, res, X)
<1>1. ~EsVariable(x.node) /\ ~IsWrapper(x.node)
  BY DEF EsVariable, IsVariable, IsWrapper
<1>2. EsCallScope(x.node) = Inner(Up(x.node))
  BY <1>1, EsSymbols, EsScopeOfChild
<1>3. NoContext.name = "" /\ ~NoContext.exported
  BY DEF NoContext
<1>4. x.context.name = "" /\ ~x.context.exported
  BY <1>3
<1> QED
  BY <1>1, <1>2, <1>4 DEF EsEntryRight

(* What the node on top holds.                                             *)
LEMMA EsTop ==
  ASSUME EsTree, NEW V, NEW D, NEW X, EsWalk(stack, result, V, D, X, {}), stack # << >>
  PROVE  /\ EsStacked(stack, V, D, {}) /\ result \in EsResult
         /\ EsCalled(result, V, X) /\ EsEntryRight(Top, result, X)
         /\ Top.node \in Nodes /\ Top.node \notin V /\ Top.node # 0 /\ Top.owner \in Nat
         /\ Top.context \in EsContext /\ NextKey \in Nat /\ ~InHeader(Top.node)
         /\ Kind(Top.node) \notin {"call", "memo", "jsx"} => Top.node \notin CallNodes
         /\ (EsSymbol(Top.node) => EsVariable(Top.node))
              => KeyIs(result, X, Inner(Top.node), Top.owner)
<1>1. /\ EsStacked(stack, V, D, {}) /\ result \in EsResult /\ EsOwned(stack, result, X)
      /\ EsCalled(result, V, X)
  BY DEF EsWalk
<1>2. /\ Top \in ToSet(stack) /\ Top.node \in Nodes /\ Top.node \notin V /\ Top.node # 0
      /\ Top.owner \in Nat /\ Top.context \in EsContext /\ ~InHeader(Top.node)
  BY <1>1, EsFresh
<1>3. EsEntryRight(Top, result, X)
  BY <1>1, <1>2 DEF EsOwned
<1>4. (EsSymbol(Top.node) => EsVariable(Top.node)) => EsCallScope(Top.node) = Inner(Top.node)
  BY <1>2, EsSymbols DEF Inner
<1>5. NextKey \in Nat
  <2>1. Len(result.symbols) \in Nat
    BY <1>1, LenProperties DEF EsResult
  <2> QED
    BY <2>1 DEF NextKey
<1> QED
  BY <1>1, <1>2, <1>3, <1>4, <1>5 DEF EsEntryRight, CallNodes

-----------------------------------------------------------------------------
(* ECMAScript: the visits that record no symbol.                           *)

\* A result with the same symbols and calls, and imports or exports besides.
EsAlike(r, res) ==
  /\ res \in EsResult /\ res.symbols = r.symbols /\ res.calls = r.calls
  /\ res.truncated = r.truncated /\ EsCarries(r, res)

(* Results that are alike, step by step.                                   *)
LEMMA EsAlikeStill ==
  ASSUME NEW r, NEW q, NEW res, EsAlike(r, q), EsAlike(q, res)
  PROVE  EsAlike(r, res)
<1>1. Locals(r) \subseteq Locals(res) /\ res.symbols = r.symbols
  BY DEF EsAlike, EsCarries
<1>2. EsCarries(r, res)
  BY <1>1, EsCarriesOn
<1> QED
  BY <1>2 DEF EsAlike

(* A result is like itself.                                                *)
LEMMA EsAlikeItself ==
  ASSUME NEW r \in EsResult
  PROVE  EsAlike(r, r)
BY EsCarriesOn DEF EsAlike

(* An export is put on the list.                                           *)
LEMMA EsExports ==
  ASSUME NEW r \in EsResult, NEW name \in EsNames, NEW local \in EsNames,
         NEW kind \in EsExportKinds, NEW res, res = Exports(r, name, local, kind)
  PROVE  EsAlike(r, res) /\ Locals(res) = Locals(r) \cup {local}
<1> DEFINE new == [name |-> name, local |-> local, kind |-> kind]
           list == Append(r.exports, new)
<1>1. r.exports \in Seq(EsExport) /\ new \in EsExport /\ new.local = local
  BY DEF EsResult, EsExport
<1>0. res = [r EXCEPT !.exports = list]
  BY DEF Exports
<1> HIDE DEF new
<1>2. /\ list \in Seq(EsExport) /\ list[Len(r.exports) + 1] = new
      /\ DOMAIN list = 1..(Len(r.exports) + 1) /\ Len(r.exports) \in Nat
      /\ \A i \in DOMAIN r.exports : i \in DOMAIN list /\ list[i] = r.exports[i]
      /\ \A i \in DOMAIN list : i \in DOMAIN r.exports \/ i = Len(r.exports) + 1
  BY <1>1, Appended
<1>3. ToSet(list) = ToSet(r.exports) \cup {new}
  <2>1. Len(r.exports) + 1 \in DOMAIN list
    BY <1>2
  <2> HIDE DEF list
  <2> QED
    BY <1>2, <2>1 DEF ToSet
<1> HIDE DEF list
<1>4. /\ res \in EsResult /\ res.symbols = r.symbols /\ res.calls = r.calls
      /\ res.truncated = r.truncated /\ res.exports = list
  BY <1>0, <1>2 DEF EsResult
<1>5. Locals(res) = Locals(r) \cup {local}
  BY <1>1, <1>3, <1>4 DEF Locals
<1>6. EsCarries(r, res)
  BY <1>4, <1>5, EsCarriesOn
<1> QED
  BY <1>4, <1>5, <1>6 DEF EsAlike

(* An import is put on the list.                                           *)
LEMMA EsImports ==
  ASSUME NEW r \in EsResult, NEW i \in Nat,
         NEW res, res = [r EXCEPT !.imports = Append(@, [node |-> i])]
  PROVE  EsAlike(r, res)
<1> DEFINE new == [node |-> i]
           list == Append(r.imports, new)
<1>0. res = [r EXCEPT !.imports = list]
  OBVIOUS
<1>1. r.imports \in Seq(EsImport) /\ new \in EsImport
  BY DEF EsResult, EsImport
<1> HIDE DEF new
<1>2. list \in Seq(EsImport)
  BY <1>1, Appended
<1> HIDE DEF list
<1>3. /\ res \in EsResult /\ res.symbols = r.symbols /\ res.calls = r.calls
      /\ res.truncated = r.truncated /\ res.exports = r.exports
  BY <1>0, <1>2 DEF EsResult
<1>4. EsCarries(r, res)
  BY <1>3, EsCarriesOn DEF Locals
<1> QED
  BY <1>3, <1>4 DEF EsAlike

(* A node that is neither a symbol nor a call, whatever is pushed for it.  *)
LEMMA EsPasses ==
  ASSUME EsTree, NEW V, NEW D, NEW X, EsWalk(stack, result, V, D, X, {}), stack # << >>,
         EsSymbol(Top.node) => EsVariable(Top.node), Top.node \notin CallNodes,
         NEW A, NEW P, NEW next, NEW Q, Moves(A, P, next, Q),
         NEW res, EsAlike(result, res), \A x \in Q : EsEntryRight(x, res, X)
  PROVE  EsWalk(next, res, V \cup {Top.node} \cup A, D, X, {})
<1> DEFINE W == V \cup {Top.node}
<1>1. /\ EsCalled(result, V, X) /\ res \in EsResult /\ res.symbols = result.symbols
      /\ res.calls = result.calls /\ res.truncated = result.truncated /\ EsCarries(result, res)
  BY DEF EsWalk, EsAlike
<1>2. V \subseteq W /\ \A i \in W : i \in CallNodes => i \in V
  OBVIOUS
<1>3. EsCalled(res, W, X)
  <2> HIDE DEF W
  <2> QED
    BY <1>1, <1>2, EsSameCalls
<1> QED
  BY <1>1, <1>3, EsGoesOn

(* The same without a value that is passed over.                           *)
LEMMA EsPassesOn ==
  ASSUME EsTree, NEW V, NEW D, NEW X, EsWalk(stack, result, V, D, X, {}), stack # << >>,
         EsSymbol(Top.node) => EsVariable(Top.node), Top.node \notin CallNodes,
         NEW P, NEW next, NEW Q, Moves({}, P, next, Q),
         NEW res, EsAlike(result, res), \A x \in Q : EsEntryRight(x, res, X)
  PROVE  EsWalk(next, res, V \cup {Top.node}, D, X, {})
<1> DEFINE none == {}
<1>1. Moves(none, P, next, Q)
  OBVIOUS
<1>2. V \cup {Top.node} \cup none = V \cup {Top.node}
  OBVIOUS
<1> HIDE DEF none
<1>3. EsWalk(next, res, V \cup {Top.node} \cup none, D, X, {})
  BY <1>1, EsPasses
<1> QED
  BY <1>2, <1>3

(* A statement that has no children, and declares nothing.                 *)
LEMMA EsVisitImport ==
  ASSUME EsTree, NEW V, NEW D, NEW X, EsWalk(stack, result, V, D, X, {}), stack # << >>,
         \/ ImportStatement(Top.node) \/ ReExport(Top.node) \/ ExportClause(Top.node)
  PROVE  EsWalk(stack', result', V \cup {Top.node}, D, X, {})
<1> DEFINE t == Top.node
           none == {}
<1>1. /\ EsStacked(stack, V, D, {}) /\ result \in EsResult /\ t \in Nodes
      /\ Kind(t) \notin {"call", "memo", "jsx"} => t \notin CallNodes
  BY EsTop
<1>2. Kind(t) \in {"import", "re-export", "clause"} /\ stack' = Popped
  BY DEF ImportStatement, ReExport, ExportClause, Goes
<1>3. ~EsSymbol(t)
  BY <1>1, <1>2, EsSymbols
<1>4. Moves({}, none, Popped, none)
  <2>1. \A j \in Nodes : Up(j) # t
    BY <1>2 DEF EsTree, EsParents, Scoping, Wrapping
  <2> QED
    BY <1>1, <2>1, EsPopsOnly
<1>5. EsAlike(result, result')
  <2> DEFINE imported == [result EXCEPT !.imports = Append(@, [node |-> t])]
             empty == ""
             alias == "alias"
             of == "re_export"
             named == "named"
  <2>0. /\ t \in Nat /\ tree[t].name \in EsNames /\ empty \in EsNames /\ alias \in EsNames
        /\ of \in EsExportKinds /\ named \in EsExportKinds
    BY <1>1, EsNodes DEF EsNames, EsExportKinds
  <2>1. EsAlike(result, imported)
    BY <1>1, <2>0, EsImports
  <2>2. CASE ImportStatement(t)
    BY <2>1, <2>2 DEF ImportStatement, Goes
  <2>3. CASE ReExport(t)
    <3>1. result' = Exports(imported, tree[t].name, empty, of)
      BY <2>3 DEF ReExport, Goes
    <3>2. imported \in EsResult
      BY <2>1 DEF EsAlike
    <3> HIDE DEF imported, empty, of
    <3>3. EsAlike(imported, result')
      BY <2>0, <3>1, <3>2, EsExports
    <3> QED
      BY <2>1, <3>3, EsAlikeStill
  <2>4. CASE ExportClause(t)
    <3>1. result' = Exports(result, alias, tree[t].name, named)
      BY <2>4 DEF ExportClause, Goes
    <3> HIDE DEF alias, named
    <3> QED
      BY <1>1, <2>0, <3>1, EsExports
  <2> QED
    BY <2>2, <2>3, <2>4
<1>6. \A x \in none : EsEntryRight(x, result', X)
  OBVIOUS
<1>7. t \notin CallNodes /\ (EsSymbol(t) => EsVariable(t))
  BY <1>1, <1>2, <1>3
<1> HIDE DEF none
<1>8. EsWalk(Popped, result', V \cup {Top.node}, D, X, {})
  BY <1>4, <1>5, <1>6, <1>7, EsPassesOn
<1> QED
  BY <1>2, <1>8

(* What is passed through.                                                 *)
LEMMA EsVisitOther ==
  ASSUME EsTree, NEW V, NEW D, NEW X, EsWalk(stack, result, V, D, X, {}), stack # << >>,
         OtherNode(Top.node, Top.owner)
  PROVE  EsWalk(stack', result', V \cup {Top.node}, D, X, {})
<1> DEFINE t == Top.node
           P == {j \in Nodes : Up(j) = t}
<1>1. /\ EsStacked(stack, V, D, {}) /\ result \in EsResult /\ t \in Nodes /\ Top.owner \in Nat
      /\ Kind(t) \notin {"call", "memo", "jsx"} => t \notin CallNodes
  BY EsTop
<1>2. /\ Kind(t) \in {"ident", "value", "object"}
      /\ stack' = PushChildren(t, Top.owner) /\ result' = result
  BY DEF OtherNode, Goes
<1>3. EsSymbol(t) => EsVariable(t)
  BY <1>1, <1>2, EsSymbols
<1>4. PICK Q : /\ Moves({}, P, PushChildren(t, Top.owner), Q)
               /\ \A x \in Q : x.node \in Nodes /\ Up(x.node) = t
  BY <1>1, <1>2, EsPushesChildren
<1>5. \A x \in Q : EsEntryRight(x, result, X)
  BY <1>2, <1>4 DEF EsTree, EsParents, Scoping, Wrapping
<1>6. EsAlike(result, result)
  BY <1>1, EsAlikeItself
<1>7. t \notin CallNodes
  BY <1>1, <1>2
<1> HIDE DEF P
<1>8. EsWalk(PushChildren(t, Top.owner), result, V \cup {Top.node}, D, X, {})
  BY <1>1, <1>3, <1>4, <1>5, <1>6, <1>7, EsPassesOn
<1> QED
  BY <1>2, <1>8

(* The same, with a call.                                                  *)
LEMMA EsGoesOnHere ==
  ASSUME EsTree, NEW V, NEW D, NEW X, EsWalk(stack, result, V, D, X, {}), stack # << >>,
         EsSymbol(Top.node) => EsVariable(Top.node),
         NEW P, NEW next, NEW Q, Moves({}, P, next, Q),
         NEW res \in EsResult, EsCarries(result, res), DOMAIN res.symbols = DOMAIN result.symbols,
         res.truncated = result.truncated, EsCalled(res, V \cup {Top.node}, X),
         \A x \in Q : EsEntryRight(x, res, X)
  PROVE  EsWalk(next, res, V \cup {Top.node}, D, X, {})
<1> DEFINE none == {}
<1>1. Moves(none, P, next, Q)
  OBVIOUS
<1>2. V \cup {Top.node} \cup none = V \cup {Top.node}
  OBVIOUS
<1> HIDE DEF none
<1>3. EsWalk(next, res, V \cup {Top.node} \cup none, D, X, {})
  BY <1>1, EsGoesOn
<1> QED
  BY <1>2, <1>3

(* What a call is given are no symbols: a wrapper, whose function is one,  *)
(* is not visited.                                                         *)
LEMMA EsGiven ==
  ASSUME EsTree, NEW t \in Nodes, Kind(t) \in {"call", "memo", "jsx"}, ~IsWrapper(t),
         NEW j \in Nodes, Up(j) = t, Kind(j) = "arrow"
  PROVE  ~EsSymbol(j)
<1>1. Kind(t) = "memo" => tree[t].bind = ""
  <2>1. HoldsFunction(t)
    BY DEF HoldsFunction, FunctionValues
  <2>2. tree[t].bind # "" => Kind(Up(t)) = "const"
    BY DEF EsTree
  <2> QED
    BY <2>1, <2>2 DEF IsWrapper
<1>2. PlaceName(j) = ""
  BY <1>1 DEF PlaceName
<1> QED
  BY <1>2, EsSymbols

(* A call, and what it is given.                                           *)
LEMMA EsVisitCalling ==
  ASSUME EsTree, NEW V, NEW D, NEW X, EsWalk(stack, result, V, D, X, {}), stack # << >>,
         Kind(Top.node) \in {"call", "memo", "jsx"},
         NEW res \in EsResult, EsCarries(result, res), DOMAIN res.symbols = DOMAIN result.symbols,
         res.truncated = result.truncated, EsCalled(res, V \cup {Top.node}, X)
  PROVE  EsWalk(PushChildren(Top.node, Top.owner), res, V \cup {Top.node}, D, X, {})
<1> DEFINE t == Top.node
           P == {j \in Nodes : Up(j) = t}
<1>1. /\ EsStacked(stack, V, D, {}) /\ t \in Nodes /\ t # 0 /\ Top.owner \in Nat
      /\ ~IsWrapper(t)
      /\ (EsSymbol(t) => EsVariable(t)) => KeyIs(result, X, Inner(t), Top.owner)
  BY EsTop DEF EsEntryRight
<1>2. EsSymbol(t) => EsVariable(t)
  BY <1>1, EsSymbols
<1>3. PICK Q : /\ Moves({}, P, PushChildren(t, Top.owner), Q)
               /\ \A x \in Q : /\ x.node \in Nodes /\ Up(x.node) = t
                               /\ x.owner = Top.owner /\ x.context = NoContext
  BY <1>1, EsPushesChildren
<1>4. KeyIs(res, X, Inner(t), Top.owner)
  BY <1>1, <1>2, KeysKept
<1>5. ASSUME NEW x \in Q PROVE EsEntryRight(x, res, X)
  <2>1. /\ x.node \in Nodes /\ Up(x.node) = t /\ x.owner = Top.owner /\ x.context = NoContext
        /\ Up(x.node) # 0 /\ Kind(Up(x.node)) # "const"
    BY <1>1, <1>3
  <2>2. Kind(x.node) = "arrow" => ~EsSymbol(x.node)
    BY <1>1, <2>1, EsGiven
  <2>3. KeyIs(res, X, Inner(Up(x.node)), x.owner)
    BY <1>4, <2>1
  <2> QED
    BY <2>1, <2>2, <2>3, EsChildRight
<1> HIDE DEF P
<1> QED
  BY <1>2, <1>3, <1>5, EsGoesOnHere

(* What has no name is not recorded, and what it is given is visited.      *)
LEMMA EsVisitUnrecorded ==
  ASSUME EsTree, NEW V, NEW D, NEW X, EsWalk(stack, result, V, D, X, {}), stack # << >>,
         Kind(Top.node) \in {"call", "memo", "jsx"}, Top.node \notin CallNodes
  PROVE  EsWalk(PushChildren(Top.node, Top.owner), result, V \cup {Top.node}, D, X, {})
<1> DEFINE W == V \cup {Top.node}
<1>1. result \in EsResult /\ EsCalled(result, V, X) /\ EsCarries(result, result)
  BY EsTop, EsCarriesOn
<1>2. V \subseteq W /\ \A i \in W : i \in CallNodes => i \in V
  OBVIOUS
<1>3. EsCalled(result, W, X)
  <2> HIDE DEF W
  <2> QED
    BY <1>1, <1>2, EsSameCalls
<1> QED
  BY <1>1, <1>3, EsVisitCalling

(* A call is visited.                                                      *)
LEMMA EsVisitCall ==
  ASSUME EsTree, NEW V, NEW D, NEW X, EsWalk(stack, result, V, D, X, {}), stack # << >>,
         Call(Top.node, Top.owner)
  PROVE  EsWalk(stack', result', V \cup {Top.node}, D, X, {})
<1> DEFINE t == Top.node
           o == Top.owner
<1>1. /\ EsStacked(stack, V, D, {}) /\ result \in EsResult /\ t \in Nodes /\ t \notin V
      /\ o \in Nat /\ EsCalled(result, V, X) /\ EsEntryRight(Top, result, X) /\ ~InHeader(t)
      /\ Kind(t) \notin {"call", "memo", "jsx"} => t \notin CallNodes
  BY EsTop
<1>2. Kind(t) \in {"call", "memo", "require", "import()"} /\ stack' = PushChildren(t, o)
  BY DEF Call, Goes
<1>3. CASE Kind(t) \in {"call", "memo"} /\ tree[t].name # ""
  <2> DEFINE kind == "call"
  <2>1. result' = RecordCall(t, o, kind) /\ kind \in {"call", "render"}
    BY <1>3 DEF Call, Goes
  <2>2. t \in CallNodes /\ KeyIs(result, X, EsCallScope(t), o)
    BY <1>1, <1>3 DEF CallNodes, EsEntryRight
  <2> HIDE DEF kind, t, o
  <2>3. LET res == RecordCall(t, o, kind)
        IN /\ res \in EsResult /\ res.symbols = result.symbols /\ EsCarries(result, res)
           /\ res.truncated = result.truncated /\ EsCalled(res, V \cup {t}, X)
    BY <1>1, <2>1, <2>2, EsAddsCall
  <2>4. /\ result' \in EsResult /\ EsCarries(result, result')
        /\ DOMAIN result'.symbols = DOMAIN result.symbols
        /\ result'.truncated = result.truncated /\ EsCalled(result', V \cup {t}, X)
    BY <2>1, <2>3
  <2>5. EsWalk(PushChildren(Top.node, Top.owner), result', V \cup {Top.node}, D, X, {})
    BY <1>3, <2>4, EsVisitCalling DEF t
  <2> QED
    BY <1>2, <2>5 DEF t, o
<1>4. CASE Kind(t) \in {"call", "memo"} /\ tree[t].name = ""
  <2>1. result' = result
    BY <1>4 DEF Call, Goes
  <2>2. Kind(t) = "call"
    BY <1>1, <1>4 DEF EsTree
  <2>3. t \notin CallNodes
    BY <1>4, <2>2 DEF CallNodes
  <2>4. EsWalk(PushChildren(t, o), result, V \cup {Top.node}, D, X, {})
    BY <2>2, <2>3, EsVisitUnrecorded
  <2> QED
    BY <1>2, <2>1, <2>4
<1>5. CASE Kind(t) \in {"require", "import()"}
  <2> DEFINE P == {j \in Nodes : Up(j) = t}
  <2>1. /\ t \in Nat
        /\ IF tree[t].name = "" THEN result' = result
           ELSE result' = [result EXCEPT !.imports = Append(@, [node |-> t])]
    BY <1>1, <1>5, EsNodes DEF Call, Goes
  <2>2. EsAlike(result, result')
    BY <1>1, <2>1, EsImports, EsAlikeItself
  <2>3. PICK Q : /\ Moves({}, P, PushChildren(t, o), Q)
                 /\ \A x \in Q : x.node \in Nodes /\ Up(x.node) = t
    BY <1>1, <1>5, EsPushesChildren
  <2>4. \A x \in Q : EsEntryRight(x, result', X)
    BY <1>5, <2>3 DEF EsTree, EsParents, Scoping, Wrapping
  <2>5. t \notin CallNodes /\ (EsSymbol(t) => EsVariable(t))
    BY <1>1, <1>5, EsSymbols
  <2> HIDE DEF P
  <2>6. EsWalk(PushChildren(t, o), result', V \cup {Top.node}, D, X, {})
    BY <2>2, <2>3, <2>4, <2>5, EsPassesOn
  <2> QED
    BY <1>2, <2>6
<1> QED
  BY <1>2, <1>3, <1>4, <1>5

(* An element of a component is a call; any marks the function it is in.   *)
LEMMA EsVisitJsx ==
  ASSUME EsTree, NEW V, NEW D, NEW X, EsWalk(stack, result, V, D, X, {}), stack # << >>,
         Jsx(Top.node, Top.owner)
  PROVE  EsWalk(stack', result', V \cup {Top.node}, D, X, {})
<1> DEFINE t == Top.node
           o == Top.owner
           kind == "render"
           called == IF tree[t].name \in Capitalised THEN RecordCall(t, o, kind) ELSE result
           W == V \cup {t}
<1>1. /\ EsStacked(stack, V, D, {}) /\ result \in EsResult /\ t \in Nodes /\ t \notin V
      /\ o \in Nat /\ EsCalled(result, V, X) /\ EsEntryRight(Top, result, X) /\ ~InHeader(t)
  BY EsTop
<1>2. /\ Kind(t) = "jsx" /\ stack' = PushChildren(t, o) /\ kind \in {"call", "render"}
      /\ result' = IF o = 0 THEN called ELSE [called EXCEPT !.symbols[o].jsx = TRUE]
  BY DEF Jsx, Goes
<1>3. /\ t \in CallNodes <=> tree[t].name \in Capitalised
      /\ KeyIs(result, X, EsCallScope(t), o)
  BY <1>1, <1>2 DEF CallNodes, EsEntryRight
<1>4. /\ called \in EsResult /\ called.symbols = result.symbols /\ EsCarries(result, called)
      /\ called.truncated = result.truncated /\ EsCalled(called, W, X)
  <2>1. CASE t \in CallNodes
    <3>1. called = RecordCall(t, o, kind)
      BY <1>3, <2>1
    <3> HIDE DEF kind, t, o, called
    <3>2. LET res == RecordCall(t, o, kind)
          IN /\ res \in EsResult /\ res.symbols = result.symbols /\ EsCarries(result, res)
             /\ res.truncated = result.truncated /\ EsCalled(res, V \cup {t}, X)
      BY <1>1, <1>2, <1>3, <2>1, EsAddsCall
    <3> QED
      BY <3>1, <3>2
  <2>2. CASE t \notin CallNodes
    <3>1. called = result
      BY <1>3, <2>2
    <3>2. V \subseteq W /\ \A i \in W : i \in CallNodes => i \in V
      BY <2>2
    <3>3. EsCarries(result, result)
      BY EsCarriesOn
    <3> HIDE DEF W, called
    <3>4. EsCalled(result, W, X)
      BY <1>1, <3>2, <3>3, EsSameCalls
    <3> QED
      BY <1>1, <3>1, <3>3, <3>4
  <2> QED
    BY <2>1, <2>2
<1> HIDE DEF called
<1>5. /\ result' \in EsResult /\ EsCarries(result, result') /\ EsCarries(called, result')
      /\ DOMAIN result'.symbols = DOMAIN result.symbols
      /\ result'.truncated = result.truncated /\ result'.calls = called.calls
  <2>1. CASE o = 0
    <3>1. result' = called
      BY <1>2, <2>1
    <3>2. EsCarries(called, called)
      BY EsCarriesOn
    <3> QED
      BY <1>4, <3>1, <3>2
  <2>2. CASE o # 0
    <3> DEFINE one == [called.symbols[o] EXCEPT !.jsx = TRUE]
               list == [called.symbols EXCEPT ![o] = one]
    <3>1. called.symbols \in Seq(EsSymbolRecord) /\ o \in DOMAIN called.symbols
      BY <1>3, <1>4, <2>2 DEF KeyIs, HasKey, EsResult
    <3>2. called.symbols[o] \in EsSymbolRecord
      BY <3>1, LenProperties, ElementOfSeq
    <3>3. /\ one \in EsSymbolRecord /\ one.node = called.symbols[o].node
          /\ one.name = called.symbols[o].name /\ one.parent = called.symbols[o].parent
          /\ one.exported = called.symbols[o].exported
      BY <3>2 DEF EsSymbolRecord
    <3>4. result' = [called EXCEPT !.symbols = list]
      BY <1>2, <1>4, <2>2 DEF EsResult
    <3> HIDE DEF one
    <3>5. /\ DOMAIN list = DOMAIN called.symbols
          /\ \A k \in DOMAIN list : list[k] = IF k = o THEN one ELSE called.symbols[k]
      BY <3>1
    <3>6. list \in Seq(EsSymbolRecord)
      BY <3>1, <3>3, ExceptSeq
    <3> HIDE DEF list
    <3>7. /\ result' \in EsResult /\ result'.calls = called.calls /\ result'.symbols = list
          /\ result'.truncated = called.truncated /\ result'.exports = called.exports
      BY <1>4, <3>4, <3>6 DEF EsResult
    <3>8. EsCarries(called, result')
      BY <3>3, <3>5, <3>7 DEF EsCarries, Carries, Locals
    <3>9. EsCarries(result, result')
      <4>1. Locals(result) \subseteq Locals(called)
        BY <1>4 DEF EsCarries
      <4> QED
        BY <1>4, <3>8, <4>1 DEF EsCarries, Carries
    <3> QED
      BY <1>4, <3>5, <3>7, <3>8, <3>9
  <2> QED
    BY <2>1, <2>2
<1>6. EsCalled(result', W, X)
  <2>1. W \subseteq W /\ \A i \in W : i \in CallNodes => i \in W
    OBVIOUS
  <2> HIDE DEF W
  <2> QED
    BY <1>4, <1>5, <2>1, EsSameCalls
<1>7. EsWalk(PushChildren(Top.node, Top.owner), result', V \cup {Top.node}, D, X, {})
  BY <1>2, <1>5, <1>6, EsVisitCalling
<1> QED
  BY <1>2, <1>7

-----------------------------------------------------------------------------
(* ECMAScript: the visits that record a symbol.                            *)

(* The top of the stack is recorded as a symbol.                           *)
LEMMA EsRecordsHere ==
  ASSUME EsTree, NEW V, NEW D, NEW X, EsWalk(stack, result, V, D, X, {}), stack # << >>,
         ~SymbolsFull, EsSymbol(Top.node), ~EsVariable(Top.node), Top.node \notin CallNodes,
         NEW name \in EsNames, NEW kind \in EsSymbolKinds, NEW context \in EsContext,
         context.exported => Listed(result, Top.node, name),
         NEW P, NEW next, NEW Q, Moves({}, P, next, Q),
         \A x \in Q : \A r : HasKey(r, Top.node, NextKey) => EsEntryRight(x, r, {})
  PROVE  EsWalk(next, NewSymbol(result, name, kind, Top.node, Top.owner, context),
                V \cup {Top.node}, {}, {}, {})
<1> DEFINE none == {}
           res == NewSymbol(result, name, kind, Top.node, Top.owner, context)
<1>1. Moves(none, P, next, Q)
  OBVIOUS
<1>2. V \cup {Top.node} \cup none = V \cup {Top.node}
  OBVIOUS
<1> HIDE DEF none
<1>3. EsWalk(next, res, V \cup {Top.node} \cup none, {}, {}, {})
  BY <1>1, EsRecords
<1> HIDE DEF res
<1>4. EsWalk(next, res, V \cup {Top.node}, {}, {}, {})
  BY <1>2, <1>3
<1> QED
  BY <1>4 DEF res

(* What hangs on a symbol has its key.                                     *)
LEMMA EsBelowRight ==
  ASSUME EsTree, NEW t \in Nodes, EsSymbol(t), Kind(t) \in {"function", "arrow", "class", "method"},
         NEW k, NEW Q,
         \A x \in Q : /\ x.node \in Nodes /\ Up(x.node) = t
                      /\ x.owner = k /\ x.context = NoContext,
         NEW r, HasKey(r, t, k)
  PROVE  \A x \in Q : EsEntryRight(x, r, {})
<1> DEFINE none == {}
<1>1. ASSUME NEW x \in Q PROVE EsEntryRight(x, r, none)
  <2>1. /\ x.node \in Nodes /\ Up(x.node) = t /\ x.owner = k /\ x.context = NoContext
        /\ Up(x.node) # 0 /\ Kind(Up(x.node)) # "const"
    BY EsNodes
  <2>2. Kind(x.node) # "arrow"
    BY <2>1 DEF EsTree, Wrapping
  <2>3. KeyIs(r, none, Inner(Up(x.node)), x.owner)
    BY <2>1 DEF KeyIs, Inner
  <2> HIDE DEF none
  <2> QED
    BY <2>1, <2>2, <2>3, EsChildRight
<1> QED
  BY <1>1

(* A symbol is recorded, or dropped at the limit.                          *)
LEMMA EsVisitSymbol ==
  ASSUME EsTree, NEW V, NEW D, NEW X, EsWalk(stack, result, V, D, X, {}), stack # << >>,
         Kind(Top.node) \in {"function", "arrow", "class", "method"},
         EsSymbol(Top.node) \/ X # {},
         NEW name \in EsNames, NEW kind \in EsSymbolKinds, NEW context \in EsContext,
         context.exported => Listed(result, Top.node, name),
         IF SymbolsFull THEN stack' = Popped /\ result' = Truncated
         ELSE /\ stack' = IF Kind(Top.node) = "class" THEN PushBody(Top.node, NextKey)
                          ELSE PushChildren(Top.node, NextKey)
              /\ result' = NewSymbol(result, name, kind, Top.node, Top.owner, context)
  PROVE  \E W, E, Y : EsWalk(stack', result', W, E, Y, {})
<1> DEFINE t == Top.node
           res == NewSymbol(result, name, kind, t, Top.owner, context)
<1>1. /\ EsStacked(stack, V, D, {}) /\ t \in Nodes /\ NextKey \in Nat
      /\ Kind(t) \notin {"call", "memo", "jsx"} => t \notin CallNodes
  BY EsTop
<1>2. ~EsVariable(t) /\ t \notin CallNodes
  BY <1>1, EsSymbols
<1>3. CASE SymbolsFull
  BY <1>2, <1>3, EsDrops
<1>4. CASE ~SymbolsFull
  <2>1. EsSymbol(t)
    BY <1>4, EsNotFull
  <2>2. PICK P, Q : /\ Moves({}, P, stack', Q)
                    /\ \A x \in Q : /\ x.node \in Nodes /\ Up(x.node) = t
                                    /\ x.owner = NextKey /\ x.context = NoContext
    <3>1. CASE Kind(t) = "class"
      <4>1. stack' = PushBody(t, NextKey)
        BY <1>4, <3>1
      <4> QED
        BY <1>1, <3>1, <4>1, EsPushesBody
    <3>2. CASE Kind(t) # "class"
      <4>1. stack' = PushChildren(t, NextKey)
        BY <1>4, <3>2
      <4>2. Kind(t) \notin {"const", "class"}
        BY <3>2
      <4>3. \E Q : /\ Moves({}, {j \in Nodes : Up(j) = t}, PushChildren(t, NextKey), Q)
                   /\ \A x \in Q : /\ x.node \in Nodes /\ Up(x.node) = t
                                   /\ x.owner = NextKey /\ x.context = NoContext
        BY <1>1, <4>2, EsPushesChildren
      <4> QED
        BY <4>1, <4>3
    <3> QED
      BY <3>1, <3>2
  <2>3. \A r : HasKey(r, t, NextKey) => \A x \in Q : EsEntryRight(x, r, {})
    BY <1>1, <2>1, <2>2, EsBelowRight
  <2>4. \A x \in Q : \A r : HasKey(r, t, NextKey) => EsEntryRight(x, r, {})
    BY <2>3
  <2>5. EsWalk(stack', NewSymbol(result, name, kind, Top.node, Top.owner, context),
               V \cup {Top.node}, {}, {}, {})
    BY <1>2, <1>4, <2>1, <2>2, <2>4, EsRecordsHere
  <2> QED
    BY <1>4, <2>5
<1> QED
  BY <1>3, <1>4

(* The name and the export of what a declaration or a value is.            *)
LEMMA EsNamed ==
  ASSUME EsTree, NEW V, NEW D, NEW X, EsWalk(stack, result, V, D, X, {}), stack # << >>
  PROVE  /\ OwnName(Top.node, Top.context.name) \in EsNames /\ Top.context.name \in EsNames
         /\ tree[Top.node].name \in EsNames /\ NoContext \in EsContext /\ ~NoContext.exported
         /\ Top.context.exported /\ Kind(Top.node) # "const"
              => Listed(result, Top.node, NameGiven(Top.node, Top.context))
<1>1. Top.node \in Nodes /\ Top.context \in EsContext /\ EsEntryRight(Top, result, X)
  BY EsTop
<1>2. tree[Top.node].name \in EsNames /\ "default" \in EsNames
  BY <1>1, EsNodes DEF EsNames
<1>3. Top.context.name \in EsNames
  BY <1>1 DEF EsContext
<1>4. NoContext \in EsContext /\ ~NoContext.exported
  BY DEF NoContext, EsContext, EsNames
<1>5. OwnName(Top.node, Top.context.name) \in EsNames
  BY <1>2, <1>3 DEF OwnName
<1>6. Top.context.exported /\ Kind(Top.node) # "const"
        => Listed(result, Top.node, NameGiven(Top.node, Top.context))
  BY <1>1 DEF EsEntryRight, WillBeListed
<1> QED
  BY <1>2, <1>3, <1>4, <1>5, <1>6

(* A function, a class or a method is visited.                             *)
LEMMA EsVisitFunction ==
  ASSUME EsTree, NEW V, NEW D, NEW X, EsWalk(stack, result, V, D, X, {}), stack # << >>,
         \/ FunctionDeclaration(Top.node, Top.owner, Top.context)
         \/ Class(Top.node, Top.owner, Top.context) \/ Method(Top.node, Top.owner)
  PROVE  \E W, E, Y : EsWalk(stack', result', W, E, Y, {})
<1> DEFINE t == Top.node
           name == OwnName(t, Top.context.name)
<1>1. Kind(t) \in {"function", "class", "method"} /\ t \in Nodes /\ Top.context \in EsContext
  BY EsTop DEF FunctionDeclaration, Class, Method
<1>2. EsSymbol(t)
  BY <1>1, EsSymbols
<1>3. /\ name \in EsNames /\ tree[t].name \in EsNames /\ NoContext \in EsContext
      /\ ~NoContext.exported
      /\ Top.context.exported => Listed(result, t, NameGiven(t, Top.context))
  BY <1>1, EsNamed
<1>4. CASE FunctionDeclaration(t, Top.owner, Top.context)
  <2> DEFINE kind == "function"
  <2>1. Kind(t) = "function" /\ kind \in EsSymbolKinds
    BY <1>4 DEF FunctionDeclaration, EsSymbolKinds
  <2>2. Top.context.exported => Listed(result, t, name)
    BY <1>3, <2>1 DEF NameGiven
  <2>3. IF SymbolsFull THEN stack' = Popped /\ result' = Truncated
        ELSE /\ stack' = PushChildren(t, NextKey)
             /\ result' = NewSymbol(result, name, kind, t, Top.owner, Top.context)
    BY <1>4 DEF FunctionDeclaration, Function, Goes
  <2> HIDE DEF kind, name
  <2> QED
    BY <1>1, <1>2, <1>3, <2>1, <2>2, <2>3, EsVisitSymbol
<1>5. CASE Class(t, Top.owner, Top.context)
  <2> DEFINE kind == "class"
  <2>1. Kind(t) = "class" /\ kind \in EsSymbolKinds
    BY <1>5 DEF Class, EsSymbolKinds
  <2>2. Top.context.exported => Listed(result, t, name)
    BY <1>3, <2>1 DEF NameGiven
  <2>3. IF SymbolsFull THEN stack' = Popped /\ result' = Truncated
        ELSE /\ stack' = IF Kind(t) = "class" THEN PushBody(t, NextKey)
                         ELSE PushChildren(t, NextKey)
             /\ result' = NewSymbol(result, name, kind, t, Top.owner, Top.context)
    BY <1>5, <2>1 DEF Class, Goes, PushBody
  <2> HIDE DEF kind, name
  <2> QED
    BY <1>1, <1>2, <1>3, <2>1, <2>2, <2>3, EsVisitSymbol
<1>6. CASE Method(t, Top.owner)
  <2> DEFINE kind == "method"
             own == tree[t].name
             context == NoContext
  <2>1. kind \in EsSymbolKinds /\ own \in EsNames /\ context \in EsContext /\ ~context.exported
    BY <1>3 DEF EsSymbolKinds
  <2>3. IF SymbolsFull THEN stack' = Popped /\ result' = Truncated
        ELSE /\ stack' = PushChildren(t, NextKey)
             /\ result' = NewSymbol(result, own, kind, t, Top.owner, context)
    BY <1>6 DEF Method, Goes
  <2>4. Kind(t) = "method"
    BY <1>6 DEF Method
  <2> HIDE DEF kind, own, context
  <2> QED
    BY <1>1, <1>2, <2>1, <2>3, <2>4, EsVisitSymbol
<1> QED
  BY <1>4, <1>5, <1>6

(* A function value is a symbol if it was given a name.                    *)
LEMMA EsVisitValue ==
  ASSUME EsTree, NEW V, NEW D, NEW X, EsWalk(stack, result, V, D, X, {}), stack # << >>,
         FunctionValue(Top.node, Top.owner, Top.context)
  PROVE  \E W, E, Y : EsWalk(stack', result', W, E, Y, {})
<1> DEFINE t == Top.node
           name == Top.context.name
<1>1. /\ EsStacked(stack, V, D, {}) /\ Kind(t) = "arrow" /\ t \in Nodes /\ Top.context \in EsContext
      /\ EsEntryRight(Top, result, X) /\ t \notin CallNodes /\ result \in EsResult
      /\ Top.owner \in Nat /\ t # 0
      /\ (EsSymbol(Top.node) => EsVariable(Top.node)) => KeyIs(result, X, Inner(t), Top.owner)
  BY EsTop DEF FunctionValue, FunctionValues
<1>2. CASE name # ""
  <2> DEFINE kind == "function"
  <2>1. kind \in EsSymbolKinds /\ name \in EsNames
    BY EsNamed DEF EsSymbolKinds
  <2>2. Top.context.exported => Listed(result, t, name)
    <3>1. Top.context.exported => Listed(result, t, NameGiven(t, Top.context))
      BY <1>1, EsNamed
    <3> QED
      BY <1>1, <3>1 DEF NameGiven
  <2>3. IF SymbolsFull THEN stack' = Popped /\ result' = Truncated
        ELSE /\ stack' = PushChildren(t, NextKey)
             /\ result' = NewSymbol(result, name, kind, t, Top.owner, Top.context)
    BY <1>2 DEF FunctionValue, Function, Goes
  <2>4. EsSymbol(t) \/ X # {}
    BY <1>1, <1>2 DEF EsEntryRight
  <2> HIDE DEF kind
  <2> QED
    BY <1>1, <2>1, <2>2, <2>3, <2>4, EsVisitSymbol
<1>3. CASE name = ""
  <2> DEFINE P == {j \in Nodes : Up(j) = t}
  <2>1. result' = result /\ stack' = PushChildren(t, Top.owner)
    BY <1>3 DEF FunctionValue, Goes
  <2>2. ~EsSymbol(t)
    BY <1>1, <1>3 DEF EsEntryRight
  <2>3. PICK Q : /\ Moves({}, P, PushChildren(t, Top.owner), Q)
                 /\ \A x \in Q : /\ x.node \in Nodes /\ Up(x.node) = t
                                 /\ x.owner = Top.owner /\ x.context = NoContext
    BY <1>1, EsPushesChildren
  <2>4. ASSUME NEW x \in Q PROVE EsEntryRight(x, result, X)
    <3>1. /\ x.node \in Nodes /\ Up(x.node) = t /\ x.owner = Top.owner /\ x.context = NoContext
          /\ Up(x.node) # 0 /\ Kind(Up(x.node)) # "const"
      BY <1>1, <2>3
    <3>2. Kind(x.node) # "arrow"
      BY <1>1, <3>1 DEF EsTree, Wrapping
    <3>3. KeyIs(result, X, Inner(Up(x.node)), x.owner)
      BY <1>1, <2>2, <3>1
    <3> QED
      BY <3>1, <3>2, <3>3, EsChildRight
  <2>5. EsAlike(result, result)
    BY <1>1, EsAlikeItself
  <2> HIDE DEF P
  <2>6. EsWalk(PushChildren(t, Top.owner), result, V \cup {Top.node}, D, X, {})
    BY <1>1, <2>2, <2>3, <2>4, <2>5, EsPassesOn
  <2> QED
    BY <2>1, <2>6
<1> QED
  BY <1>2, <1>3

(* A type.                                                                 *)
LEMMA EsVisitType ==
  ASSUME EsTree, NEW V, NEW D, NEW X, EsWalk(stack, result, V, D, X, {}), stack # << >>,
         TypeDeclaration(Top.node, Top.owner, Top.context)
  PROVE  \E W, E, Y : EsWalk(stack', result', W, E, Y, {})
<1> DEFINE t == Top.node
           name == tree[t].name
           kind == "type"
           none == {}
<1>1. /\ EsStacked(stack, V, D, {}) /\ Kind(t) = "type" /\ t \in Nodes /\ Top.context \in EsContext
      /\ t \notin CallNodes
  BY EsTop DEF TypeDeclaration
<1>2. EsSymbol(t) /\ ~EsVariable(t)
  BY <1>1, EsSymbols
<1>3. CASE SymbolsFull
  <2>1. stack' = Popped /\ result' = Truncated
    BY <1>3 DEF TypeDeclaration, Goes
  <2> QED
    BY <1>1, <1>2, <1>3, <2>1, EsDrops
<1>4. CASE ~SymbolsFull
  <2>1. stack' = Popped /\ result' = NewSymbol(result, name, kind, t, Top.owner, Top.context)
    BY <1>4 DEF TypeDeclaration, Goes
  <2>2. kind \in EsSymbolKinds /\ name \in EsNames
    BY EsNamed DEF EsSymbolKinds
  <2>3. Top.context.exported => Listed(result, t, name)
    <3>1. Top.context.exported => Listed(result, t, NameGiven(t, Top.context))
      BY <1>1, EsNamed
    <3> QED
      BY <1>1, <3>1 DEF NameGiven
  <2>4. Moves({}, none, Popped, none)
    <3>1. \A j \in Nodes : Up(j) # t
      BY <1>1 DEF EsTree, EsParents, Scoping, Wrapping
    <3> QED
      BY <1>1, <3>1, EsPopsOnly
  <2>5. \A x \in none : \A r : HasKey(r, t, NextKey) => EsEntryRight(x, r, {})
    OBVIOUS
  <2> HIDE DEF none, name, kind
  <2>6. EsWalk(Popped, NewSymbol(result, name, kind, Top.node, Top.owner, Top.context),
               V \cup {Top.node}, {}, {}, {})
    BY <1>1, <1>2, <1>4, <2>2, <2>3, <2>4, <2>5, EsRecordsHere
  <2> QED
    BY <2>1, <2>6
<1> QED
  BY <1>3, <1>4

(* A field is a symbol if it holds a function, which is none itself.       *)
LEMMA EsVisitField ==
  ASSUME EsTree, NEW V, NEW D, NEW X, EsWalk(stack, result, V, D, X, {}), stack # << >>,
         Field(Top.node, Top.owner)
  PROVE  \E W, E, Y : EsWalk(stack', result', W, E, Y, {})
<1> DEFINE t == Top.node
<1>1. /\ EsStacked(stack, V, D, {}) /\ Kind(t) = "field" /\ t \in Nodes /\ result \in EsResult
      /\ t \notin CallNodes /\ Top.owner \in Nat /\ t # 0 /\ NextKey \in Nat
      /\ (EsSymbol(t) => EsVariable(t)) => KeyIs(result, X, Inner(t), Top.owner)
  BY EsTop DEF Field
<1>2. ~EsVariable(t) /\ (EsSymbol(t) <=> HoldsFunction(t))
  BY <1>1, EsSymbols
<1>3. CASE ~HoldsFunction(t)
  <2> DEFINE P == {j \in Nodes : Up(j) = t}
  <2>1. result' = result /\ stack' = PushChildren(t, Top.owner)
    BY <1>3 DEF Field, Goes
  <2>3. PICK Q : /\ Moves({}, P, PushChildren(t, Top.owner), Q)
                 /\ \A x \in Q : /\ x.node \in Nodes /\ Up(x.node) = t
                                 /\ x.owner = Top.owner /\ x.context = NoContext
    BY <1>1, EsPushesChildren
  <2>4. ASSUME NEW x \in Q PROVE EsEntryRight(x, result, X)
    <3>1. /\ x.node \in Nodes /\ Up(x.node) = t /\ x.owner = Top.owner /\ x.context = NoContext
          /\ Up(x.node) # 0 /\ Kind(Up(x.node)) # "const"
      BY <1>1, <2>3
    <3>2. Kind(x.node) # "arrow"
      BY <1>3, <3>1 DEF HoldsFunction, FunctionValues
    <3>3. KeyIs(result, X, Inner(Up(x.node)), x.owner)
      BY <1>1, <1>2, <1>3, <3>1
    <3> QED
      BY <3>1, <3>2, <3>3, EsChildRight
  <2>5. EsAlike(result, result)
    BY <1>1, EsAlikeItself
  <2> HIDE DEF P
  <2>6. EsWalk(PushChildren(t, Top.owner), result, V \cup {Top.node}, D, X, {})
    BY <1>1, <1>2, <1>3, <2>3, <2>4, <2>5, EsPassesOn
  <2> QED
    BY <2>1, <2>6
<1>4. CASE HoldsFunction(t) /\ SymbolsFull
  <2>1. stack' = Popped /\ result' = Truncated
    BY <1>4 DEF Field, Goes
  <2> QED
    BY <1>1, <1>2, <1>4, <2>1, EsDrops
<1>5. CASE HoldsFunction(t) /\ ~SymbolsFull
  <2> DEFINE a == Head(Children(t))
             P == {j \in Nodes : Up(j) = a}
             name == tree[t].name
             kind == "method"
             context == NoContext
  <2>1. /\ stack' = PushChildren(a, NextKey)
        /\ result' = NewSymbol(result, name, kind, t, Top.owner, context)
    BY <1>5 DEF Field, Goes
  <2>2. kind \in EsSymbolKinds /\ name \in EsNames /\ context \in EsContext /\ ~context.exported
    BY EsNamed DEF EsSymbolKinds
  <2>3. /\ a \in Nodes /\ Kind(a) = "arrow" /\ Up(a) = t
        /\ \A j \in Nodes : Up(j) = t <=> j = a
    <3>1. /\ a \in Nodes /\ Up(a) = t /\ \A j \in Nodes : Up(j) = t <=> j = a
      BY <1>1, <1>5, EsWrapped DEF HoldsFunction, Wrapping
    <3> QED
      BY <1>5, <3>1 DEF HoldsFunction, FunctionValues
  <2> HIDE DEF a
  <2>4. ~EsSymbol(a) /\ a \notin CallNodes
    <3>1. PlaceName(a) = ""
      BY <1>1, <2>3 DEF PlaceName
    <3> QED
      BY <2>3, <3>1, EsSymbols DEF CallNodes
  <2>5. Inner(a) = t
    BY <1>1, <1>2, <1>5, <2>3, <2>4, EsScopeOfChild DEF Inner
  <2>6. PICK Q : /\ Moves({a}, P, PushChildren(a, NextKey), Q)
                 /\ \A x \in Q : /\ x.node \in Nodes /\ Up(x.node) = a
                                 /\ x.owner = NextKey /\ x.context = NoContext
    BY <1>1, <2>3, <2>4, EsPushesBelow
  <2>7. ASSUME NEW x \in Q, NEW r, HasKey(r, t, NextKey) PROVE EsEntryRight(x, r, {})
    <3> DEFINE none == {}
    <3>1. /\ x.node \in Nodes /\ Up(x.node) = a /\ x.owner = NextKey /\ x.context = NoContext
          /\ Up(x.node) # 0 /\ Kind(Up(x.node)) # "const"
      BY <2>3, <2>6, EsNodes
    <3>2. Kind(x.node) # "arrow"
      BY <2>3, <3>1 DEF EsTree, Wrapping
    <3>3. KeyIs(r, none, Inner(Up(x.node)), x.owner)
      BY <2>5, <2>7, <3>1 DEF KeyIs
    <3> HIDE DEF none
    <3>4. EsEntryRight(x, r, none)
      BY <3>1, <3>2, <3>3, EsChildRight
    <3> QED
      BY <3>4 DEF none
  <2> DEFINE A == {a}
  <2>8. Moves(A, P, PushChildren(a, NextKey), Q)
    BY <2>6
  <2>9. \A x \in Q : \A r : HasKey(r, Top.node, NextKey) => EsEntryRight(x, r, {})
    BY <2>7
  <2> HIDE DEF A, P, name, kind, context
  <2>10. EsWalk(PushChildren(a, NextKey),
                NewSymbol(result, name, kind, Top.node, Top.owner, context),
                V \cup {Top.node} \cup A, {}, {}, {})
    BY <1>1, <1>2, <1>5, <2>2, <2>8, <2>9, EsRecords
  <2> QED
    BY <2>1, <2>10
<1> QED
  BY <1>3, <1>4, <1>5

-----------------------------------------------------------------------------
(* ECMAScript: the exports.                                                *)

(* The value of an export takes the place of the export.                   *)
LEMMA EsVisitValueOf ==
  ASSUME EsTree, NEW V, NEW D, NEW X, EsWalk(stack, result, V, D, X, {}), stack # << >>,
         Kind(Top.node) \in {"default", "assign"},
         NEW a \in Nodes, \A j \in Nodes : Up(j) = Top.node <=> j = a,
         NEW res, EsAlike(result, res), NEW context \in EsContext,
         Kind(a) = "arrow" => IF context.name = "" THEN ~EsSymbol(a) ELSE EsSymbol(a) \/ X # {},
         context.exported =>
           Kind(a) \in {"arrow", "class"} /\ Listed(res, a, NameGiven(a, context))
  PROVE  EsWalk(PushValue(a, Top.owner, context), res, V \cup {Top.node}, D, X, {})
<1> DEFINE t == Top.node
           x == [node |-> a, owner |-> Top.owner, context |-> context]
           P == {a}
           Q == {x}
<1>1. /\ EsStacked(stack, V, D, {}) /\ t \in Nodes /\ t # 0 /\ t \notin CallNodes /\ Top.owner \in Nat
      /\ (EsSymbol(t) => EsVariable(t)) => KeyIs(result, X, Inner(t), Top.owner)
  BY EsTop
<1>2. EsSymbol(t) => EsVariable(t)
  BY <1>1, EsSymbols
<1>3. Moves({}, P, PushValue(a, Top.owner, context), Q)
  BY <1>1, EsPushesValue
<1>4. ~EsVariable(a) /\ ~IsWrapper(a) /\ Up(a) = t
  BY DEF EsVariable, IsVariable, IsWrapper
<1>5. EsCallScope(a) = Inner(t)
  <2>1. EsCallScope(a) = EsScope[a]
    BY <1>4, EsSymbols
  <2>2. EsScope[a] = Inner(t)
    BY <1>1, <1>4, EsScopeOfChild
  <2> QED
    BY <2>1, <2>2
<1>6. KeyIs(res, X, EsCallScope(a), Top.owner)
  <2>1. EsCarries(result, res) /\ KeyIs(result, X, Inner(t), Top.owner)
    BY <1>1, <1>2 DEF EsAlike
  <2>2. KeyIs(res, X, Inner(t), Top.owner)
    BY <2>1, KeysKept
  <2> QED
    BY <1>5, <2>2
<1>7. x.node = a /\ x.owner = Top.owner /\ x.context = context
  OBVIOUS
<1> HIDE DEF x
<1>8. context.exported => WillBeListed(x, res)
  BY <1>7 DEF WillBeListed, Declarations
<1>9. EsEntryRight(x, res, X)
  BY <1>4, <1>6, <1>7, <1>8 DEF EsEntryRight
<1>10. \A y \in Q : EsEntryRight(y, res, X)
  BY <1>9
<1> HIDE DEF P, Q
<1> QED
  BY <1>1, <1>2, <1>3, <1>10, EsPassesOn

(* What an export gives a name.                                            *)
LEMMA EsExportedValue ==
  ASSUME EsTree, TreeIsComplete, NEW t \in Nodes, Kind(t) \in {"default", "assign"}
  PROVE  LET a == Head(Children(t)) IN
           /\ a \in Nodes /\ Up(a) = t /\ \A j \in Nodes : Up(j) = t <=> j = a
           /\ Kind(a) \in Values \ {"memo"} /\ tree[a].name \in EsNames
           /\ Kind(a) = "arrow" =>
                (EsSymbol(a) <=> PlaceName(a) # "" /\ (Kind(t) = "assign" => EsScope[a] = 0))
<1> DEFINE a == Head(Children(t))
<1>1. \E j \in Nodes : Up(j) = t
  <2> DEFINE S == {j \in Nodes : Up(j) = t}
  <2>1. Children(t) = Sorted(S) /\ Children(t) # << >>
    BY DEF Children, TreeIsComplete
  <2>2. Len(tree) \in Nat /\ S \in SUBSET (1..Len(tree))
    BY EsNodes
  <2>3. S # {}
    <3> HIDE DEF S
    <3>1. Sorted(S) \in Seq(S) /\ ToSet(Sorted(S)) = S
      BY <2>2, SortedFacts
    <3> DEFINE list == Sorted(S)
    <3>2. list # << >>
      BY <2>1
    <3> HIDE DEF list
    <3>3. list \in Seq(S) => 1 \in DOMAIN list /\ list[1] \in S
      <4> SUFFICES ASSUME list \in Seq(S) PROVE 1 \in DOMAIN list /\ list[1] \in S
        OBVIOUS
      <4>1. Len(list) \in Nat /\ Len(list) # 0 /\ DOMAIN list = 1..Len(list)
        BY <3>2, LenProperties, EmptySeq
      <4>2. 1 \in DOMAIN list
        BY <4>1
      <4> QED
        BY <4>1, <4>2, LenProperties, ElementOfSeq
    <3> QED
      BY <3>1, <3>3 DEF list
  <2> QED
    BY <2>3
<1>2. a \in Nodes /\ Up(a) = t /\ \A j \in Nodes : Up(j) = t <=> j = a
  BY <1>1, EsWrapped DEF Wrapping
<1> HIDE DEF a
<1>3. Kind(a) \in Values \ {"memo"} /\ tree[a].name \in EsNames
  BY <1>2, EsNodes DEF EsTree
<1>4. Kind(a) = "arrow" =>
        (EsSymbol(a) <=> PlaceName(a) # "" /\ (Kind(t) = "assign" => EsScope[a] = 0))
  BY <1>2, EsSymbols
<1> QED
  BY <1>2, <1>3, <1>4 DEF a

(* An export default is visited.                                           *)
LEMMA EsVisitDefault ==
  ASSUME EsTree, TreeIsComplete,
         NEW V, NEW D, NEW X, EsWalk(stack, result, V, D, X, {}), stack # << >>,
         ExportDefault(Top.node, Top.owner)
  PROVE  \E W : EsWalk(stack', result', W, D, X, {})
<1> DEFINE t == Top.node
           a == Head(Children(t))
           local == OwnName(a, "")
           default == "default"
           empty == ""
<1>1. /\ EsStacked(stack, V, D, {}) /\ result \in EsResult /\ t \in Nodes /\ t # 0
      /\ Kind(t) = "default" /\ t \notin CallNodes
  BY EsTop DEF ExportDefault
<1>2. /\ a \in Nodes /\ Up(a) = t /\ \A j \in Nodes : Up(j) = t <=> j = a
      /\ Kind(a) \in Values \ {"memo"} /\ tree[a].name \in EsNames
      /\ Kind(a) = "arrow" => (EsSymbol(a) <=> PlaceName(a) # "")
  BY <1>1, EsExportedValue
<1>3. PlaceName(a) = local /\ local # "" /\ local \in EsNames
  BY <1>1, <1>2 DEF PlaceName, OwnName, EsNames
<1>4. default \in EsNames /\ empty \in EsNames /\ default \in EsExportKinds
  BY DEF EsNames, EsExportKinds
<1>5. CASE Kind(a) = "ident"
  <2> DEFINE A == {a}
             none == {}
  <2>1. /\ stack' = Popped
        /\ result' = Exports(result, default, tree[a].name, default)
    BY <1>5 DEF ExportDefault, Goes, FunctionValues, ClassNodes
  <2>2. EsAlike(result, result')
    <3> HIDE DEF default
    <3> QED
      BY <1>1, <1>2, <1>4, <2>1, EsExports
  <2>3. ~EsSymbol(a) /\ a \notin CallNodes /\ \A j \in Nodes : Up(j) # a
    <3>1. ~EsVariable(a)
      BY <1>2, <1>5, EsSymbols
    <3> QED
      BY <1>2, <1>5, <3>1, EsSymbols DEF CallNodes, EsTree, EsParents, Scoping, Wrapping
  <2>4. Moves(A, none, Popped, none)
    <3> HIDE DEF a
    <3> QED
      BY <1>1, <1>2, <2>3, EsPassesOver
  <2>5. \A x \in none : EsEntryRight(x, result', X)
    OBVIOUS
  <2>6. EsSymbol(t) => EsVariable(t)
    BY <1>1, EsSymbols
  <2> HIDE DEF A, none
  <2>7. EsWalk(Popped, result', V \cup {Top.node} \cup A, D, X, {})
    BY <1>1, <2>2, <2>4, <2>5, <2>6, EsPasses
  <2> QED
    BY <2>1, <2>7
<1>6. CASE Kind(a) \in {"arrow", "class"}
  <2> DEFINE context == [NoContext EXCEPT !.exported = TRUE, !.default = TRUE, !.name = local]
  <2>1. /\ stack' = PushValue(a, Top.owner, context)
        /\ result' = Exports(result, default, local, default)
    BY <1>6 DEF ExportDefault, Goes, FunctionValues, ClassNodes
  <2>2. EsAlike(result, result') /\ Locals(result') = Locals(result) \cup {local}
    <3>1. /\ result \in EsResult /\ default \in EsNames /\ default \in EsExportKinds
          /\ local \in EsNames /\ result' = Exports(result, default, local, default)
      BY <1>1, <1>3, <1>4, <2>1
    <3> HIDE DEF default, local, a, context
    <3> QED
      BY <3>1, EsExports
  <2>3. context \in EsContext /\ context.name = local
    BY <1>3 DEF NoContext, EsContext
  <2>4. Listed(result', a, NameGiven(a, context))
    <3>1. NameGiven(a, context) = local
      BY <1>3, <1>6, <2>3 DEF NameGiven, OwnName
    <3> QED
      BY <2>2, <3>1 DEF Listed
  <2>5. Kind(a) = "arrow" => context.name # "" /\ EsSymbol(a)
    BY <1>2, <1>3, <2>3
  <2> HIDE DEF context, a
  <2>6. EsWalk(PushValue(a, Top.owner, context), result', V \cup {Top.node}, D, X, {})
    BY <1>1, <1>2, <1>6, <2>2, <2>3, <2>4, <2>5, EsVisitValueOf
  <2> QED
    BY <2>1, <2>6
<1>7. CASE Kind(a) \notin {"arrow", "class", "ident"}
  <2> DEFINE context == NoContext
  <2>1. /\ stack' = PushValue(a, Top.owner, context)
        /\ result' = Exports(result, default, empty, default)
    BY <1>7 DEF ExportDefault, Goes, FunctionValues, ClassNodes
  <2>2. EsAlike(result, result')
    <3> HIDE DEF default, empty
    <3> QED
      BY <1>1, <1>4, <2>1, EsExports
  <2>3. context \in EsContext /\ ~context.exported
    BY EsNamed
  <2> HIDE DEF context, a
  <2>4. EsWalk(PushValue(a, Top.owner, context), result', V \cup {Top.node}, D, X, {})
    BY <1>1, <1>2, <1>7, <2>2, <2>3, EsVisitValueOf
  <2> QED
    BY <2>1, <2>4
<1> QED
  BY <1>5, <1>6, <1>7

(* An assignment to the CommonJS exports is visited.                       *)
LEMMA EsVisitCommonjs ==
  ASSUME EsTree, TreeIsComplete,
         NEW V, NEW D, NEW X, EsWalk(stack, result, V, D, X, {}), stack # << >>,
         CommonjsExport(Top.node, Top.owner)
  PROVE  EsWalk(stack', result', V \cup {Top.node}, D, X, {})
<1> DEFINE t == Top.node
           o == Top.owner
           a == Head(Children(t))
           name == tree[t].name
           whole == "module.exports"
           default == "default"
           empty == ""
           commonjs == "commonjs"
<1>1. /\ EsStacked(stack, V, D, {}) /\ result \in EsResult /\ t \in Nodes /\ t # 0 /\ o \in Nat
      /\ Kind(t) = "assign" /\ t \notin CallNodes
      /\ (EsSymbol(t) => EsVariable(t)) => KeyIs(result, X, Inner(t), o)
  BY EsTop DEF CommonjsExport
<1>2. /\ a \in Nodes /\ Up(a) = t /\ \A j \in Nodes : Up(j) = t <=> j = a
      /\ Kind(a) \in Values \ {"memo"} /\ tree[a].name \in EsNames
      /\ Kind(a) = "arrow" => (EsSymbol(a) <=> PlaceName(a) # "" /\ EsScope[a] = 0)
  BY <1>1, EsExportedValue
<1>3. PlaceName(a) = (IF name # whole THEN name ELSE "") /\ name # "" /\ name \in EsNames
  BY <1>1, <1>2, EsNodes DEF PlaceName, EsTree
<1>4. ~EsSymbol(t) /\ KeyIs(result, X, EsScope[t], o) /\ EsScope[a] = EsScope[t]
  <2>1. ~EsSymbol(t)
    BY <1>1, EsSymbols
  <2>2. EsScope[a] = Inner(t)
    BY <1>1, <1>2, EsScopeOfChild
  <2> QED
    BY <1>1, <2>1, <2>2 DEF Inner
<1>5. default \in EsNames /\ empty \in EsNames /\ commonjs \in EsExportKinds
  BY DEF EsNames, EsExportKinds
<1>6. CASE o # 0
  <2> DEFINE P == {j \in Nodes : Up(j) = t}
  <2>1. result' = result /\ stack' = PushChildren(t, o)
    BY <1>6 DEF CommonjsExport, Goes
  <2>2. EsScope[t] # 0
    <3>1. \A k \in DOMAIN result.symbols : result.symbols[k].node \in Nodes
      BY DEF EsWalk, EsRecorded
    <3>2. 0 \notin Nodes
      BY EsNodes
    <3>3. o \in DOMAIN result.symbols /\ result.symbols[o].node = EsScope[t]
      BY <1>4, <1>6 DEF KeyIs, HasKey
    <3> QED
      BY <3>1, <3>2, <3>3
  <2>3. PICK Q : /\ Moves({}, P, PushChildren(t, o), Q)
                 /\ \A x \in Q : /\ x.node \in Nodes /\ Up(x.node) = t
                                 /\ x.owner = o /\ x.context = NoContext
    BY <1>1, EsPushesChildren
  <2>4. ASSUME NEW x \in Q PROVE EsEntryRight(x, result, X)
    <3>1. /\ x.node \in Nodes /\ Up(x.node) = t /\ x.owner = o /\ x.context = NoContext
          /\ Up(x.node) # 0 /\ Kind(Up(x.node)) # "const" /\ x.node = a
      BY <1>1, <1>2, <2>3
    <3>2. Kind(x.node) = "arrow" => ~EsSymbol(x.node)
      BY <1>2, <1>4, <2>2, <3>1
    <3>3. KeyIs(result, X, Inner(Up(x.node)), x.owner)
      BY <1>4, <3>1 DEF Inner
    <3> QED
      BY <3>1, <3>2, <3>3, EsChildRight
  <2>5. EsAlike(result, result)
    BY <1>1, EsAlikeItself
  <2> HIDE DEF P
  <2>6. EsWalk(PushChildren(t, o), result, V \cup {Top.node}, D, X, {})
    BY <1>1, <1>4, <2>3, <2>4, <2>5, EsPassesOn
  <2> QED
    BY <2>1, <2>6
<1>7. ASSUME stack' = PushValue(a, o, NoContext), EsAlike(result, result'),
             Kind(a) = "arrow" => ~EsSymbol(a)
      PROVE  EsWalk(stack', result', V \cup {Top.node}, D, X, {})
  <2> DEFINE context == NoContext
  <2>1. context \in EsContext /\ ~context.exported
    BY EsNamed
  <2>2. Kind(a) = "arrow" => IF context.name = "" THEN ~EsSymbol(a) ELSE EsSymbol(a) \/ X # {}
    BY <1>7 DEF NoContext
  <2>3. stack' = PushValue(a, o, context)
    BY <1>7
  <2> HIDE DEF context, a
  <2>4. EsWalk(PushValue(a, Top.owner, context), result', V \cup {Top.node}, D, X, {})
    BY <1>1, <1>2, <1>7, <2>1, <2>2, EsVisitValueOf
  <2> QED
    BY <2>3, <2>4
<1>8. ASSUME NEW export \in EsNames, NEW local \in EsNames,
             result' = Exports(result, export, local, commonjs)
      PROVE  EsAlike(result, result') /\ Locals(result') = Locals(result) \cup {local}
  <2>1. commonjs \in EsExportKinds /\ result \in EsResult
    BY <1>1, <1>5
  <2> HIDE DEF commonjs, a
  <2> QED
    BY <1>8, <2>1, EsExports
<1>9. CASE o = 0 /\ name = whole
  <2>1. stack' = PushValue(a, o, NoContext)
    BY <1>9 DEF CommonjsExport, Goes
  <2>2. Kind(a) = "arrow" => ~EsSymbol(a)
    BY <1>2, <1>3, <1>9
  <2>3. \/ result' = Exports(result, default, tree[a].name, commonjs)
        \/ result' = Exports(result, tree[a].name, tree[a].name, commonjs)
        \/ result' = result
    BY <1>9 DEF CommonjsExport, Goes
  <2>4. EsAlike(result, result')
    <3> HIDE DEF commonjs, default, a
    <3> QED
      BY <1>1, <1>2, <1>5, <1>8, <2>3, EsAlikeItself
  <2> QED
    BY <1>7, <2>1, <2>2, <2>4
<1>10. CASE o = 0 /\ name # whole /\ Kind(a) \notin {"arrow", "class"}
  <2>1. stack' = PushValue(a, o, NoContext)
    BY <1>10 DEF CommonjsExport, Goes, FunctionValues, ClassNodes
  <2>2. \/ result' = Exports(result, name, tree[a].name, commonjs)
        \/ result' = Exports(result, name, empty, commonjs)
    BY <1>10 DEF CommonjsExport, Goes, FunctionValues, ClassNodes
  <2>3. EsAlike(result, result')
    <3> HIDE DEF commonjs, empty, name, a
    <3> QED
      BY <1>2, <1>3, <1>5, <1>8, <2>2
  <2> QED
    BY <1>7, <1>10, <2>1, <2>3
<1>11. CASE o = 0 /\ name # whole /\ Kind(a) \in {"arrow", "class"}
  <2> DEFINE context == [NoContext EXCEPT !.exported = TRUE, !.name = name]
  <2>1. stack' = PushValue(a, o, context) /\ result' = Exports(result, name, name, commonjs)
    BY <1>11 DEF CommonjsExport, Goes, FunctionValues, ClassNodes
  <2>2. EsAlike(result, result') /\ Locals(result') = Locals(result) \cup {name}
    <3> HIDE DEF commonjs, name, context
    <3> QED
      BY <1>3, <1>8, <2>1
  <2>3. context \in EsContext /\ context.name = name
    BY <1>3 DEF NoContext, EsContext
  <2>4. Listed(result', a, NameGiven(a, context))
    <3>1. NameGiven(a, context) = IF Kind(a) = "arrow" THEN name ELSE OwnName(a, name)
      BY <1>11, <2>3 DEF NameGiven
    <3>2. NameGiven(a, context) = name \/ (Kind(a) = "class" /\ PlaceName(a) = name)
      BY <1>3, <1>11, <3>1
    <3> QED
      BY <1>3, <2>2, <3>2 DEF Listed
  <2>5. Kind(a) = "arrow" => context.name # "" /\ (EsSymbol(a) \/ X # {})
    <3>1. EsScope[t] = 0 \/ X # {}
      BY <1>4, <1>11 DEF KeyIs, HasKey
    <3> QED
      BY <1>2, <1>3, <1>4, <1>11, <2>3, <3>1
  <2> HIDE DEF context, a
  <2>6. EsWalk(PushValue(a, Top.owner, context), result', V \cup {Top.node}, D, X, {})
    BY <1>1, <1>2, <1>11, <2>2, <2>3, <2>4, <2>5, EsVisitValueOf
  <2> QED
    BY <2>1, <2>6
<1> QED
  BY <1>6, <1>9, <1>10, <1>11

(* A chain of results, each made from the one before.                      *)
Chains(f, N, V, base, G) ==
  f \in [0..N -> V] /\ f[0] = base /\ \A n \in 1..N : f[n] = G[<<n, f[n - 1]>>]

(* There is a function in which each value is made from the one before.    *)
LEMMA FromBefore ==
  ASSUME NEW N \in Nat, NEW V, NEW base \in V, NEW G, G \in [(1..N) \X V -> V]
  PROVE  \E f : Chains(f, N, V, base, G)
<1> DEFINE up == [n \in 1..N |-> n - 1]
<1>1. up \in [1..N -> Nat] /\ \A n \in 1..N : up[n] < n /\ up[n] = n - 1
  OBVIOUS
<1> HIDE DEF up
<1>2. Climbs(N, V, base, up, G)
  BY <1>1 DEF Climbs
<1>3. PICK f : Follows(f, N, V, base, up, G)
  BY <1>2, FromAbove
<1> QED
  BY <1>1, <1>3 DEF Follows, Chains

(* An export is put on the list unless it is there.                        *)
LEMMA EsExportsOnce ==
  ASSUME NEW r \in EsResult, NEW name \in EsNames, NEW local \in EsNames,
         NEW kind \in EsExportKinds, NEW res, res = ExportsOnce(r, name, local, kind)
  PROVE  EsAlike(r, res) /\ local \in Locals(res)
<1> DEFINE new == [name |-> name, local |-> local, kind |-> kind]
<1>1. CASE \E e \in ToSet(r.exports) : e = new
  <2>1. res = r
    BY <1>1 DEF ExportsOnce
  <2>2. new \in ToSet(r.exports) /\ new.local = local
    BY <1>1
  <2> HIDE DEF new
  <2>3. local \in Locals(res)
    BY <2>1, <2>2 DEF Locals
  <2> QED
    BY <2>1, <2>3, EsAlikeItself
<1>2. CASE ~\E e \in ToSet(r.exports) : e = new
  <2>1. res = Exports(r, name, local, kind)
    BY <1>2 DEF ExportsOnce
  <2>2. EsAlike(r, res) /\ Locals(res) = Locals(r) \cup {local}
    BY <2>1, EsExports
  <2> QED
    BY <2>2
<1> QED
  BY <1>1, <1>2

(* The names that an exported declaration declares.                        *)
LEMMA EsDeclares ==
  ASSUME EsTree, NEW t \in Nodes
  PROVE  /\ DeclaredNames(t) \in Seq(EsNames)
         /\ Kind(t) # "const" => OwnName(t, "") \in ToSet(DeclaredNames(t))
         /\ Kind(t) = "const" =>
              \A j \in Nodes : Up(j) = t /\ tree[j].bind # "" => tree[j].bind \in ToSet(DeclaredNames(t))
<1>1. CASE Kind(t) # "const"
  <2> DEFINE name == OwnName(t, "")
  <2>1. name \in EsNames
    BY EsNodes DEF OwnName, EsNames
  <2>2. DeclaredNames(t) = <<name>>
    BY <1>1 DEF DeclaredNames
  <2> HIDE DEF name
  <2>3. <<name>> \in Seq(EsNames) /\ DOMAIN <<name>> = {1} /\ <<name>>[1] = name
    BY <2>1
  <2>4. name \in ToSet(<<name>>)
    BY <2>3 DEF ToSet
  <2> QED
    BY <1>1, <2>2, <2>3, <2>4 DEF name
<1>2. CASE Kind(t) = "const"
  <2> DEFINE S == {j \in Nodes : Up(j) = t /\ tree[j].bind # ""}
             bound == Sorted(S)
             names == [n \in DOMAIN bound |-> tree[bound[n]].bind]
  <2>1. DeclaredNames(t) = names
    BY <1>2 DEF DeclaredNames
  <2>2. bound \in Seq(S) /\ ToSet(bound) = S
    <3>1. Len(tree) \in Nat /\ S \in SUBSET (1..Len(tree))
      BY EsNodes
    <3> HIDE DEF S
    <3> QED
      BY <3>1, SortedFacts
  <2>3. \A j \in S : tree[j].bind \in EsNames
    BY EsNodes
  <2> HIDE DEF bound
  <2>4. PICK n \in Nat : DOMAIN bound = 1..n /\ \A m \in 1..n : bound[m] \in S
    <3> HIDE DEF S
    <3> QED
      BY <2>2, LenProperties
  <2>5. names \in Seq(EsNames) /\ \A m \in DOMAIN bound : m \in DOMAIN names /\ names[m] = tree[bound[m]].bind
    <3>1. \A m \in 1..n : tree[bound[m]].bind \in EsNames
      BY <2>3, <2>4
    <3>2. names = [m \in 1..n |-> tree[bound[m]].bind]
      BY <2>4
    <3> HIDE DEF S
    <3> QED
      BY <2>4, <3>1, <3>2
  <2> HIDE DEF names
  <2>6. ASSUME NEW j \in S PROVE tree[j].bind \in ToSet(names)
    <3>1. PICK m \in DOMAIN bound : bound[m] = j
      BY <2>2 DEF ToSet
    <3> QED
      BY <2>5, <3>1 DEF ToSet
  <2> QED
    BY <1>2, <2>1, <2>5, <2>6
<1> QED
  BY <1>1, <1>2

(* The exports of a declaration are put on the list.                       *)
LEMMA EsRecordsExports ==
  ASSUME EsTree, result \in EsResult, NEW t \in Nodes,
         NEW res, res = RecordDeclarationExports(t)
  PROVE  EsAlike(result, res) /\ ToSet(DeclaredNames(t)) \subseteq Locals(res)
<1> DEFINE kind == IF tree[t].export = "default" THEN "default" ELSE "named"
           names == DeclaredNames(t)
           N == Len(names)
           Once(n, r) == ExportsOnce(r, IF kind = "default" THEN "default" ELSE names[n],
                                     names[n], kind)
           G == [p \in (1..N) \X EsResult |-> Once(p[1], p[2])]
           Is(e) == e = [n \in 0..Len(names) |->
                           IF n = 0 THEN result
                           ELSE ExportsOnce(e[n - 1], IF kind = "default" THEN "default" ELSE names[n],
                                            names[n], kind)]
           recorded == CHOOSE e : Is(e)
<1>1. res = recorded[Len(names)]
  BY DEF RecordDeclarationExports
<1>2. names \in Seq(EsNames) /\ N \in Nat /\ DOMAIN names = 1..N /\ \A n \in 1..N : names[n] \in EsNames
  <2>1. names \in Seq(EsNames)
    BY EsDeclares
  <2> HIDE DEF names
  <2> QED
    BY <2>1, LenProperties, ElementOfSeq
<1>3. ASSUME NEW n \in 1..N, NEW r \in EsResult
      PROVE  EsAlike(r, Once(n, r)) /\ names[n] \in Locals(Once(n, r))
  <2> DEFINE name == IF kind = "default" THEN "default" ELSE names[n]
             local == names[n]
             once == Once(n, r)
  <2>1. name \in EsNames /\ local \in EsNames /\ kind \in EsExportKinds
    BY <1>2 DEF EsNames, EsExportKinds
  <2>2. once = ExportsOnce(r, name, local, kind)
    OBVIOUS
  <2> HIDE DEF name, local, kind, once
  <2>3. EsAlike(r, once) /\ local \in Locals(once)
    BY <2>1, <2>2, EsExportsOnce
  <2> QED
    BY <2>3 DEF local, once
<1>4. G \in [(1..N) \X EsResult -> EsResult] /\ \A n \in 1..N, r \in EsResult : G[<<n, r>>] = Once(n, r)
  <2>1. \A n \in 1..N, r \in EsResult : Once(n, r) \in EsResult
    BY <1>3 DEF EsAlike
  <2> HIDE DEF Once, N
  <2> QED
    BY <2>1
<1>5. PICK g \in [0..N -> EsResult] : g[0] = result /\ \A n \in 1..N : g[n] = G[<<n, g[n - 1]>>]
  <2>1. N \in Nat /\ result \in EsResult /\ G \in [(1..N) \X EsResult -> EsResult]
    BY <1>2, <1>4
  <2> HIDE DEF G, N, names, Once, Is, recorded, kind
  <2>2. \E g : Chains(g, N, EsResult, result, G)
    BY <2>1, FromBefore
  <2> QED
    BY <2>2 DEF Chains
<1> HIDE DEF G
<1>6. Is(g)
  <2> DEFINE E(n) == IF n = 0 THEN result ELSE Once(n, g[n - 1])
  <2>1. ASSUME NEW n \in 0..N PROVE g[n] = E(n)
    <3>1. CASE n = 0
      BY <1>5, <3>1
    <3>2. CASE n # 0
      <4>1. n \in 1..N /\ n - 1 \in 0..N
        BY <1>2, <3>2
      <4>2. g[n] = G[<<n, g[n - 1]>>] /\ g[n - 1] \in EsResult
        BY <1>5, <4>1
      <4>3. g[n] = Once(n, g[n - 1])
        <5> HIDE DEF Once
        <5> QED
          BY <1>4, <4>1, <4>2
      <4> QED
        BY <3>2, <4>3
    <3> QED
      BY <3>1, <3>2
  <2>2. g = [n \in 0..N |-> E(n)]
    <3> HIDE DEF E
    <3> QED
      BY <1>5, <2>1
  <2> QED
    BY <2>2
<1>7. Is(recorded)
  <2> HIDE DEF Is
  <2> QED
    BY <1>6
<1> HIDE DEF recorded
<1>8. recorded[0] = result /\ \A n \in 1..N : recorded[n] = Once(n, recorded[n - 1])
  <2> DEFINE E(n) == IF n = 0 THEN result ELSE Once(n, recorded[n - 1])
  <2>1. recorded = [n \in 0..N |-> E(n)]
    BY <1>7
  <2>2. \A n \in 0..N : recorded[n] = E(n)
    <3> HIDE DEF E
    <3> QED
      BY <2>1
  <2>3. 0 \in 0..N /\ \A n \in 1..N : n \in 0..N /\ n # 0
    BY <1>2
  <2> QED
    BY <2>2, <2>3
<1> HIDE DEF Is
<1> DEFINE Good(n) == /\ EsAlike(result, recorded[n])
                      /\ \A m \in 1..n : names[m] \in Locals(recorded[n])
           T == {n \in 0..N : Good(n)}
<1>9. 0 \in T
  <2>1. EsAlike(result, result)
    BY EsAlikeItself
  <2> QED
    BY <1>2, <1>8, <2>1
<1>10. ASSUME NEW n \in 0..(N - 1), n \in T PROVE n + 1 \in T
  <2> DEFINE r == recorded[n]
             q == recorded[n + 1]
  <2>1. /\ n + 1 \in 1..N /\ n + 1 \in 0..N /\ (n + 1) - 1 = n
        /\ \A m \in 1..(n + 1) : m \in 1..n \/ m = n + 1
    BY <1>2
  <2>2. EsAlike(result, r) /\ \A m \in 1..n : names[m] \in Locals(r)
    BY <1>10
  <2>3. q = Once(n + 1, r)
    <3> HIDE DEF Once
    <3> QED
      BY <1>8, <2>1
  <2>4. EsAlike(r, q) /\ names[n + 1] \in Locals(q)
    <3>1. r \in EsResult
      BY <2>2 DEF EsAlike
    <3> HIDE DEF Once, r, q, names, N
    <3> QED
      BY <1>3, <2>1, <2>3, <3>1
  <2>5. EsAlike(result, q)
    <3> HIDE DEF r, q
    <3> QED
      BY <2>2, <2>4, EsAlikeStill
  <2>6. Locals(r) \subseteq Locals(q)
    BY <2>4 DEF EsAlike, EsCarries
  <2> HIDE DEF r, names
  <2> QED
    BY <2>1, <2>2, <2>4, <2>5, <2>6
<1>11. \A n \in 0..N : n \in T
  <2> HIDE DEF T, N
  <2> QED
    BY <1>2, <1>9, <1>10, Climb
<1>12. Good(N)
  <2>1. N \in 0..N
    BY <1>2
  <2> HIDE DEF Good, N
  <2> QED
    BY <1>11, <2>1
<1> HIDE DEF names
<1> QED
  BY <1>1, <1>2, <1>12 DEF ToSet, names

(* An exported declaration goes back on the stack, with its names on the   *)
(* list.                                                                   *)
LEMMA EsVisitExport ==
  ASSUME EsTree, NEW V, NEW D, NEW X, EsWalk(stack, result, V, D, X, {}), stack # << >>,
         ExportDeclaration(Top.node, Top.owner, Top.context)
  PROVE  EsWalk(stack', result', V, D, X, {})
<1> DEFINE t == Top.node
           context == [NoContext EXCEPT !.exported = TRUE, !.default = tree[t].export = "default"]
           x == [node |-> t, owner |-> Top.owner, context |-> context]
           next == Popped \o <<x>>
<1>1. /\ EsStacked(stack, V, D, {}) /\ KeptOut(stack, V, X) /\ result \in EsResult
      /\ EsOwned(stack, result, X) /\ EsRecorded(stack, result, V, D, X) /\ EsCalled(result, V, X)
      /\ DroppedAtTheLimit(result, D \cup X)
  BY DEF EsWalk
<1>2. /\ t \in Nodes /\ t \in NodesOf(stack) /\ Top.owner \in Nat /\ t \in Nat
      /\ IsStack(Popped, EsEntry) /\ NodesOf(Popped) = NodesOf(stack) \ {t}
      /\ ToSet(Popped) = ToSet(stack) \ {Top} /\ EsEntryRight(Top, result, X)
  BY <1>1, EsFresh, EsTop, EsNodes
<1>3. /\ tree[t].export # "no" /\ stack' = next /\ result' = RecordDeclarationExports(t)
      /\ Kind(t) \in Declarations
  BY <1>2 DEF ExportDeclaration, Goes, PushValue, EsTree
<1>4. /\ context \in EsContext /\ context.exported /\ context.name = ""
  <2>1. (tree[t].export = "default") \in BOOLEAN
    OBVIOUS
  <2> QED
    BY <2>1 DEF NoContext, EsContext, EsNames
<1>5. x \in EsEntry /\ x.node = t /\ x.owner = Top.owner /\ x.context = context
  BY <1>2, <1>4 DEF EsEntry
<1> HIDE DEF x, context
<1>6. IsStack(next, EsEntry) /\ ToSet(next) = ToSet(Popped) \cup {x} /\ NodesOf(next) = NodesOf(stack)
  <2>1. x.node \notin NodesOf(Popped)
    BY <1>2, <1>5
  <2>2. /\ IsStack(next, EsEntry) /\ ToSet(next) = ToSet(Popped) \cup {x}
        /\ NodesOf(next) = NodesOf(Popped) \cup {x.node}
    BY <1>2, <1>5, <2>1, PushedOne
  <2> QED
    BY <1>2, <1>5, <2>2
<1> HIDE DEF next
<1>7. EsAlike(result, result') /\ ToSet(DeclaredNames(t)) \subseteq Locals(result')
  <2> HIDE DEF t
  <2> QED
    BY <1>1, <1>2, <1>3, EsRecordsExports
<1>8. /\ result' \in EsResult /\ result'.symbols = result.symbols /\ result'.calls = result.calls
      /\ result'.truncated = result.truncated /\ EsCarries(result, result')
  BY <1>7 DEF EsAlike
<1>9. EsEntryRight(x, result', X)
  <2>1. KeyIs(result, X, EsCallScope(t), Top.owner) /\ ~IsWrapper(t) /\ Kind(t) # "arrow"
    BY <1>2, <1>3 DEF EsEntryRight, Declarations
  <2>2. KeyIs(result', X, EsCallScope(t), Top.owner)
    BY <1>8, <2>1, KeysKept
  <2>3. CASE Kind(t) # "const"
    <3>1. OwnName(t, "") \in Locals(result')
      BY <1>2, <1>7, <2>3, EsDeclares
    <3>2. NameGiven(t, context) = OwnName(t, "")
      <4>1. Kind(t) = "type" => tree[t].name # ""
        BY <1>2 DEF EsTree
      <4> QED
        BY <1>4, <2>1, <4>1 DEF NameGiven, OwnName
    <3>3. Listed(result', t, NameGiven(t, context))
      BY <3>1, <3>2 DEF Listed
    <3> QED
      BY <1>3, <1>5, <2>1, <2>2, <2>3, <3>3 DEF EsEntryRight, WillBeListed
  <2>4. CASE Kind(t) = "const"
    <3>1. \A j \in Nodes : Up(j) = t /\ tree[j].bind # "" => tree[j].bind \in Locals(result')
      BY <1>2, <1>7, <2>4, EsDeclares
    <3> QED
      BY <1>3, <1>5, <2>1, <2>2, <2>4, <3>1 DEF EsEntryRight, WillBeListed
  <2> QED
    BY <2>3, <2>4
<1>10. EsStacked(next, V, D, {})
  BY <1>1, <1>6 DEF EsStacked
<1>11. KeptOut(next, V, X)
  BY <1>1, <1>6 DEF KeptOut
<1>12. EsOwned(next, result', X)
  <2> DEFINE Q == {x}
  <2>1. ToSet(next) \subseteq ToSet(stack) \cup Q /\ \A y \in Q : EsEntryRight(y, result', X)
    BY <1>2, <1>6, <1>9
  <2> HIDE DEF Q
  <2> QED
    BY <1>1, <1>8, <2>1, EsOwnedNext
<1>13. EsRecorded(next, result', V, D, X)
  <2>1. \A i \in Nodes : EsSymbol(i) => (Taken1(i, next, V, D, X) <=> Taken1(i, stack, V, D, X))
    BY <1>6 DEF Taken1
  <2> QED
    BY <1>1, <1>8, <2>1, EsSameSymbols
<1>14. EsCalled(result', V, X)
  BY <1>1, <1>8, EsSameCalls
<1>15. DroppedAtTheLimit(result', D \cup X)
  BY <1>1, <1>8 DEF DroppedAtTheLimit
<1> QED
  BY <1>3, <1>8, <1>10, <1>11, <1>12, <1>13, <1>14, <1>15 DEF EsWalk

-----------------------------------------------------------------------------
(* ECMAScript: declarators.                                                *)

EsTaken == [res : EsResult, pushed : Seq(EsEntry)]

\* A declarator that is an exported value, neither a function nor a class.
TakenAsVariable(d, o, context) ==
  /\ tree[d].bind # "" /\ context.exported /\ o = 0
  /\ Kind(d) \notin {"arrow", "class"} /\ ~IsWrapper(d)

\* What a declarator adds to the result r, and the entry that is pushed.
EsTaking(r, d, o, context, x, res) ==
  /\ x \in EsEntry
  /\ \/ /\ res = r /\ x.owner = o /\ tree[d].bind # "" /\ x.context.name = tree[d].bind
        /\ x.context.exported <=> context.exported
        /\ \/ x.node = d /\ Kind(d) \in {"arrow", "class"}
           \/ IsWrapper(d) /\ x.node = Head(Children(d))
     \/ /\ TakenAsVariable(d, o, context) /\ Len(r.symbols) < MaxSymbols
        /\ res = NewSymbol(r, tree[d].bind, "variable", d, o, context)
        /\ x.node = d /\ x.owner = Len(r.symbols) + 1 /\ x.context = NoContext
     \/ /\ TakenAsVariable(d, o, context) /\ Len(r.symbols) >= MaxSymbols
        /\ res = [r EXCEPT !.truncated = TRUE]
        /\ x.node = d /\ x.owner = o /\ x.context = NoContext
     \/ /\ ~TakenAsVariable(d, o, context) /\ ~IsWrapper(d) /\ res = r
        /\ tree[d].bind # "" => Kind(d) \notin {"arrow", "class"}
        /\ x.node = d /\ x.owner = o /\ x.context = NoContext

(* Taking a declarator: what it adds to the result and to the stack.       *)
LEMMA EsTakes ==
  ASSUME EsTree, NEW d \in Nodes, Kind(Up(d)) = "const", NEW o \in Nat, NEW context \in EsContext,
         NEW st \in EsTaken
  PROVE  \E x, res : /\ EsTaking(st.res, d, o, context, x, res)
                     /\ Declarator(st, d, o, context) = [res |-> res, pushed |-> Append(st.pushed, x)]
<1> DEFINE wrapped == Kind(d) = "memo" /\ HoldsFunction(d)
           target == IF wrapped THEN Head(Children(d)) ELSE d
           named == tree[d].bind # ""
           valued == Kind(target) \in FunctionValues \cup ClassNodes
           variable == named /\ ~valued /\ context.exported /\ o = 0
           full == Len(st.res.symbols) >= MaxSymbols
           Push(res, node, k, c) ==
             [res |-> res, pushed |-> Append(st.pushed, [node |-> node, owner |-> k, context |-> c])]
           given == [context EXCEPT !.name = tree[d].bind, !.wrapped = wrapped]
           now == Declarator(st, d, o, context)
<1>1. now = IF named /\ valued THEN Push(st.res, target, o, given)
            ELSE IF variable /\ ~full
            THEN Push(NewSymbol(st.res, tree[d].bind, "variable", d, o, context), d,
                      Len(st.res.symbols) + 1, NoContext)
            ELSE Push(IF variable THEN [st.res EXCEPT !.truncated = TRUE] ELSE st.res, d, o, NoContext)
  BY DEF Declarator
<1>2. /\ tree[d].bind \in EsNames /\ d \in Nat /\ wrapped \in BOOLEAN
      /\ NoContext \in EsContext /\ Len(st.res.symbols) \in Nat
  <2>1. st.res.symbols \in Seq(EsSymbolRecord)
    BY DEF EsTaken, EsResult
  <2> QED
    BY <2>1, EsNodes, LenProperties DEF NoContext, EsContext, EsNames
<1>3. wrapped => target \in Nodes /\ Up(target) = d /\ Kind(target) = "arrow"
  <2>1. ASSUME wrapped PROVE \E j \in Nodes : Up(j) = d
    BY <2>1 DEF HoldsFunction
  <2>2. ASSUME wrapped
        PROVE  target \in Nodes /\ Up(target) = d /\ \A j \in Nodes : Up(j) = d <=> j = target
    BY <2>1, <2>2, EsWrapped DEF Wrapping
  <2>3. ASSUME wrapped PROVE Kind(target) = "arrow"
    <3>1. target \in Nodes /\ Kind(Up(target)) = "memo"
      BY <2>2, <2>3
    <3> HIDE DEF target
    <3> QED
      BY <3>1 DEF EsTree
  <2> QED
    BY <2>2, <2>3
<1>4. named => (wrapped <=> IsWrapper(d))
  BY DEF IsWrapper
<1>5. valued <=> wrapped \/ Kind(d) \in {"arrow", "class"}
  BY <1>3 DEF FunctionValues, ClassNodes
<1>6. MaxSymbols \in Nat
  BY AnalysisAssumption
<1>7. ~named => ~IsWrapper(d)
  BY DEF IsWrapper
<1>8. CASE named /\ valued
  <2> DEFINE x == [node |-> target, owner |-> o, context |-> given]
  <2>1. given \in EsContext /\ given.name = tree[d].bind /\ (given.exported <=> context.exported)
    BY <1>2 DEF EsContext
  <2>2. target \in Nat
    BY <1>2, <1>3, EsNodes
  <2>3. now = [res |-> st.res, pushed |-> Append(st.pushed, x)]
    BY <1>1, <1>8
  <2> HIDE DEF given, now
  <2>4. x \in EsEntry /\ x.node = target /\ x.owner = o /\ x.context = given
    BY <2>1, <2>2 DEF EsEntry
  <2>5. EsTaking(st.res, d, o, context, x, st.res)
    <3> HIDE DEF x
    <3> QED
      BY <1>4, <1>5, <1>8, <2>1, <2>4 DEF EsTaking
  <2> HIDE DEF x
  <2> QED
    BY <2>3, <2>5 DEF now
<1>9. CASE ~(named /\ valued) /\ variable /\ ~full
  <2> DEFINE x == [node |-> d, owner |-> Len(st.res.symbols) + 1, context |-> NoContext]
             res == NewSymbol(st.res, tree[d].bind, "variable", d, o, context)
  <2>1. now = [res |-> res, pushed |-> Append(st.pushed, x)]
    BY <1>1, <1>9
  <2> HIDE DEF now, res
  <2>2. /\ x \in EsEntry /\ x.node = d /\ x.owner = Len(st.res.symbols) + 1
        /\ x.context = NoContext
    BY <1>2 DEF EsEntry
  <2>3. TakenAsVariable(d, o, context) /\ Len(st.res.symbols) < MaxSymbols
    <3>1. TakenAsVariable(d, o, context)
      BY <1>4, <1>5, <1>9 DEF TakenAsVariable
    <3>2. ~(Len(st.res.symbols) >= MaxSymbols)
      BY <1>9
    <3>3. \A n \in Nat : ~(n >= MaxSymbols) => n < MaxSymbols
      BY <1>6
    <3>4. Len(st.res.symbols) < MaxSymbols
      BY <1>2, <3>2, <3>3
    <3> QED
      BY <3>1, <3>4
  <2>4. EsTaking(st.res, d, o, context, x, res)
    <3> HIDE DEF x
    <3> QED
      BY <2>2, <2>3 DEF EsTaking, res
  <2> HIDE DEF x
  <2> QED
    BY <2>1, <2>4 DEF now
<1>10. CASE ~(named /\ valued) /\ variable /\ full
  <2> DEFINE x == [node |-> d, owner |-> o, context |-> NoContext]
             res == [st.res EXCEPT !.truncated = TRUE]
  <2>1. now = [res |-> res, pushed |-> Append(st.pushed, x)]
    BY <1>1, <1>10
  <2> HIDE DEF now, res
  <2>2. x \in EsEntry /\ x.node = d /\ x.owner = o /\ x.context = NoContext
    BY <1>2 DEF EsEntry
  <2>3. TakenAsVariable(d, o, context) /\ Len(st.res.symbols) >= MaxSymbols
    BY <1>4, <1>5, <1>10 DEF TakenAsVariable
  <2>4. EsTaking(st.res, d, o, context, x, res)
    <3> HIDE DEF x
    <3> QED
      BY <2>2, <2>3 DEF EsTaking, res
  <2> HIDE DEF x
  <2> QED
    BY <2>1, <2>4 DEF now
<1>11. CASE ~(named /\ valued) /\ ~variable
  <2> DEFINE x == [node |-> d, owner |-> o, context |-> NoContext]
  <2>1. now = [res |-> st.res, pushed |-> Append(st.pushed, x)]
    BY <1>1, <1>11
  <2> HIDE DEF now
  <2>2. x \in EsEntry /\ x.node = d /\ x.owner = o /\ x.context = NoContext
    BY <1>2 DEF EsEntry
  <2>3. /\ ~TakenAsVariable(d, o, context) /\ ~IsWrapper(d)
        /\ tree[d].bind # "" => Kind(d) \notin {"arrow", "class"}
    BY <1>4, <1>5, <1>7, <1>11 DEF TakenAsVariable
  <2>4. EsTaking(st.res, d, o, context, x, st.res)
    <3> HIDE DEF x
    <3> QED
      BY <2>2, <2>3 DEF EsTaking
  <2> HIDE DEF x
  <2> QED
    BY <2>1, <2>4 DEF now
<1> QED
  BY <1>8, <1>9, <1>10, <1>11

(* A declarator is put on the stack.                                       *)
LEMMA EsPutsNode ==
  ASSUME EsTree, NEW s, NEW V, NEW D, NEW M, EsStacked(s, V, D, M),
         NEW t \in V \ D, NEW d \in M, d \in Nodes, Up(d) = t, Kind(Up(d)) = "const",
         NEW x \in EsEntry, x.node = d
  PROVE  /\ EsStacked(s \o <<x>>, V, D, M \ {d}) /\ d \notin V /\ d \notin NodesOf(s)
         /\ NodesOf(s \o <<x>>) = NodesOf(s) \cup {d} /\ ToSet(s \o <<x>>) = ToSet(s) \cup {x}
<1> DEFINE next == s \o <<x>>
<1>1. /\ IsStack(s, EsEntry)
      /\ V \subseteq Nodes /\ D \subseteq V /\ NodesOf(s) \subseteq Nodes \ V
      /\ \A i \in Nodes : i \in V \cup NodesOf(s)
                             <=> ~InHeader(i) /\ i \notin M /\ (Up(i) = 0 \/ Up(i) \in V \ D)
  BY DEF EsStacked
<1>2. d \notin V /\ d \notin NodesOf(s)
  BY <1>1
<1>7. ~InHeader(d)
  BY EsNoHeader
<1>3. /\ IsStack(next, EsEntry) /\ ToSet(next) = ToSet(s) \cup {x}
      /\ NodesOf(next) = NodesOf(s) \cup {d}
  BY <1>1, <1>2, PushedOne
<1> HIDE DEF next
<1>4. NodesOf(next) \subseteq Nodes \ V
  BY <1>1, <1>2, <1>3
<1>5. \A i \in Nodes : i \in V \cup NodesOf(next)
                         <=> ~InHeader(i) /\ i \notin M \ {d} /\ (Up(i) = 0 \/ Up(i) \in V \ D)
  BY <1>1, <1>3, <1>7
<1>6. EsStacked(next, V, D, M \ {d})
  BY <1>1, <1>3, <1>4, <1>5 DEF EsStacked
<1> QED
  BY <1>2, <1>3, <1>6 DEF next

(* The function of a wrapper is put on the stack, and the wrapper passed   *)
(* over.                                                                   *)
LEMMA EsPutsWrapped ==
  ASSUME EsTree, NEW s, NEW V, NEW D, NEW M, EsStacked(s, V, D, M),
         NEW t \in V \ D, \A i \in M : Up(i) = t,
         NEW d \in M, d \in Nodes, Kind(Up(d)) = "const", Kind(d) = "memo",
         NEW a \in Nodes, \A j \in Nodes : Up(j) = d <=> j = a,
         NEW x \in EsEntry, x.node = a
  PROVE  /\ EsStacked(s \o <<x>>, V \cup {d}, D, M \ {d}) /\ d \notin V /\ d \notin NodesOf(s)
         /\ NodesOf(s \o <<x>>) = NodesOf(s) \cup {a} /\ ToSet(s \o <<x>>) = ToSet(s) \cup {x}
<1> DEFINE next == s \o <<x>>
           W == V \cup {d}
<1>1. /\ IsStack(s, EsEntry)
      /\ V \subseteq Nodes /\ D \subseteq V /\ NodesOf(s) \subseteq Nodes \ V
      /\ \A i \in Nodes : i \in V \cup NodesOf(s)
                             <=> ~InHeader(i) /\ i \notin M /\ (Up(i) = 0 \/ Up(i) \in V \ D)
  BY DEF EsStacked
<1>2. d \notin V /\ d \notin NodesOf(s) /\ d \notin D /\ d # 0
  BY <1>1, EsNodes
<1>3. Up(a) = d /\ a \notin M /\ a # d /\ a \notin V /\ a \notin NodesOf(s)
  <2>1. Up(a) = d /\ a # d
    BY EsNodes
  <2>2. t # d
    BY <1>2
  <2> QED
    BY <1>1, <1>2, <2>1, <2>2
<1>4. /\ IsStack(next, EsEntry) /\ ToSet(next) = ToSet(s) \cup {x}
      /\ NodesOf(next) = NodesOf(s) \cup {a}
  BY <1>1, <1>3, PushedOne
<1> HIDE DEF next
<1>5. NodesOf(next) \subseteq Nodes \ W /\ W \subseteq Nodes /\ D \subseteq W
  BY <1>1, <1>2, <1>3, <1>4
<1>6. ASSUME NEW i \in Nodes
      PROVE  i \in W \cup NodesOf(next)
               <=> ~InHeader(i) /\ i \notin M \ {d} /\ (Up(i) = 0 \/ Up(i) \in W \ D)
  <2>1. CASE i = d
    <3>1. ~InHeader(d)
      BY EsNoHeader
    <3> QED
      BY <1>1, <2>1, <3>1
  <2>2. CASE i = a
    <3>1. ~InHeader(a)
      BY <1>3, EsNoHeader
    <3> QED
      BY <1>2, <1>3, <1>4, <2>2, <3>1
  <2>3. CASE i # d /\ i # a
    BY <1>1, <1>4, <2>3
  <2> QED
    BY <2>1, <2>2, <2>3
<1>7. EsStacked(next, W, D, M \ {d})
  BY <1>4, <1>5, <1>6 DEF EsStacked
<1> QED
  BY <1>2, <1>4, <1>7 DEF next

(* A declarator that is no variable.                                       *)
LEMMA EsPuts ==
  ASSUME EsTree, NEW s, NEW r, NEW V, NEW D, NEW X, NEW M, EsWalk(s, r, V, D, X, M),
         NEW t \in V \ D, NEW d \in M, d \in Nodes, Up(d) = t, Kind(Up(d)) = "const",
         ~EsVariable(d), NEW x \in EsEntry, x.node = d, EsEntryRight(x, r, X)
  PROVE  EsWalk(s \o <<x>>, r, V, D, X, M \ {d})
<1> DEFINE next == s \o <<x>>
           N == M \ {d}
           Q == {x}
<1>1. /\ EsStacked(s, V, D, M) /\ KeptOut(s, V, X) /\ r \in EsResult
      /\ EsOwned(s, r, X) /\ EsRecorded(s, r, V, D, X) /\ EsCalled(r, V, X)
      /\ DroppedAtTheLimit(r, D \cup X)
  BY DEF EsWalk
<1>2. /\ EsStacked(next, V, D, N) /\ d \notin V /\ d \notin NodesOf(s)
      /\ NodesOf(next) = NodesOf(s) \cup {d} /\ ToSet(next) = ToSet(s) \cup Q
  BY <1>1, EsPutsNode
<1>3. \A y \in Q : EsEntryRight(y, r, X)
  OBVIOUS
<1> HIDE DEF next, N, Q
<1>4. KeptOut(next, V, X)
  BY <1>1, <1>2 DEF KeptOut
<1>5. EsCarries(r, r)
  BY EsCarriesOn
<1>6. EsOwned(next, r, X)
  BY <1>1, <1>2, <1>3, <1>5, EsOwnedNext
<1>7. EsRecorded(next, r, V, D, X)
  <2>1. \A i \in Nodes : EsSymbol(i) => (Taken1(i, next, V, D, X) <=> Taken1(i, s, V, D, X))
    BY <1>2 DEF Taken1
  <2> QED
    BY <1>1, <1>5, <2>1, EsSameSymbols
<1>8. EsWalk(next, r, V, D, X, N)
  BY <1>1, <1>2, <1>4, <1>6, <1>7 DEF EsWalk
<1> QED
  BY <1>8 DEF next, N

(* A wrapper: its function is put on the stack.                            *)
LEMMA EsPutsFunction ==
  ASSUME EsTree, NEW s, NEW r, NEW V, NEW D, NEW X, NEW M, EsWalk(s, r, V, D, X, M),
         NEW t \in V \ D, \A i \in M : Up(i) = t,
         NEW d \in M, d \in Nodes, Kind(Up(d)) = "const", Kind(d) = "memo",
         NEW a \in Nodes, \A j \in Nodes : Up(j) = d <=> j = a,
         ~EsVariable(a), ~EsSymbol(d), d \notin CallNodes,
         NEW x \in EsEntry, x.node = a, EsEntryRight(x, r, X)
  PROVE  EsWalk(s \o <<x>>, r, V \cup {d}, D, X, M \ {d})
<1> DEFINE next == s \o <<x>>
           N == M \ {d}
           W == V \cup {d}
           Q == {x}
<1>1. /\ EsStacked(s, V, D, M) /\ KeptOut(s, V, X) /\ r \in EsResult
      /\ EsOwned(s, r, X) /\ EsRecorded(s, r, V, D, X) /\ EsCalled(r, V, X)
      /\ DroppedAtTheLimit(r, D \cup X)
  BY DEF EsWalk
<1>2. /\ EsStacked(next, W, D, N)
      /\ NodesOf(next) = NodesOf(s) \cup {a} /\ ToSet(next) = ToSet(s) \cup Q
  <2>1. EsStacked(s, V, D, M) /\ t \in V \ D /\ d \in M /\ d \in Nodes /\ x.node = a
    BY <1>1
  <2>2. (\A i \in M : Up(i) = t) /\ \A j \in Nodes : Up(j) = d <=> j = a
    OBVIOUS
  <2>3. Kind(Up(d)) = "const" /\ Kind(d) = "memo"
    OBVIOUS
  <2> QED
    BY <2>1, <2>2, <2>3, EsPutsWrapped, SMTT(60)
<1>3. \A y \in Q : EsEntryRight(y, r, X)
  OBVIOUS
<1>4. V \subseteq W /\ \A i \in W : i = d \/ i \in V
  OBVIOUS
<1> HIDE DEF next, N, Q, W
<1>5. KeptOut(next, W, X)
  BY <1>1, <1>2, <1>4 DEF KeptOut
<1>6. EsCarries(r, r)
  BY EsCarriesOn
<1>7. EsOwned(next, r, X)
  BY <1>1, <1>2, <1>3, <1>6, EsOwnedNext
<1>8. EsRecorded(next, r, W, D, X)
  <2>1. \A i \in Nodes : EsSymbol(i) => (Taken1(i, next, W, D, X) <=> Taken1(i, s, V, D, X))
    BY <1>2, <1>4 DEF Taken1
  <2> QED
    BY <1>1, <1>6, <2>1, EsSameSymbols
<1>9. EsCalled(r, W, X)
  BY <1>1, <1>4, <1>6, EsSameCalls
<1>10. EsWalk(next, r, W, D, X, N)
  BY <1>1, <1>2, <1>5, <1>7, <1>8, <1>9 DEF EsWalk
<1> QED
  BY <1>10 DEF next, N, W

(* A variable that the limit keeps out.                                    *)
LEMMA EsKeepsOut ==
  ASSUME EsTree, NEW s, NEW r, NEW V, NEW D, NEW X, NEW M, EsWalk(s, r, V, D, X, M),
         NEW t \in V \ D, NEW d \in M, d \in Nodes, Up(d) = t,
         EsVariable(d), Len(r.symbols) >= MaxSymbols,
         NEW x \in EsEntry, x.node = d, x.owner = 0, x.context = NoContext,
         NEW res \in EsResult, res.symbols = r.symbols, res.calls = r.calls, res.exports = r.exports,
         res.truncated
  PROVE  EsWalk(s \o <<x>>, res, V, D, X \cup {d}, M \ {d})
<1> DEFINE next == s \o <<x>>
           N == M \ {d}
           Q == {x}
           Y == X \cup {d}
<1>1. /\ EsStacked(s, V, D, M) /\ KeptOut(s, V, X) /\ r \in EsResult
      /\ EsOwned(s, r, X) /\ EsRecorded(s, r, V, D, X) /\ EsCalled(r, V, X)
  BY DEF EsWalk
<1>2. /\ EsStacked(next, V, D, N) /\ d \notin V /\ d \notin NodesOf(s)
      /\ NodesOf(next) = NodesOf(s) \cup {d} /\ ToSet(next) = ToSet(s) \cup Q
  <2> HIDE DEF Y
  <2>1. EsStacked(s, V, D, M) /\ t \in V \ D /\ d \in M /\ d \in Nodes /\ Up(d) = t /\ x.node = d
    BY <1>1
  <2>2. Kind(Up(d)) = "const" /\ EsTree /\ x \in EsEntry
    BY EsSymbols
  <2> QED
    BY ONLY <2>1, <2>2, EsPutsNode
<1>3. /\ Kind(d) \in {"value", "call", "memo"} /\ EsCallScope(d) = d
      /\ ~IsWrapper(d) /\ ~x.context.exported
  <2>1. Kind(d) \in {"value", "call", "memo"} /\ EsCallScope(d) = d
    BY EsSymbols
  <2>2. ~IsWrapper(d)
    BY DEF EsVariable, IsVariable, IsWrapper
  <2>3. ~NoContext.exported
    BY DEF NoContext
  <2> QED
    BY <2>1, <2>2, <2>3
<1>4. \A y \in Q : EsEntryRight(y, res, Y)
  BY <1>3 DEF EsEntryRight, KeyIs
<1>5. X \subseteq Y /\ d \in Y /\ \A i \in Y : i \in X \/ i = d
  OBVIOUS
<1>6. DOMAIN res.symbols = DOMAIN r.symbols
  OBVIOUS
<1> HIDE DEF next, N, Q, Y
<1>7. KeptOut(next, V, Y)
  BY <1>1, <1>2, <1>5 DEF KeptOut
<1>8. EsCarries(r, res)
  BY EsCarriesOn DEF Locals
<1>9. EsOwned(next, res, Y)
  BY <1>1, <1>2, <1>4, <1>5, <1>8, EsOwnedNext
<1>10. EsRecorded(next, res, V, D, Y)
  <2>1. \A i \in Nodes : EsSymbol(i) => (Taken1(i, next, V, D, Y) <=> Taken1(i, s, V, D, X))
    BY <1>2, <1>5 DEF Taken1
  <2> QED
    BY <1>1, <1>5, <1>6, <1>8, <2>1, EsSameSymbols
<1>11. EsCalled(res, V, Y)
  BY <1>1, <1>5, <1>6, <1>8, EsSameCalls
<1>12. DroppedAtTheLimit(res, D \cup Y)
  BY <1>6 DEF DroppedAtTheLimit
<1>13. EsWalk(next, res, V, D, Y, N)
  BY <1>2, <1>6, <1>7, <1>9, <1>10, <1>11, <1>12 DEF EsWalk
<1> QED
  BY <1>13 DEF next, N, Y

(* Below the limit nothing was dropped or kept out.                        *)
LEMMA EsRoom ==
  ASSUME NEW s, NEW r, NEW V, NEW D, NEW X, NEW M, EsWalk(s, r, V, D, X, M),
         Len(r.symbols) < MaxSymbols
  PROVE  D = {} /\ X = {} /\ ~r.truncated
<1>1. DroppedAtTheLimit(r, D \cup X) /\ r \in EsResult
  BY DEF EsWalk
<1>2. PICK n \in Nat : n = Len(r.symbols)
  <2>1. r.symbols \in Seq(EsSymbolRecord)
    BY <1>1 DEF EsResult
  <2> QED
    BY <2>1, LenProperties
<1>3. MaxSymbols \in Nat
  BY AnalysisAssumption
<1>4. ~(Len(r.symbols) >= MaxSymbols)
  BY <1>2, <1>3
<1> QED
  BY <1>1, <1>4 DEF DroppedAtTheLimit

(* A symbol is recorded, below the limit.                                  *)
Adds(i, s, V, next) ==
  /\ ~Taken1(i, s, V, {}, {})
  /\ \A j \in Nodes : EsSymbol(j) =>
       (Taken1(j, next, V, {}, {}) <=> Taken1(j, s, V, {}, {}) \/ j = i)

(* A symbol more.                                                          *)
LEMMA EsAddsOne ==
  ASSUME EsTree, NEW r \in EsResult, NEW s, NEW V, EsRecorded(s, r, V, {}, {}),
         NEW i \in Nodes, EsSymbol(i), NEW o \in Nat, KeyIs(r, {}, EsScope[i], o),
         NEW name \in EsNames, NEW kind \in EsSymbolKinds, NEW context \in EsContext,
         context.exported => Listed(r, i, name), NEW next, Adds(i, s, V, next),
         NEW res, res = NewSymbol(r, name, kind, i, o, context)
  PROVE  /\ res \in EsResult /\ EsCarries(r, res) /\ res.calls = r.calls
         /\ HasKey(res, i, Len(r.symbols) + 1) /\ EsRecorded(next, res, V, {}, {})
         /\ res.truncated = r.truncated
<1>1. /\ ~Taken1(i, s, V, {}, {})
      /\ \A j \in Nodes : EsSymbol(j) =>
           (Taken1(j, next, V, {}, {}) <=> Taken1(j, s, V, {}, {}) \/ j = i)
  BY DEF Adds
<1>2. LET q == NewSymbol(r, name, kind, i, o, context)
      IN /\ q \in EsResult /\ EsCarries(r, q) /\ q.calls = r.calls
         /\ HasKey(q, i, Len(r.symbols) + 1) /\ Len(r.symbols) + 1 \in Nat
         /\ EsRecorded(next, q, V, {}, {}) /\ q.truncated = r.truncated
  BY <1>1, EsAddsSymbol
<1> QED
  BY <1>2

(* A variable that is recorded.                                            *)
AddsVariable(r, d, context, x, res) ==
  /\ EsVariable(d) /\ Len(r.symbols) < MaxSymbols /\ tree[d].bind \in Locals(r)
  /\ res = NewSymbol(r, tree[d].bind, "variable", d, 0, context)
  /\ x.node = d /\ x.owner = Len(r.symbols) + 1 /\ x.context = NoContext

(* A variable is recorded while its declarator is taken.                   *)
LEMMA EsRecordsVariable ==
  ASSUME EsTree, NEW s, NEW r, NEW V, NEW D, NEW X, NEW M, EsWalk(s, r, V, D, X, M),
         NEW t \in V \ D, NEW d \in M, d \in Nodes, Up(d) = t,
         NEW context \in EsContext, NEW x \in EsEntry, NEW res, AddsVariable(r, d, context, x, res)
  PROVE  EsWalk(s \o <<x>>, res, V, {}, {}, M \ {d}) /\ D = {} /\ EsCarries(r, res)
<1> DEFINE next == s \o <<x>>
           N == M \ {d}
           Q == {x}
           none == {}
<1>0. D = {} /\ X = {} /\ ~r.truncated
  <2>1. Len(r.symbols) < MaxSymbols
    BY DEF AddsVariable
  <2> QED
    BY <2>1, EsRoom
<1>1. /\ EsStacked(s, V, D, M) /\ KeptOut(s, V, X) /\ r \in EsResult
      /\ EsOwned(s, r, X) /\ EsRecorded(s, r, V, D, X) /\ EsCalled(r, V, X)
  BY DEF EsWalk
<1>2. /\ EsStacked(next, V, D, N) /\ d \notin V /\ d \notin NodesOf(s)
      /\ NodesOf(next) = NodesOf(s) \cup {d} /\ ToSet(next) = ToSet(s) \cup Q
  <2> HIDE DEF none
  <2>1. EsStacked(s, V, D, M) /\ t \in V \ D /\ d \in M /\ d \in Nodes /\ Up(d) = t /\ x.node = d
    BY <1>1 DEF AddsVariable
  <2>2. Kind(Up(d)) = "const"
    BY <2>1, EsSymbols DEF AddsVariable
  <2> QED
    BY <2>1, <2>2, EsPutsNode
<1>3. /\ Kind(d) \in {"value", "call", "memo"} /\ EsCallScope(d) = d /\ EsSymbol(d)
      /\ ~IsWrapper(d) /\ ~x.context.exported /\ EsScope[d] = 0
  <2>1. Kind(d) \in {"value", "call", "memo"} /\ EsCallScope(d) = d /\ EsSymbol(d) /\ EsScope[d] = 0
    <3>1. EsVariable(d)
      BY DEF AddsVariable
    <3> QED
      BY <3>1, EsSymbols
  <2>2. ~IsWrapper(d)
    BY DEF AddsVariable, EsVariable, IsVariable, IsWrapper
  <2>3. ~NoContext.exported
    BY DEF NoContext
  <2> QED
    BY <2>1, <2>2, <2>3 DEF AddsVariable
<1> HIDE DEF next, N, Q
<1>4. /\ res \in EsResult /\ EsCarries(r, res) /\ res.calls = r.calls
      /\ HasKey(res, d, Len(r.symbols) + 1) /\ EsRecorded(next, res, V, {}, {})
      /\ res.truncated = r.truncated
  <2>1. d \notin V /\ d \notin NodesOf(s) /\ NodesOf(next) = NodesOf(s) \cup {d} /\ EsVariable(d)
    BY <1>2 DEF AddsVariable
  <2>2. Adds(d, s, V, next)
    BY <2>1 DEF Adds, Taken1
  <2>3. EsRecorded(s, r, V, {}, {})
    BY <1>0, <1>1
  <2>4. KeyIs(r, {}, EsScope[d], 0)
    BY <1>3 DEF KeyIs, HasKey
  <2> DEFINE name == tree[d].bind
             kind == "variable"
             o == 0
  <2>5. /\ name \in EsNames /\ kind \in EsSymbolKinds /\ o \in Nat
        /\ context.exported => Listed(r, d, name)
    BY EsNodes DEF EsSymbolKinds, Listed, AddsVariable
  <2>6. KeyIs(r, {}, EsScope[d], o) /\ res = NewSymbol(r, name, kind, d, o, context)
    BY <2>4 DEF AddsVariable
  <2> HIDE DEF name, kind, o, none
  <2> QED
    BY <1>1, <1>3, <2>2, <2>3, <2>5, <2>6, EsAddsOne
<1>5. \A y \in Q : EsEntryRight(y, res, none)
  BY <1>3, <1>4 DEF EsEntryRight, KeyIs, Q, AddsVariable
<1>6. EsOwned(next, res, none)
  <2>1. none = X
    BY <1>0
  <2>2. EsOwned(s, r, none) /\ ToSet(next) \subseteq ToSet(s) \cup Q /\ none \subseteq none
    BY <1>1, <1>2, <2>1
  <2> HIDE DEF none
  <2> QED
    BY <1>4, <1>5, <2>2, EsOwnedNext
<1>7. KeptOut(next, V, none) /\ DroppedAtTheLimit(res, {} \cup {})
  BY <1>0, <1>4 DEF KeptOut, DroppedAtTheLimit
<1>8. EsCalled(res, V, none)
  <2>1. none = X
    BY <1>0
  <2>2. EsCalled(r, V, none) /\ V \subseteq V /\ none \subseteq none
    BY <1>1, <2>1
  <2> HIDE DEF none
  <2> QED
    BY <1>4, <2>2, EsSameCalls
<1>9. EsStacked(next, V, {}, N)
  BY <1>0, <1>2
<1>10. EsWalk(next, res, V, {}, {}, N)
  BY <1>4, <1>6, <1>7, <1>8, <1>9 DEF EsWalk
<1> QED
  BY <1>0, <1>4, <1>10 DEF next, N

(* The declaration t whose declarators are taken for the owner o.          *)
Declares(t, o, context) ==
  /\ t \in Nodes /\ Kind(t) = "const" /\ o \in Nat /\ context \in EsContext
  /\ context.exported <=> tree[t].export # "no"

Declared(r, t, V, D, X, o, context) ==
  /\ t \in V \ D /\ KeyIs(r, X, Inner(t), o)
  /\ \A j \in Nodes : context.exported /\ Up(j) = t /\ tree[j].bind # "" => tree[j].bind \in Locals(r)

(* What the declaration says of a declarator.                              *)
LEMMA EsDeclaration ==
  ASSUME EsTree, NEW t, NEW o, NEW context, Declares(t, o, context), NEW d \in Nodes, Up(d) = t,
         NEW s, NEW r, NEW V, NEW D, NEW X, NEW M, EsWalk(s, r, V, D, X, M),
         Declared(r, t, V, D, X, o, context)
  PROVE  /\ EsScope[d] = Inner(t) /\ KeyIs(r, X, EsScope[d], o)
         /\ TakenAsVariable(d, o, context) <=> EsVariable(d)
         /\ IsWrapper(d) => ~EsSymbol(d) /\ d \notin CallNodes
         /\ Kind(Up(d)) = "const"
         /\ context.exported => tree[d].bind = "" \/ tree[d].bind \in Locals(r)
<1>1. /\ t \in Nodes /\ Kind(t) = "const" /\ (context.exported <=> tree[t].export # "no")
      /\ KeyIs(r, X, Inner(t), o) /\ t # 0
  BY EsNodes DEF Declares, Declared
<1>2. ~EsSymbol(t) /\ Inner(t) = EsScope[t]
  <2>1. Kind(t) \notin {"function", "class", "method", "type", "field", "arrow", "value", "call", "memo"}
    BY <1>1
  <2>2. (EsSymbol(t) <=> EsVariable(t)) /\ (EsVariable(t) => Kind(t) \in {"value", "call", "memo"})
    BY <1>1, <2>1, EsSymbols
  <2> QED
    BY <2>1, <2>2 DEF Inner
<1>3. EsScope[d] = Inner(t)
  BY <1>1, EsScopeOfChild
<1>4. context.exported => EsScope[d] = 0 /\ o = 0
  <2>1. ASSUME context.exported PROVE EsScope[t] = 0
    <3>1. Up(t) = 0
      BY <1>1, <2>1 DEF EsTree
    <3> QED
      BY <1>1, <3>1, EsScopeOfChild
  <2>2. ASSUME EsScope[t] = 0 PROVE o = 0
    <3>1. KeyIs(r, X, 0, o)
      BY <1>1, <1>2, <2>2
    <3>2. ASSUME o # 0 PROVE FALSE
      <4>1. o \in DOMAIN r.symbols /\ r.symbols[o].node = 0
        BY <3>1, <3>2 DEF KeyIs, HasKey
      <4>2. EsRecorded(s, r, V, D, X)
        BY DEF EsWalk
      <4>3. r.symbols[o].node \in Nodes
        BY <4>1, <4>2 DEF EsRecorded
      <4> QED
        BY <4>1, <4>3, EsNodes
    <3> QED
      BY <3>2
  <2> QED
    BY <1>2, <1>3, <2>1, <2>2
<1>5. TakenAsVariable(d, o, context) <=> EsVariable(d)
  <2>1. Kind(Up(d)) = "const" /\ (tree[Up(d)].export # "no" <=> context.exported)
    BY <1>1
  <2>2. tree[d].bind # "" => (IsWrapper(d) <=> Kind(d) = "memo" /\ HoldsFunction(d))
    BY <1>1 DEF IsWrapper
  <2>3. ASSUME TakenAsVariable(d, o, context) PROVE EsVariable(d)
    BY <1>1, <1>4, <2>1, <2>2, <2>3 DEF TakenAsVariable, EsVariable, IsVariable
  <2>4. ASSUME EsVariable(d) PROVE TakenAsVariable(d, o, context)
    BY <1>1, <1>4, <2>1, <2>2, <2>4 DEF TakenAsVariable, EsVariable, IsVariable
  <2> QED
    BY <2>3, <2>4
<1>6. ASSUME IsWrapper(d) PROVE ~EsSymbol(d) /\ d \notin CallNodes
  <2>1. Kind(d) = "memo" /\ ~TakenAsVariable(d, o, context)
    BY <1>6 DEF IsWrapper, TakenAsVariable
  <2>2. Kind(d) \notin {"function", "class", "method", "type", "field", "arrow"}
    BY <2>1
  <2>3. ~EsSymbol(d)
    BY <1>5, <2>1, <2>2, EsSymbols
  <2>4. d \notin CallNodes
    BY <1>6, <2>1 DEF CallNodes
  <2> QED
    BY <2>3, <2>4
<1>7. context.exported => tree[d].bind = "" \/ tree[d].bind \in Locals(r)
  BY DEF Declared
<1> QED
  BY <1>1, <1>3, <1>5, <1>6, <1>7

(* The function or the class that a declarator binds.                      *)
LEMMA EsBindsValue ==
  ASSUME EsTree, NEW a \in Nodes, Kind(a) \in {"arrow", "class"}, ~EsVariable(a),
         NEW name, name # "", PlaceName(a) = name, Kind(Up(a)) # "assign",
         NEW r, NEW X, NEW x, x.node = a, KeyIs(r, X, EsScope[a], x.owner),
         x.context.name = name, x.context.exported => name \in Locals(r)
  PROVE  EsEntryRight(x, r, X)
<1>1. EsCallScope(a) = EsScope[a] /\ ~IsWrapper(a)
  BY EsSymbols DEF IsWrapper
<1>2. Kind(a) = "arrow" => EsSymbol(a)
  BY EsSymbols
<1>3. ASSUME x.context.exported PROVE WillBeListed(x, r)
  <2>1. Kind(a) \in Declarations \cup {"arrow"} /\ Kind(a) # "const"
    BY DEF Declarations
  <2>2. Listed(r, a, NameGiven(a, x.context))
    <3>1. CASE Kind(a) = "arrow"
      BY <1>3, <3>1 DEF Listed, NameGiven
    <3>2. CASE Kind(a) = "class"
      <4>1. NameGiven(a, x.context) = IF tree[a].name # "" THEN tree[a].name ELSE name
        BY <3>2 DEF NameGiven, OwnName
      <4> QED
        BY <1>3, <3>2, <4>1 DEF Listed
    <3> QED
      BY <3>1, <3>2
  <2> QED
    BY <2>1, <2>2 DEF WillBeListed
<1> QED
  BY <1>1, <1>2, <1>3 DEF EsEntryRight

(* A declarator is taken.                                                  *)
LEMMA EsTakesOne ==
  ASSUME EsTree, NEW t, NEW o, NEW context, Declares(t, o, context),
         NEW s, NEW r, NEW V, NEW D, NEW X, NEW M, EsWalk(s, r, V, D, X, M),
         Declared(r, t, V, D, X, o, context),
         \A i \in M : i \in Nodes /\ Up(i) = t, NEW d \in M,
         NEW x, NEW res, EsTaking(r, d, o, context, x, res)
  PROVE  \E W, E, Y : /\ EsWalk(s \o <<x>>, res, W, E, Y, M \ {d})
                      /\ Declared(res, t, W, E, Y, o, context)
<1> DEFINE next == s \o <<x>>
           N == M \ {d}
<1>1. /\ d \in Nodes /\ Up(d) = t /\ x \in EsEntry /\ t \in V \ D
      /\ context \in EsContext
  BY DEF EsTaking, Declared, Declares
<1>2. /\ EsScope[d] = Inner(t) /\ KeyIs(r, X, EsScope[d], o)
      /\ TakenAsVariable(d, o, context) <=> EsVariable(d)
  BY <1>1, EsDeclaration
<1>3. /\ IsWrapper(d) => ~EsSymbol(d) /\ d \notin CallNodes
      /\ Kind(Up(d)) = "const"
      /\ context.exported => tree[d].bind = "" \/ tree[d].bind \in Locals(r)
  BY <1>1, EsDeclaration
<1> HIDE DEF next, N
<1>4. CASE /\ res = r /\ x.owner = o /\ tree[d].bind # "" /\ x.context.name = tree[d].bind
           /\ x.context.exported <=> context.exported
           /\ x.node = d /\ Kind(d) \in {"arrow", "class"}
  <2>1. ~EsVariable(d)
    BY <1>2, <1>4 DEF TakenAsVariable
  <2>2. PlaceName(d) = tree[d].bind /\ Kind(Up(d)) # "assign"
    BY <1>3 DEF PlaceName
  <2> DEFINE name == tree[d].bind
  <2>3. /\ name # "" /\ PlaceName(d) = name /\ KeyIs(r, X, EsScope[d], x.owner)
        /\ x.context.name = name /\ (x.context.exported => name \in Locals(r))
    BY <1>2, <1>3, <1>4, <2>2
  <2> HIDE DEF name
  <2>4. EsEntryRight(x, r, X)
    BY <1>1, <1>4, <2>1, <2>2, <2>3, EsBindsValue
  <2>5. EsWalk(s \o <<x>>, r, V, D, X, M \ {d})
    BY <1>1, <1>3, <1>4, <2>1, <2>4, EsPuts
  <2> QED
    BY <1>4, <2>5
<1>5. CASE /\ res = r /\ x.owner = o /\ tree[d].bind # "" /\ x.context.name = tree[d].bind
           /\ x.context.exported <=> context.exported
           /\ IsWrapper(d) /\ x.node = Head(Children(d))
  <2> DEFINE a == Head(Children(d))
             name == tree[d].bind
  <2>1. Kind(d) = "memo" /\ HoldsFunction(d) /\ Kind(d) \in Wrapping
    BY <1>5 DEF IsWrapper, Wrapping
  <2>2. \E j \in Nodes : Up(j) = d
    BY <2>1 DEF HoldsFunction
  <2>3. a \in Nodes /\ Up(a) = d /\ \A j \in Nodes : Up(j) = d <=> j = a
    BY <1>1, <2>1, <2>2, EsWrapped
  <2> HIDE DEF a
  <2>4. Kind(a) = "arrow" /\ Kind(Up(a)) = "memo"
    BY <2>1, <2>3 DEF EsTree
  <2>5. EsScope[a] = EsScope[d]
    <3>1. d # 0 /\ ~EsSymbol(d)
      BY <1>1, <1>3, <1>5, EsNodes
    <3> QED
      BY <2>3, <3>1, EsScopeOfChild DEF Inner
  <2>6. ~EsVariable(a)
    BY <2>3, <2>4, EsSymbols
  <2>7. PlaceName(a) = name /\ Kind(Up(a)) # "assign"
    BY <2>3, <2>4 DEF PlaceName
  <2>8. /\ x.node = a /\ name # "" /\ KeyIs(r, X, EsScope[a], x.owner)
        /\ x.context.name = name /\ (x.context.exported => name \in Locals(r))
    BY <1>2, <1>3, <1>5, <2>5 DEF a
  <2> HIDE DEF name
  <2>9. EsEntryRight(x, r, X)
    BY <2>3, <2>4, <2>6, <2>7, <2>8, EsBindsValue
  <2>10. EsWalk(s \o <<x>>, r, V \cup {d}, D, X, M \ {d})
    <3>1. /\ (\A i \in M : Up(i) = t) /\ ~EsSymbol(d) /\ d \notin CallNodes
          /\ Kind(Up(d)) = "const" /\ Kind(d) = "memo"
      BY <1>3, <1>5, <2>1
    <3> QED
      BY <1>1, <2>3, <2>6, <2>8, <2>9, <3>1, EsPutsFunction
  <2>11. Declared(r, t, V \cup {d}, D, X, o, context)
    BY DEF Declared
  <2> QED
    BY <1>5, <2>10, <2>11
<1>6. CASE /\ TakenAsVariable(d, o, context) /\ Len(r.symbols) < MaxSymbols
           /\ res = NewSymbol(r, tree[d].bind, "variable", d, o, context)
           /\ x.node = d /\ x.owner = Len(r.symbols) + 1 /\ x.context = NoContext
  <2>1. AddsVariable(r, d, context, x, res)
    <3>1. o = 0 /\ context.exported /\ tree[d].bind # ""
      BY <1>6 DEF TakenAsVariable
    <3> QED
      BY <1>2, <1>3, <1>6, <3>1 DEF AddsVariable
  <2>2. EsWalk(s \o <<x>>, res, V, {}, {}, M \ {d}) /\ D = {} /\ EsCarries(r, res)
    <3>1. d \in M /\ EsWalk(s, r, V, D, X, M) /\ EsTree
      OBVIOUS
    <3> QED
      BY ONLY <1>1, <2>1, <3>1, EsRecordsVariable
  <2>3. KeyIs(res, X, Inner(t), o)
    <3>1. KeyIs(r, X, Inner(t), o) /\ X \subseteq X
      BY DEF Declared
    <3> QED
      BY <2>2, <3>1, KeysKept
  <2>4. Declared(res, t, V, {}, {}, o, context)
    <3>1. Locals(r) \subseteq Locals(res)
      BY <2>2 DEF EsCarries
    <3>2. D = {} /\ X = {}
      BY <1>6, EsRoom
    <3> QED
      BY <1>1, <2>3, <3>1, <3>2 DEF Declared
  <2> QED
    BY <2>2, <2>4
<1>7. CASE /\ TakenAsVariable(d, o, context) /\ Len(r.symbols) >= MaxSymbols
           /\ res = [r EXCEPT !.truncated = TRUE]
           /\ x.node = d /\ x.owner = o /\ x.context = NoContext
  <2>1. o = 0 /\ EsVariable(d)
    BY <1>2, <1>7 DEF TakenAsVariable
  <2>2. /\ res \in EsResult /\ res.symbols = r.symbols /\ res.calls = r.calls
        /\ res.exports = r.exports /\ res.truncated
    <3>1. r \in EsResult
      BY DEF EsWalk
    <3> QED
      BY <1>7, <3>1 DEF EsResult
  <2>3. EsWalk(s \o <<x>>, res, V, D, X \cup {d}, M \ {d})
    <3>1. /\ Len(r.symbols) >= MaxSymbols /\ x.node = d /\ x.owner = 0 /\ x.context = NoContext
      BY <1>7, <2>1
    <3> QED
      BY <1>1, <2>1, <2>2, <3>1, EsKeepsOut
  <2>4. Declared(res, t, V, D, X \cup {d}, o, context)
    <3>1. EsCarries(r, res)
      BY <2>2, EsCarriesOn DEF Locals
    <3> DEFINE Y == X \cup {d}
    <3>2. X \subseteq Y /\ KeyIs(r, X, Inner(t), o)
      BY DEF Declared
    <3> HIDE DEF Y
    <3>3. KeyIs(res, Y, Inner(t), o)
      BY <3>1, <3>2, KeysKept
    <3>4. Locals(r) \subseteq Locals(res)
      BY <3>1 DEF EsCarries
    <3>5. Declared(res, t, V, D, Y, o, context)
      BY <3>3, <3>4 DEF Declared
    <3> QED
      BY <3>5 DEF Y
  <2> QED
    BY <2>3, <2>4
<1>8. CASE /\ ~TakenAsVariable(d, o, context) /\ ~IsWrapper(d) /\ res = r
           /\ tree[d].bind # "" => Kind(d) \notin {"arrow", "class"}
           /\ x.node = d /\ x.owner = o /\ x.context = NoContext
  <2>1. ~EsVariable(d)
    BY <1>2, <1>8
  <2>2. EsCallScope(d) = EsScope[d]
    BY <1>1, <2>1, EsSymbols
  <2>3. ASSUME Kind(d) = "arrow" PROVE ~EsSymbol(d)
    <3>1. tree[d].bind = "" /\ PlaceName(d) = ""
      BY <1>3, <1>8, <2>3 DEF PlaceName
    <3> QED
      BY <1>1, <2>3, <3>1, EsSymbols
  <2>4. ~NoContext.exported /\ NoContext.name = ""
    BY DEF NoContext
  <2>5. EsEntryRight(x, r, X)
    BY <1>2, <1>8, <2>2, <2>3, <2>4 DEF EsEntryRight
  <2>6. EsWalk(s \o <<x>>, r, V, D, X, M \ {d})
    BY <1>1, <1>3, <1>8, <2>1, <2>5, EsPuts
  <2> QED
    BY <1>8, <2>6
<1> QED
  BY <1>4, <1>5, <1>6, <1>7, <1>8 DEF EsTaking

(* The result after a declarator, and the entry it leaves.                 *)
LEMMA EsTakesResult ==
  ASSUME EsTree, NEW d \in Nodes, NEW o \in Nat, NEW context \in EsContext, NEW r \in EsResult,
         NEW x, NEW res, EsTaking(r, d, o, context, x, res)
  PROVE  res \in EsResult
<1> DEFINE new == [node |-> d, name |-> tree[d].bind, kind |-> "variable", parent |-> o,
                   exported |-> context.exported /\ o = 0, default |-> context.default,
                   jsx |-> FALSE, wrapped |-> context.wrapped]
<1>1. CASE res = NewSymbol(r, tree[d].bind, "variable", d, o, context)
  <2>1. d \in Nat /\ tree[d].bind \in EsNames
    BY EsNodes
  <2>2. new \in EsSymbolRecord
    BY <2>1 DEF EsSymbolRecord, EsSymbolKinds, EsContext
  <2>3. res = [r EXCEPT !.symbols = Append(@, new)]
    BY <1>1 DEF NewSymbol
  <2> HIDE DEF new
  <2>4. Append(r.symbols, new) \in Seq(EsSymbolRecord)
    <3>1. r.symbols \in Seq(EsSymbolRecord)
      BY DEF EsResult
    <3> QED
      BY <2>2, <3>1, Appended
  <2> QED
    BY <2>3, <2>4 DEF EsResult
<1>2. CASE res = [r EXCEPT !.truncated = TRUE]
  BY <1>2 DEF EsResult
<1> HIDE DEF new
<1> QED
  BY <1>1, <1>2 DEF EsTaking

(* A sequence that is turned around has the same members, each once.       *)
LEMMA TurnedAround ==
  ASSUME NEW N \in Nat, NEW P \in SUBSET (1..N)
  PROVE  LET list == Reverse(Sorted(P))
         IN /\ Len(list) \in Nat /\ DOMAIN list = 1..Len(list) /\ ToSet(list) = P
            /\ \A m, n \in DOMAIN list : m # n => list[m] # list[n]
<1> DEFINE s == Sorted(P)
           r == Reverse(s)
<1>1. s \in Seq(P) /\ ToSet(s) = P /\ \A m, n \in DOMAIN s : m # n => s[m] # s[n]
  BY SortedFacts
<1> HIDE DEF s
<1>2. PICK k \in Nat : k = Len(s) /\ DOMAIN s = 1..k
  BY <1>1, LenProperties
<1>3. r = [i \in 1..k |-> s[(k - i) + 1]]
  BY <1>2 DEF Reverse
<1> HIDE DEF r
<1>4. \A i \in 1..k : (k - i) + 1 \in 1..k /\ (k - ((k - i) + 1)) + 1 = i
  BY <1>2
<1>5. DOMAIN r = 1..k /\ \A i \in 1..k : r[i] = s[(k - i) + 1]
  BY <1>3
<1>6. Len(r) = k
  <2>1. \A i \in 1..k : s[(k - i) + 1] \in P
    BY <1>1, <1>2, <1>4 DEF ToSet
  <2>2. r \in Seq(P)
    BY <1>2, <1>3, <2>1
  <2>3. PICK l \in Nat : Len(r) = l /\ DOMAIN r = 1..l
    BY <2>2, LenProperties
  <2>4. 1..l = 1..k
    BY <1>5, <2>3
  <2>5. /\ l = 0 \/ l \in 1..l
        /\ k = 0 \/ k \in 1..k
    OBVIOUS
  <2>6. l = k
    BY <2>4, <2>5
  <2> QED
    BY <2>3, <2>6
<1>7. ToSet(r) = ToSet(s)
  <2>1. ASSUME NEW x \in ToSet(r) PROVE x \in ToSet(s)
    <3>1. PICK i \in 1..k : x = r[i]
      BY <1>5 DEF ToSet
    <3> QED
      BY <1>2, <1>4, <1>5, <3>1 DEF ToSet
  <2>2. ASSUME NEW x \in ToSet(s) PROVE x \in ToSet(r)
    <3>1. PICK i \in 1..k : x = s[i]
      BY <1>2 DEF ToSet
    <3>2. x = r[(k - i) + 1]
      BY <1>4, <1>5, <3>1
    <3> QED
      BY <1>4, <1>5, <3>1, <3>2 DEF ToSet
  <2> QED
    BY <2>1, <2>2
<1>8. ASSUME NEW m \in 1..k, NEW n \in 1..k, m # n PROVE r[m] # r[n]
  <2> DEFINE a == (k - m) + 1
             b == (k - n) + 1
  <2>1. a \in 1..k /\ b \in 1..k /\ a # b
    BY <1>2, <1>8
  <2>2. r[m] = s[a] /\ r[n] = s[b]
    BY <1>5
  <2> HIDE DEF a, b
  <2> QED
    BY <1>1, <1>2, <2>1, <2>2
<1> QED
  BY <1>1, <1>5, <1>6, <1>7, <1>8 DEF r, s

(* A declaration is visited, and its declarators are to be taken.          *)
LEMMA EsBeginsDeclaration ==
  ASSUME EsTree, NEW V, NEW D, NEW X, EsWalk(stack, result, V, D, X, {}), stack # << >>,
         Kind(Top.node) = "const", tree[Top.node].export = "no" \/ Top.context.exported
  PROVE  /\ Declares(Top.node, Top.owner, Top.context)
         /\ EsWalk(Popped, result, V \cup {Top.node}, D, X, {j \in Nodes : Up(j) = Top.node})
         /\ Declared(result, Top.node, V \cup {Top.node}, D, X, Top.owner, Top.context)
<1> DEFINE t == Top.node
           W == V \cup {t}
           S == {j \in Nodes : Up(j) = t}
<1>1. /\ EsStacked(stack, V, D, {}) /\ result \in EsResult
      /\ EsCalled(result, V, X) /\ EsEntryRight(Top, result, X)
      /\ t \in Nodes /\ t \notin V /\ t # 0 /\ Top.owner \in Nat /\ Top.context \in EsContext
  BY EsTop
<1>2. KeptOut(stack, V, X) /\ EsOwned(stack, result, X) /\ EsRecorded(stack, result, V, D, X)
      /\ DroppedAtTheLimit(result, D \cup X)
  BY DEF EsWalk
<1>3. /\ t \in NodesOf(stack) /\ IsStack(Popped, EsEntry) /\ NodesOf(Popped) = NodesOf(stack) \ {t}
      /\ ToSet(Popped) = ToSet(stack) \ {Top}
      /\ \A j \in Nodes : Up(j) = t => j \notin V /\ j \notin NodesOf(stack) /\ j # t /\ j # 0
  BY <1>1, EsFresh
<1>4. ~EsSymbol(t) /\ t \notin CallNodes
  <2>1. /\ Kind(t) \notin {"function", "class", "method", "type", "field", "arrow"}
        /\ Kind(t) \notin {"value", "call", "memo"} /\ Kind(t) \notin {"call", "jsx"}
        /\ Kind(t) # "memo"
    OBVIOUS
  <2>2. (EsSymbol(t) <=> EsVariable(t)) /\ (EsVariable(t) => Kind(t) \in {"value", "call", "memo"})
    BY <1>1, <2>1, EsSymbols
  <2> QED
    BY <2>1, <2>2 DEF CallNodes
<1>5. Top.context.exported =>
        tree[t].export # "no" /\ \A j \in Nodes : Up(j) = t /\ tree[j].bind # "" => tree[j].bind \in Locals(result)
  BY <1>1 DEF EsEntryRight, WillBeListed
<1>6. Declares(t, Top.owner, Top.context)
  BY <1>1, <1>5 DEF Declares
<1>7. EsStacked(Popped, W, D, S)
  <2> DEFINE A == {}
             P == {}
  <2>1. /\ A \in SUBSET Nodes /\ P \in SUBSET Nodes /\ S \in SUBSET Nodes
        /\ A \cap P = {} /\ S \cap (A \cup P) = {}
        /\ \A i \in Nodes : i \in A \cup P \cup S
                               <=> ~InHeader(i) /\ (Up(i) = Top.node \/ Up(i) \in A)
        /\ \A i \in A : Up(i) = Top.node
        /\ NodesOf(Popped) = NodesOf(Popped) \cup P
        /\ W = V \cup {Top.node} \cup A
    BY EsNoHeader
  <2>2. EsStacked(stack, V, D, {}) /\ IsStack(Popped, EsEntry)
    BY <1>1, <1>3
  <2> HIDE DEF A, P, S, W
  <2>3. EsStacked(Popped, V \cup {Top.node} \cup A, D, S)
    BY <2>1, <2>2, EsVisits
  <2> QED
    BY <2>1, <2>3
<1>8. EsCarries(result, result)
  BY EsCarriesOn
<1>9. EsWalk(Popped, result, W, D, X, S)
  <2>1. KeptOut(Popped, W, X)
    BY <1>2, <1>3 DEF KeptOut
  <2>2. EsOwned(Popped, result, X)
    BY <1>2, <1>3 DEF EsOwned
  <2>3. V \subseteq W /\ \A i \in W : i \in V \/ i = t
    OBVIOUS
  <2> HIDE DEF W, S, t
  <2>4. EsRecorded(Popped, result, W, D, X)
    <3>1. \A i \in Nodes : EsSymbol(i) => (Taken1(i, Popped, W, D, X) <=> Taken1(i, stack, V, D, X))
      BY <1>3, <1>4, <2>3 DEF Taken1
    <3> QED
      BY <1>2, <1>8, <3>1, EsSameSymbols
  <2>5. EsCalled(result, W, X)
    BY <1>1, <1>4, <1>8, <2>3, EsSameCalls
  <2> QED
    BY <1>1, <1>2, <1>7, <2>1, <2>2, <2>4, <2>5 DEF EsWalk
<1>10. Declared(result, t, W, D, X, Top.owner, Top.context)
  <2>1. KeyIs(result, X, Inner(t), Top.owner)
    <3>1. (EsSymbol(t) => EsVariable(t)) => KeyIs(result, X, Inner(t), Top.owner)
      BY EsTop
    <3> QED
      BY <1>4, <3>1
  <2>2. D \subseteq V
    BY <1>1 DEF EsStacked
  <2> QED
    BY <1>1, <1>5, <2>1, <2>2 DEF Declared
<1> QED
  BY <1>6, <1>9, <1>10

(* The declarators are taken one after the other.                          *)
DeclaresAll(n, nodes, taken, o, context) ==
  /\ taken[n] = Declarator(taken[n - 1], nodes[n], o, context)
  /\ taken[n - 1] \in EsTaken /\ taken[n] \in EsTaken

(* All declarators of a declaration are taken.                             *)
LEMMA EsTakesAll ==
  ASSUME EsTree, NEW t \in Nodes, Kind(t) = "const", NEW o \in Nat, NEW context \in EsContext,
         result \in EsResult, VariableDeclaration(t, o, context)
  PROVE  LET nodes == Reverse(Children(t)) IN
         \E taken : /\ taken[0] = [res |-> result, pushed |-> << >>]
                    /\ \A n \in 1..Len(nodes) : DeclaresAll(n, nodes, taken, o, context)
                    /\ taken[0] \in EsTaken
                    /\ result' = taken[Len(nodes)].res
                    /\ stack' = Popped \o taken[Len(nodes)].pushed
<1> DEFINE nodes == Reverse(Children(t))
           N == Len(nodes)
           base == [res |-> result, pushed |-> << >>]
           Take(n, st) == Declarator(st, nodes[n], o, context)
           G == [p \in (1..N) \X EsTaken |-> Take(p[1], p[2])]
           Is(e) == e = [n \in 0..Len(nodes) |->
                           IF n = 0 THEN [res |-> result, pushed |-> << >>]
                           ELSE Declarator(e[n - 1], nodes[n], o, context)]
           taken == CHOOSE e : Is(e)
           S == {j \in Nodes : Up(j) = t}
<1>1. result' = taken[Len(nodes)].res /\ stack' = Popped \o taken[Len(nodes)].pushed
  BY DEF VariableDeclaration, Goes
<1>2. N \in Nat /\ \A n \in 1..N : nodes[n] \in Nodes /\ Up(nodes[n]) = t
  <2>1. S \in SUBSET (1..Len(tree)) /\ Len(tree) \in Nat
    BY EsNodes
  <2>2. nodes = Reverse(Sorted(S))
    BY DEF Children
  <2> HIDE DEF nodes, S
  <2>3. N \in Nat /\ DOMAIN nodes = 1..N /\ ToSet(nodes) = S
    BY <2>1, <2>2, TurnedAround
  <2>4. \A n \in 1..N : nodes[n] \in S
    BY <2>3 DEF ToSet
  <2> QED
    BY <2>3, <2>4 DEF S
<1> HIDE DEF nodes
<1>3. ASSUME NEW n \in 1..N, NEW st \in EsTaken PROVE Take(n, st) \in EsTaken
  <2> DEFINE d == nodes[n]
  <2>1. d \in Nodes /\ Kind(Up(d)) = "const"
    BY <1>2
  <2> HIDE DEF d
  <2>2. PICK x, res : /\ EsTaking(st.res, d, o, context, x, res)
                      /\ Declarator(st, d, o, context) = [res |-> res, pushed |-> Append(st.pushed, x)]
    BY <2>1, EsTakes
  <2>3. st.res \in EsResult /\ st.pushed \in Seq(EsEntry)
    BY DEF EsTaken
  <2>4. res \in EsResult
    BY <2>1, <2>2, <2>3, EsTakesResult
  <2>5. x \in EsEntry
    BY <2>2 DEF EsTaking
  <2>6. Append(st.pushed, x) \in Seq(EsEntry)
    BY <2>3, <2>5, Appended
  <2>7. [res |-> res, pushed |-> Append(st.pushed, x)] \in EsTaken
    BY <2>4, <2>6 DEF EsTaken
  <2> QED
    BY <2>2, <2>7 DEF d
<1>4. G \in [(1..N) \X EsTaken -> EsTaken] /\ \A n \in 1..N, st \in EsTaken : G[<<n, st>>] = Take(n, st)
  <2> HIDE DEF Take, N
  <2> QED
    BY <1>3
<1>5. base \in EsTaken
  <2>1. << >> \in Seq(EsEntry)
    OBVIOUS
  <2> QED
    BY <2>1 DEF EsTaken
<1>6. PICK g \in [0..N -> EsTaken] : g[0] = base /\ \A n \in 1..N : g[n] = G[<<n, g[n - 1]>>]
  <2>1. N \in Nat /\ base \in EsTaken /\ G \in [(1..N) \X EsTaken -> EsTaken]
    BY <1>2, <1>4, <1>5
  <2> HIDE DEF G, N, base, Is, taken
  <2>2. \E g : Chains(g, N, EsTaken, base, G)
    BY <2>1, FromBefore
  <2> QED
    BY <2>2 DEF Chains
<1> HIDE DEF G
<1>7. Is(g)
  <2> DEFINE E(n) == IF n = 0 THEN base ELSE Take(n, g[n - 1])
  <2>1. ASSUME NEW n \in 0..N PROVE g[n] = E(n)
    <3>1. CASE n = 0
      BY <1>6, <3>1
    <3>2. CASE n # 0
      <4>1. n \in 1..N /\ n - 1 \in 0..N
        BY <1>2, <3>2
      <4>2. g[n] = G[<<n, g[n - 1]>>] /\ g[n - 1] \in EsTaken
        BY <1>6, <4>1
      <4>3. g[n] = Take(n, g[n - 1])
        <5> HIDE DEF Take
        <5> QED
          BY <1>4, <4>1, <4>2
      <4> QED
        BY <3>2, <4>3
    <3> QED
      BY <3>1, <3>2
  <2>2. g = [n \in 0..N |-> E(n)]
    <3> HIDE DEF E
    <3> QED
      BY <1>6, <2>1
  <2> QED
    BY <2>2
<1>8. Is(taken)
  <2> HIDE DEF Is
  <2> QED
    BY <1>7
<1> HIDE DEF taken
<1>9. taken[0] = base /\ \A n \in 1..N : taken[n] = Take(n, taken[n - 1])
  <2> DEFINE E(n) == IF n = 0 THEN base ELSE Take(n, taken[n - 1])
  <2>1. taken = [n \in 0..N |-> E(n)]
    BY <1>8
  <2>2. \A n \in 0..N : taken[n] = E(n)
    <3> HIDE DEF E
    <3> QED
      BY <2>1
  <2>3. 0 \in 0..N /\ \A n \in 1..N : n \in 0..N /\ n # 0
    BY <1>2
  <2> QED
    BY <2>2, <2>3
<1> HIDE DEF Is
<1> DEFINE T == {n \in 0..N : taken[n] \in EsTaken}
<1>10. 0 \in T
  BY <1>2, <1>5, <1>9
<1>11. ASSUME NEW n \in 0..(N - 1), n \in T PROVE n + 1 \in T
  <2>1. n + 1 \in 1..N /\ n + 1 \in 0..N /\ (n + 1) - 1 = n
    BY <1>2
  <2>2. taken[n] \in EsTaken
    BY <1>11
  <2>3. taken[n + 1] = Take(n + 1, taken[n])
    <3> HIDE DEF Take
    <3> QED
      BY <1>9, <2>1
  <2>4. taken[n + 1] \in EsTaken
    <3> HIDE DEF Take, N
    <3> QED
      BY <1>3, <2>1, <2>2, <2>3
  <2> QED
    BY <2>1, <2>4
<1>12. \A n \in 0..N : n \in T
  <2> HIDE DEF T, N
  <2> QED
    BY <1>2, <1>10, <1>11, Climb
<1>13. ASSUME NEW n \in 1..N PROVE DeclaresAll(n, nodes, taken, o, context)
  <2>1. n \in 0..N /\ n - 1 \in 0..N
    BY <1>2
  <2>2. taken[n] \in EsTaken /\ taken[n - 1] \in EsTaken
    BY <1>12, <2>1
  <2>3. taken[n] = Take(n, taken[n - 1])
    <3> HIDE DEF Take
    <3> QED
      BY <1>9
  <2> QED
    BY <2>2, <2>3 DEF DeclaresAll
<1>14. /\ taken[0] = base /\ taken[0] \in EsTaken
       /\ \A n \in 1..N : DeclaresAll(n, nodes, taken, o, context)
  BY <1>5, <1>9, <1>13
<1> QED
  BY <1>1, <1>14 DEF nodes

\* The declarators after the first n ones are still to be taken.
TakenSoFar(n, nodes, taken, t, o, context) ==
  \E W, E, Y : /\ EsWalk(Popped \o taken[n].pushed, taken[n].res, W, E, Y,
                         {nodes[m] : m \in (n + 1)..Len(nodes)})
               /\ Declared(taken[n].res, t, W, E, Y, o, context)

(* A variable declaration is visited.                                      *)
LEMMA EsVisitDeclaration ==
  ASSUME EsTree, NEW V, NEW D, NEW X, EsWalk(stack, result, V, D, X, {}), stack # << >>,
         VariableDeclaration(Top.node, Top.owner, Top.context),
         tree[Top.node].export = "no" \/ Top.context.exported
  PROVE  \E W, E, Y : EsWalk(stack', result', W, E, Y, {})
<1> DEFINE t == Top.node
           o == Top.owner
           context == Top.context
           nodes == Reverse(Children(t))
           N == Len(nodes)
           S == {j \in Nodes : Up(j) = t}
           Left(n) == {nodes[m] : m \in (n + 1)..N}
<1>1. Kind(t) = "const"
  BY DEF VariableDeclaration
<1>2. /\ t \in Nodes /\ o \in Nat /\ context \in EsContext /\ result \in EsResult
      /\ IsStack(Popped, EsEntry)
  <2>1. /\ t \in Nodes /\ o \in Nat /\ context \in EsContext /\ result \in EsResult
        /\ EsStacked(stack, V, D, {})
    BY EsTop
  <2>2. IsStack(Popped, EsEntry)
    BY <2>1, EsFresh
  <2> QED
    BY <2>1, <2>2
<1>3. PICK taken : /\ taken[0] = [res |-> result, pushed |-> << >>]
                   /\ \A n \in 1..N : DeclaresAll(n, nodes, taken, o, context)
                   /\ taken[0] \in EsTaken
                   /\ result' = taken[N].res
                   /\ stack' = Popped \o taken[N].pushed
  <2>1. VariableDeclaration(t, o, context)
    OBVIOUS
  <2> HIDE DEF t, o, context
  <2> QED
    BY <1>1, <1>2, <2>1, EsTakesAll
<1>4. /\ Declares(t, o, context)
      /\ EsWalk(Popped, result, V \cup {t}, D, X, S)
      /\ Declared(result, t, V \cup {t}, D, X, o, context)
  BY <1>1, EsBeginsDeclaration
<1>5. /\ N \in Nat /\ DOMAIN nodes = 1..N /\ ToSet(nodes) = S
      /\ \A m, n \in DOMAIN nodes : m # n => nodes[m] # nodes[n]
  <2>1. S \in SUBSET (1..Len(tree)) /\ Len(tree) \in Nat
    BY EsNodes
  <2>2. nodes = Reverse(Sorted(S))
    BY DEF Children
  <2> HIDE DEF nodes, S
  <2> QED
    BY <2>1, <2>2, TurnedAround
<1>6. \A n \in 1..N : nodes[n] \in Nodes /\ Up(nodes[n]) = t /\ Kind(Up(nodes[n])) = "const"
  <2>1. \A n \in 1..N : nodes[n] \in S
    <3> HIDE DEF nodes, S
    <3> QED
      BY <1>5 DEF ToSet
  <2> QED
    BY <1>1, <2>1
<1> HIDE DEF nodes, t, o, context
<1>7. Left(0) = S /\ Left(N) = {}
  <2>1. \A m \in (N + 1)..N : FALSE
    BY <1>5
  <2>2. (0 + 1)..N = 1..N
    OBVIOUS
  <2>3. \A y : y \in Left(0) <=> \E m \in 1..N : y = nodes[m]
    BY <2>2
  <2>4. \A y : y \in S <=> \E m \in 1..N : y = nodes[m]
    <3> HIDE DEF S
    <3> QED
      BY <1>5 DEF ToSet
  <2> QED
    BY <2>1, <2>3, <2>4
<1>8. ASSUME NEW n \in 0..(N - 1)
      PROVE  /\ Left(n + 1) = Left(n) \ {nodes[n + 1]} /\ nodes[n + 1] \in Left(n)
             /\ \A i \in Left(n) : i \in Nodes /\ Up(i) = t
  <2>1. /\ n + 1 \in 1..N /\ n + 1 \in (n + 1)..N
        /\ \A m \in (n + 1)..N : m \in 1..N /\ (m = n + 1 \/ m \in ((n + 1) + 1)..N)
        /\ \A m \in ((n + 1) + 1)..N : m \in (n + 1)..N /\ m # n + 1 /\ m \in 1..N
    BY <1>5
  <2>2. \A i \in Left(n) : i \in Nodes /\ Up(i) = t
    BY <1>6, <2>1
  <2>3. \A m \in ((n + 1) + 1)..N : nodes[m] # nodes[n + 1]
    BY <1>5, <2>1
  <2>4. \A y : y \in Left(n + 1) <=> \E m \in ((n + 1) + 1)..N : y = nodes[m]
    OBVIOUS
  <2>5. \A y : y \in Left(n) <=> \E m \in (n + 1)..N : y = nodes[m]
    OBVIOUS
  <2>6. nodes[n + 1] \in Left(n)
    BY <2>1
  <2> HIDE DEF Left
  <2>7. \A y : y \in Left(n + 1) <=> y \in Left(n) /\ y # nodes[n + 1]
    BY <2>1, <2>3, <2>4, <2>5
  <2> QED
    BY <2>2, <2>6, <2>7
<1> DEFINE T == {n \in 0..N : TakenSoFar(n, nodes, taken, t, o, context)}
<1>9. 0 \in T
  <2>1. Popped \o taken[0].pushed = Popped
    <3>1. Popped \in Seq(EsEntry)
      BY <1>2 DEF IsStack
    <3>2. taken[0].pushed = << >>
      BY <1>3
    <3> QED
      BY <3>1, <3>2
  <2>2. taken[0].res = result
    BY <1>3
  <2>3. Left(0) = S
    BY <1>7
  <2> HIDE DEF S
  <2>4. TakenSoFar(0, nodes, taken, t, o, context)
    BY <1>4, <2>1, <2>2, <2>3 DEF TakenSoFar
  <2> QED
    BY <1>5, <2>4
<1>10. ASSUME NEW n \in 0..(N - 1), n \in T PROVE n + 1 \in T
  <2> DEFINE st == taken[n]
             d == nodes[n + 1]
             s == Popped \o st.pushed
             M == Left(n)
  <2>1. n + 1 \in 1..N /\ n + 1 \in 0..N /\ (n + 1) - 1 = n
    BY <1>5
  <2>2. taken[n + 1] = Declarator(st, d, o, context) /\ st \in EsTaken /\ taken[n + 1] \in EsTaken
    <3>1. DeclaresAll(n + 1, nodes, taken, o, context)
      BY <1>3, <2>1
    <3> QED
      BY <2>1, <3>1 DEF DeclaresAll
  <2>3. PICK W, E, Y : EsWalk(s, st.res, W, E, Y, M) /\ Declared(st.res, t, W, E, Y, o, context)
    <3>1. TakenSoFar(n, nodes, taken, t, o, context)
      BY <1>10
    <3> QED
      BY <3>1 DEF TakenSoFar
  <2>4. /\ d \in M /\ \A i \in M : i \in Nodes /\ Up(i) = t
        /\ Left(n + 1) = M \ {d}
    BY <1>8
  <2>5. d \in Nodes /\ Kind(Up(d)) = "const"
    BY <1>6, <2>1
  <2> HIDE DEF s, M, st, d, Left, T
  <2>6. PICK x, res : /\ EsTaking(st.res, d, o, context, x, res)
                      /\ taken[n + 1] = [res |-> res, pushed |-> Append(st.pushed, x)]
    BY <1>2, <2>2, <2>5, EsTakes
  <2>7. PICK U, F, Z : /\ EsWalk(s \o <<x>>, res, U, F, Z, M \ {d})
                       /\ Declared(res, t, U, F, Z, o, context)
    BY <1>4, <2>3, <2>4, <2>6, EsTakesOne
  <2>8. Popped \o taken[n + 1].pushed = s \o <<x>> /\ taken[n + 1].res = res
    <3>1. Popped \in Seq(EsEntry) /\ st.pushed \in Seq(EsEntry)
      BY <1>2, <2>2 DEF IsStack, EsTaken
    <3>2. x \in EsEntry
      BY <2>6 DEF EsTaking
    <3>3. Popped \o Append(st.pushed, x) = (Popped \o st.pushed) \o <<x>>
      BY <3>1, <3>2
    <3> QED
      BY <2>6, <3>3 DEF s
  <2>9. TakenSoFar(n + 1, nodes, taken, t, o, context)
    BY <2>4, <2>7, <2>8 DEF TakenSoFar, Left
  <2> QED
    BY <2>1, <2>9 DEF T
<1>11. \A n \in 0..N : n \in T
  <2> HIDE DEF T, N
  <2> QED
    BY <1>5, <1>9, <1>10, Climb
<1>12. TakenSoFar(N, nodes, taken, t, o, context)
  <2>1. N \in 0..N
    BY <1>5
  <2> HIDE DEF N
  <2> QED
    BY <1>11, <2>1
<1>13. PICK W, E, Y : EsWalk(stack', result', W, E, Y, Left(N))
  BY <1>3, <1>12 DEF TakenSoFar
<1> QED
  BY <1>7, <1>13

-----------------------------------------------------------------------------
(* ECMAScript: the whole analysis.                                         *)

(* Every visit keeps what holds of the walk.                               *)
LEMMA EsVisitStep ==
  ASSUME EsTree, TreeIsComplete, stack # << >>,
         NEW V, NEW D, NEW X, EsWalk(stack, result, V, D, X, {}), EsVisit
  PROVE  \E W, E, Y : EsWalk(stack', result', W, E, Y, {})
<1> DEFINE i == Top.node
           owner == Top.owner
           context == Top.context
<1>1. CASE ExportDeclaration(i, owner, context)
  <2>1. EsWalk(stack', result', V, D, X, {})
    BY <1>1, EsVisitExport
  <2> QED
    BY <2>1
<1>2. CASE FunctionDeclaration(i, owner, context) \/ Class(i, owner, context) \/ Method(i, owner)
  BY <1>2, EsVisitFunction
<1>3. CASE FunctionValue(i, owner, context)
  BY <1>3, EsVisitValue
<1>4. CASE Field(i, owner)
  BY <1>4, EsVisitField
<1>5. CASE TypeDeclaration(i, owner, context)
  BY <1>5, EsVisitType
<1>6. CASE ImportStatement(i) \/ ReExport(i) \/ ExportClause(i)
  <2>1. EsWalk(stack', result', V \cup {Top.node}, D, X, {})
    BY <1>6, EsVisitImport
  <2> QED
    BY <2>1
<1>7. CASE ExportDefault(i, owner)
  <2>1. \E W : EsWalk(stack', result', W, D, X, {})
    BY <1>7, EsVisitDefault
  <2> QED
    BY <2>1
<1>8. CASE CommonjsExport(i, owner)
  <2>1. EsWalk(stack', result', V \cup {Top.node}, D, X, {})
    BY <1>8, EsVisitCommonjs
  <2> QED
    BY <2>1
<1>9. CASE Call(i, owner)
  <2>1. EsWalk(stack', result', V \cup {Top.node}, D, X, {})
    BY <1>9, EsVisitCall
  <2> QED
    BY <2>1
<1>10. CASE Jsx(i, owner)
  <2>1. EsWalk(stack', result', V \cup {Top.node}, D, X, {})
    BY <1>10, EsVisitJsx
  <2> QED
    BY <2>1
<1>11. CASE OtherNode(i, owner)
  <2>1. EsWalk(stack', result', V \cup {Top.node}, D, X, {})
    BY <1>11, EsVisitOther
  <2> QED
    BY <2>1
<1>12. CASE VariableDeclaration(i, owner, context) /\ (tree[i].export = "no" \/ context.exported)
  BY <1>12, EsVisitDeclaration
<1>13. \/ ExportDeclaration(i, owner, context)
       \/ /\ tree[i].export = "no" \/ context.exported
          /\ \/ FunctionDeclaration(i, owner, context) \/ FunctionValue(i, owner, context)
             \/ Class(i, owner, context) \/ Method(i, owner) \/ Field(i, owner)
             \/ VariableDeclaration(i, owner, context) \/ TypeDeclaration(i, owner, context)
             \/ ImportStatement(i) \/ ReExport(i) \/ ExportClause(i)
             \/ ExportDefault(i, owner) \/ CommonjsExport(i, owner)
             \/ Call(i, owner) \/ Jsx(i, owner) \/ OtherNode(i, owner)
  BY DEF EsVisit
<1> HIDE DEF i, owner, context
<1> QED
  BY <1>1, <1>2, <1>3, <1>4, <1>5, <1>6, <1>7, <1>8, <1>9, <1>10, <1>11, <1>12, <1>13

(* What holds of a tree holds in the next state if the tree is the same.   *)
LEMMA EsTreeStays ==
  ASSUME EsTree, tree' = tree
  PROVE  EsTree'
<1>1. Nodes' = Nodes /\ \A i : Kind(Up(i))' = Kind(Up(i)) /\ Kind(i)' = Kind(i) /\ Up(i)' = Up(i)
  BY DEF Nodes, Kind, Up
<1>2. tree' \in Seq(EsNode)
  BY DEF EsTree
<1>3. \A i \in Nodes : Up(i) < i /\ Kind(Up(i)) \in EsParents
  BY DEF EsTree
<1>4. \A i \in Nodes : (Up(i) < i /\ Kind(Up(i)) \in EsParents)'
  BY <1>1, <1>3
<1>5. \A i \in Nodes : tree[i].export # "no" => Up(i) = 0 /\ Kind(i) \in Declarations
  BY DEF EsTree
<1>6. \A i \in Nodes : (tree[i].export # "no" => Up(i) = 0 /\ Kind(i) \in Declarations)'
  BY <1>1, <1>5
<1>7. \A i \in Nodes : tree[i].bind # "" => Kind(Up(i)) = "const"
  BY DEF EsTree
<1>8. \A i \in Nodes : (tree[i].bind # "" => Kind(Up(i)) = "const")'
  BY <1>1, <1>7
<1>9. \A i \in Nodes : Kind(i) \in {"type", "assign", "memo"} => tree[i].name # ""
  BY DEF EsTree
<1>10. \A i \in Nodes : (Kind(i) \in {"type", "assign", "memo"} => tree[i].name # "")'
  BY <1>1, <1>9
<1>11. \A i \in Nodes : Kind(Up(i)) = "const" => Kind(i) \in {"arrow", "class", "value", "call", "memo"}
  BY DEF EsTree
<1>12. \A i \in Nodes : (Kind(Up(i)) = "const" => Kind(i) \in {"arrow", "class", "value", "call", "memo"})'
  BY <1>1, <1>11
<1>13. \A i \in Nodes : Kind(Up(i)) = "memo" => Kind(i) = "arrow"
  BY DEF EsTree
<1>14. \A i \in Nodes : (Kind(Up(i)) = "memo" => Kind(i) = "arrow")'
  BY <1>1, <1>13
<1>15. \A i \in Nodes : Kind(Up(i)) = "field" => Kind(i) \in {"arrow", "call"}
  BY DEF EsTree
<1>16. \A i \in Nodes : (Kind(Up(i)) = "field" => Kind(i) \in {"arrow", "call"})'
  BY <1>1, <1>15
<1>17. \A i \in Nodes : Kind(Up(i)) \in {"default", "assign"} => Kind(i) \in Values \ {"memo"}
  BY DEF EsTree
<1>18. \A i \in Nodes : (Kind(Up(i)) \in {"default", "assign"} => Kind(i) \in Values \ {"memo"})'
  BY <1>1, <1>17
<1>19. \A i \in Nodes : Kind(i) = "arrow" => Kind(Up(i)) \in Wrapping \cup {"const", "call", "jsx"}
  BY DEF EsTree
<1>20. \A i \in Nodes : (Kind(i) = "arrow" => Kind(Up(i)) \in Wrapping \cup {"const", "call", "jsx"})'
  BY <1>1, <1>19
<1>21. \A i \in Nodes : Kind(Up(i)) \in Wrapping => \A j \in Nodes : Up(j) = Up(i) => j = i
  BY DEF EsTree
<1>22. \A i \in Nodes : (Kind(Up(i)) \in Wrapping => \A j \in Nodes : Up(j) = Up(i) => j = i)'
  BY <1>1, <1>21
<1>23. \A i : InHeader(i)' <=> InHeader(i)
  BY DEF InHeader
<1>24. \A i \in Nodes : InHeader(i) => Kind(Up(i)) = "class" /\ Kind(i) = "call"
  BY DEF EsTree
<1>25. \A i \in Nodes : (InHeader(i) => Kind(Up(i)) = "class" /\ Kind(i) = "call")'
  BY <1>1, <1>23, <1>24
<1>26. \A i \in Nodes : Up(i) # 0 => ~InHeader(Up(i))
  BY DEF EsTree
<1>27. \A i \in Nodes : (Up(i) # 0 => ~InHeader(Up(i)))'
  <2>1. \A i \in Nodes : InHeader(Up(i))' <=> InHeader(Up(i))
    BY <1>1 DEF InHeader
  <2> QED
    BY <1>1, <1>26, <2>1
<1> QED
  BY <1>25, <1>27, <1>1, <1>2, <1>4, <1>6, <1>8, <1>10, <1>12, <1>14, <1>16, <1>18, <1>20, <1>22 DEF EsTree

(* The same of the walk.                                                   *)
LEMMA EsWalkStays ==
  ASSUME tree' = tree, NEW V, NEW D, NEW X, NEW M, EsWalk(stack', result', V, D, X, M)
  PROVE  EsWalk(stack, result, V, D, X, M)'
<1>1. /\ EsScope' = EsScope
      /\ \A i, n : IsSymbol(i, n)' <=> IsSymbol(i, n)
      /\ \A i, n : IsVariable(i, n)' <=> IsVariable(i, n)
      /\ \A i : IsWrapper(i)' <=> IsWrapper(i)
      /\ \A i : PlaceName(i)' = PlaceName(i)
  BY EsScopeStays
<1>2. \A i : (EsSymbol(i)' <=> EsSymbol(i)) /\ (EsVariable(i)' <=> EsVariable(i))
  BY <1>1 DEF EsSymbol, EsVariable
<1>3. \A i : EsCallScope(i)' = EsCallScope(i)
  BY <1>1 DEF EsCallScope
<1>4. /\ Nodes' = Nodes /\ \A i : Kind(i)' = Kind(i)
      /\ \A i : Up(i)' = Up(i)
  BY DEF Nodes, Kind, Up
<1>5. CallNodes' = CallNodes
  BY <1>1, <1>4 DEF CallNodes, InHeader
<1>6. \A i, c : NameGiven(i, c)' = NameGiven(i, c)
  BY <1>4 DEF NameGiven, OwnName
<1>7. \A r, i, n : Listed(r, i, n)' <=> Listed(r, i, n)
  BY <1>1, <1>4 DEF Listed
<1>8. EsStacked(stack', V, D, M) => EsStacked(stack, V, D, M)'
  BY <1>4 DEF EsStacked, NodesOf, ToSet, IsStack, Distinct, EsEntry, EsContext, InHeader
<1>9. KeptOut(stack', V, X) => KeptOut(stack, V, X)'
  BY <1>2 DEF KeptOut, NodesOf, ToSet
<1>10. ASSUME NEW x PROVE EsEntryRight(x, result', X) => EsEntryRight(x, result, X)'
  <2>1. WillBeListed(x, result') => WillBeListed(x, result)'
    BY <1>4, <1>6, <1>7 DEF WillBeListed, Listed, Locals
  <2> QED
    BY <1>1, <1>2, <1>3, <1>4, <2>1 DEF EsEntryRight, KeyIs, HasKey
<1>11. EsOwned(stack', result', X) => EsOwned(stack, result, X)'
  BY <1>10 DEF EsOwned, ToSet
<1>12. EsRecorded(stack', result', V, D, X) => EsRecorded(stack, result, V, D, X)'
  BY <1>1, <1>2, <1>4, <1>7 DEF EsRecorded, Taken1, KeyIs, HasKey, Distinct, NodesOf, ToSet, Listed, Locals
<1>13. EsCalled(result', V, X) => EsCalled(result, V, X)'
  BY <1>3, <1>5 DEF EsCalled, KeyIs, HasKey, Distinct
<1>14. DroppedAtTheLimit(result', D \cup X) => DroppedAtTheLimit(result, D \cup X)'
  BY DEF DroppedAtTheLimit
<1>15. result' \in EsResult => (result \in EsResult)'
  BY DEF EsResult, EsSymbolRecord, EsSymbolKinds, EsCall, EsImport, EsExport, EsExportKinds, EsNames
<1> QED
  BY <1>8, <1>9, <1>11, <1>12, <1>13, <1>14, <1>15 DEF EsWalk

(* A node without children.                                                *)
LEMMA EsChildless ==
  ASSUME EsTree, NEW i, Children(i) = << >>
  PROVE  \A j \in Nodes : Up(j) # i
<1> DEFINE S == {j \in Nodes : Up(j) = i}
<1>1. S \in SUBSET (1..Len(tree)) /\ Len(tree) \in Nat
  BY EsNodes
<1>2. Sorted(S) = << >>
  BY DEF Children
<1> HIDE DEF S
<1>3. ToSet(Sorted(S)) = S
  BY <1>1, SortedFacts
<1>4. ToSet(<< >>) = {}
  BY DEF ToSet
<1>5. S = {}
  BY <1>2, <1>3, <1>4
<1> QED
  BY <1>5 DEF S

(* What the grammar says of a node below another one.                      *)
LEMMA EsGrammar ==
  ASSUME NEW form \in EsForms, NEW up, EsPlaces(form, up)
  PROVE  /\ form.kind \in EsKinds /\ form.export \in {"no", "named", "default"}
         /\ Kind(up) \in EsParents
         /\ form.export # "no" => Kind(up) = "root" /\ form.kind \in Declarations
         /\ form.bind # "" => Kind(up) = "const"
         /\ form.kind \in {"type", "assign", "memo"} => form.name # ""
         /\ Kind(up) = "const" => form.kind \in {"arrow", "class", "value", "call", "memo"}
         /\ Kind(up) = "memo" => form.kind = "arrow"
         /\ Kind(up) = "field" => form.kind \in {"arrow", "call"}
         /\ Kind(up) \in {"default", "assign"} => form.kind \in Values \ {"memo"}
         /\ form.kind = "arrow" => Kind(up) \in Wrapping \cup {"const", "call", "jsx"}
         /\ Kind(up) \in Wrapping => Children(up) = << >>
<1>1. /\ form.kind \in EsKinds /\ form.export \in {"no", "named", "default"}
      /\ form.kind \in {"type", "assign", "memo"} => form.name # ""
      /\ form.kind \in {"method", "field"} => form.bind = ""
      /\ form.export # "no" => form.kind \in Declarations
  BY EsFormsAssumption
<1> DEFINE statement == /\ form.bind = ""
                        /\ form.kind \notin {"arrow", "value", "ident", "object", "method", "field"}
           at == Kind(up)
<1>2. CASE at = "root" /\ statement
  BY <1>1, <1>2 DEF EsParents, Wrapping
<1>3. CASE /\ at = "const" /\ form.kind \in {"arrow", "class", "value", "call", "memo"}
           /\ form.export = "no"
  BY <1>1, <1>3 DEF EsParents, Wrapping
<1>4. CASE /\ at \in {"default", "assign"} /\ Children(up) = << >>
           /\ form.kind \in Values \ {"memo"} /\ form.bind = "" /\ form.export = "no"
  BY <1>1, <1>4 DEF EsParents, Wrapping
<1>5. CASE at = "memo" /\ Children(up) = << >> /\ form.kind = "arrow" /\ form.bind = ""
  BY <1>1, <1>5 DEF EsParents, Wrapping, Declarations
<1>6. CASE at = "field" /\ Children(up) = << >> /\ form.kind \in {"arrow", "call"} /\ form.bind = ""
  BY <1>1, <1>6 DEF EsParents, Wrapping, Declarations
<1>7. CASE at = "class" /\ form.kind \in {"method", "field", "call"} /\ form.bind = ""
  BY <1>1, <1>7 DEF EsParents, Wrapping, Declarations
<1>8. CASE at \in {"call", "jsx"} /\ form.kind \in {"arrow", "call", "jsx"} /\ form.bind = ""
  BY <1>1, <1>8 DEF EsParents, Wrapping, Declarations
<1>9. CASE at \in {"function", "arrow", "method"} /\ statement /\ form.export = "no"
  BY <1>1, <1>9 DEF EsParents, Wrapping, Scoping
<1> HIDE DEF at
<1>10. \/ at = "root" /\ statement
       \/ /\ at = "const" /\ form.kind \in {"arrow", "class", "value", "call", "memo"}
          /\ form.export = "no"
       \/ /\ at \in {"default", "assign"} /\ Children(up) = << >>
          /\ form.kind \in Values \ {"memo"} /\ form.bind = "" /\ form.export = "no"
       \/ at = "memo" /\ Children(up) = << >> /\ form.kind = "arrow" /\ form.bind = ""
       \/ at = "field" /\ Children(up) = << >> /\ form.kind \in {"arrow", "call"} /\ form.bind = ""
       \/ at = "class" /\ form.kind \in {"method", "field", "call"} /\ form.bind = ""
       \/ at \in {"call", "jsx"} /\ form.kind \in {"arrow", "call", "jsx"} /\ form.bind = ""
       \/ at \in {"function", "arrow", "method"} /\ statement /\ form.export = "no"
  BY DEF EsPlaces, at
<1> HIDE DEF statement
<1> QED
  BY <1>2, <1>3, <1>4, <1>5, <1>6, <1>7, <1>8, <1>9, <1>10 DEF at

(* A tree grows by a node where the grammar allows it.                     *)
LEMMA EsTreeGrows ==
  ASSUME EsTree, EsGrows
  PROVE  EsTree'
<1>00. PICK form \in EsForms, up \in OpenNodes :
         /\ EsPlaces(form, up)
         /\ \E field \in EsFields(form, up) :
              Grows([kind |-> form.kind, name |-> form.name, bind |-> form.bind,
                     export |-> form.export, up |-> up, field |-> field])
  BY DEF EsGrows
<1>1. PICK field \in EsFields(form, up) :
        /\ EsPlaces(form, up)
        /\ Grows([kind |-> form.kind, name |-> form.name, bind |-> form.bind,
                  export |-> form.export, up |-> up, field |-> field])
  BY <1>00
<1> DEFINE node == [kind |-> form.kind, name |-> form.name, bind |-> form.bind,
                    export |-> form.export, up |-> up, field |-> field]
<1>0. PICK n \in Nat : n = Len(tree)
  BY EsNodes
<1>2. tree' = Append(tree, node)
  BY <1>1 DEF Grows
<1>3. /\ tree \in Seq(EsNode) /\ n \in Nat /\ Nodes = 1..n /\ up \in 0..n
      /\ up # 0 => ~InHeader(up)
      /\ field \in {"body", "header"}
      /\ field = "header" => Kind(up) = "class" /\ form.kind = "call"
  BY <1>0, EsNodes DEF EsTree, OpenNodes, EsFields
<1>4. /\ form.kind \in EsKinds /\ form.export \in {"no", "named", "default"}
      /\ Kind(up) \in EsParents
      /\ form.export # "no" => Kind(up) = "root" /\ form.kind \in Declarations
      /\ form.bind # "" => Kind(up) = "const"
      /\ form.kind \in {"type", "assign", "memo"} => form.name # ""
      /\ Kind(up) = "const" => form.kind \in {"arrow", "class", "value", "call", "memo"}
      /\ Kind(up) = "memo" => form.kind = "arrow"
      /\ Kind(up) = "field" => form.kind \in {"arrow", "call"}
      /\ Kind(up) \in {"default", "assign"} => form.kind \in Values \ {"memo"}
      /\ form.kind = "arrow" => Kind(up) \in Wrapping \cup {"const", "call", "jsx"}
      /\ Kind(up) \in Wrapping => Children(up) = << >>
  BY <1>1, EsGrammar
<1>5. Kind(up) = "root" => up = 0
  <2>1. up \in Nodes => Kind(up) \in EsKinds
    BY EsNodes
  <2>2. "root" \notin EsKinds
    BY DEF EsKinds, Values, Leaves, Declarations
  <2>3. up = 0 \/ up \in Nodes
    BY <1>3
  <2> QED
    BY <2>1, <2>2, <2>3
<1>6. Kind(up) \in Wrapping => \A j \in Nodes : Up(j) # up
  BY <1>4, EsChildless
<1>7. node \in EsNode
  <2>1. form.name \in EsNames
    BY DEF EsNames
  <2>2. form.bind \in EsNames
    BY DEF EsNames
  <2>3. up \in Nat
    BY <1>3
  <2> QED
    BY <1>3, <1>4, <2>1, <2>2, <2>3 DEF EsNode
<1>8. /\ node.kind = form.kind /\ node.name = form.name /\ node.bind = form.bind
      /\ node.export = form.export /\ node.up = up /\ node.field = field
  OBVIOUS
<1> HIDE DEF node
<1>9. /\ tree' \in Seq(EsNode) /\ Nodes' = 1..(n + 1) /\ tree'[n + 1] = node
      /\ \A i \in Nodes : i # n + 1 /\ i \in Nodes' /\ tree'[i] = tree[i]
      /\ \A i \in Nodes' : i \in Nodes \/ i = n + 1
  BY <1>0, <1>2, <1>3, <1>7, Appended DEF Nodes
<1>10. \A i \in Nodes \cup {0} : Kind(i)' = Kind(i)
  BY <1>9 DEF Kind
<1>11. \A i \in Nodes : Up(i)' = Up(i) /\ Up(i) \in Nodes \cup {0} /\ Kind(Up(i))' = Kind(Up(i))
  <2>1. \A i \in Nodes : Up(i)' = Up(i) /\ Up(i) \in Nodes \cup {0}
    BY <1>9, EsNodes DEF Up
  <2> QED
    BY <1>10, <2>1 DEF Kind
<1>12. /\ Up(n + 1)' = up /\ up \in Nodes \cup {0} /\ n + 1 # 0 /\ up < n + 1
       /\ Kind(Up(n + 1))' = Kind(up) /\ Kind(n + 1)' = form.kind
  <2> DEFINE m == n + 1
  <2>0. up \in Nodes \cup {0} /\ m # 0 /\ up < m
    BY <1>3
  <2>4. tree'[m] = node
    BY <1>9
  <2> HIDE DEF m
  <2>5. Up(m)' = up /\ Kind(m)' = form.kind
    BY <1>8, <2>0, <2>4 DEF Up, Kind
  <2>1. Up(n + 1)' = up /\ up \in Nodes \cup {0} /\ n + 1 # 0 /\ up < n + 1
    BY <2>0, <2>5 DEF m
  <2>2. Kind(Up(n + 1))' = Kind(up)
    BY <1>10, <2>1 DEF Kind
  <2>3. Kind(n + 1)' = form.kind
    BY <2>5 DEF m
  <2> QED
    BY <2>1, <2>2, <2>3
<1>13. ASSUME NEW i \in Nodes', i \in Nodes
       PROVE  /\ Up(i)' < i /\ Kind(Up(i))' \in EsParents
              /\ tree'[i].export # "no" => Up(i)' = 0 /\ Kind(i)' \in Declarations
              /\ tree'[i].bind # "" => Kind(Up(i))' = "const"
              /\ Kind(i)' \in {"type", "assign", "memo"} => tree'[i].name # ""
              /\ tree'[i].field = "header" => Kind(Up(i))' = "class" /\ Kind(i)' = "call"
              /\ Up(i)' # 0 => tree'[Up(i)'].field # "header"
              /\ Kind(Up(i))' = "const" => Kind(i)' \in {"arrow", "class", "value", "call", "memo"}
              /\ Kind(Up(i))' = "memo" => Kind(i)' = "arrow"
              /\ Kind(Up(i))' = "field" => Kind(i)' \in {"arrow", "call"}
              /\ Kind(Up(i))' \in {"default", "assign"} => Kind(i)' \in Values \ {"memo"}
              /\ Kind(i)' = "arrow" => Kind(Up(i))' \in Wrapping \cup {"const", "call", "jsx"}
  <2>1. /\ Up(i) < i /\ Kind(Up(i)) \in EsParents
        /\ tree[i].export # "no" => Up(i) = 0 /\ Kind(i) \in Declarations
        /\ tree[i].bind # "" => Kind(Up(i)) = "const"
        /\ Kind(i) \in {"type", "assign", "memo"} => tree[i].name # ""
        /\ tree[i].field = "header" => Kind(Up(i)) = "class" /\ Kind(i) = "call"
        /\ Up(i) # 0 => tree[Up(i)].field # "header"
        /\ Kind(Up(i)) = "const" => Kind(i) \in {"arrow", "class", "value", "call", "memo"}
        /\ Kind(Up(i)) = "memo" => Kind(i) = "arrow"
        /\ Kind(Up(i)) = "field" => Kind(i) \in {"arrow", "call"}
        /\ Kind(Up(i)) \in {"default", "assign"} => Kind(i) \in Values \ {"memo"}
        /\ Kind(i) = "arrow" => Kind(Up(i)) \in Wrapping \cup {"const", "call", "jsx"}
    BY <1>13 DEF EsTree, InHeader
  <2>2. Up(i)' = Up(i) /\ Kind(Up(i))' = Kind(Up(i)) /\ Kind(i)' = Kind(i) /\ tree'[i] = tree[i]
    BY <1>9, <1>10, <1>11, <1>13
  <2>3. Up(i)' # 0 => tree'[Up(i)'].field # "header"
    <3>1. Up(i) # 0 => tree'[Up(i)] = tree[Up(i)]
      BY <1>9, <1>11, <1>13
    <3> QED
      BY <2>1, <2>2, <3>1
  <2> QED
    BY <2>1, <2>2, <2>3
<1>14. ASSUME NEW i \in Nodes', i = n + 1
       PROVE  /\ Up(i)' < i /\ Kind(Up(i))' \in EsParents
              /\ tree'[i].export # "no" => Up(i)' = 0 /\ Kind(i)' \in Declarations
              /\ tree'[i].bind # "" => Kind(Up(i))' = "const"
              /\ Kind(i)' \in {"type", "assign", "memo"} => tree'[i].name # ""
              /\ tree'[i].field = "header" => Kind(Up(i))' = "class" /\ Kind(i)' = "call"
              /\ Up(i)' # 0 => tree'[Up(i)'].field # "header"
              /\ Kind(Up(i))' = "const" => Kind(i)' \in {"arrow", "class", "value", "call", "memo"}
              /\ Kind(Up(i))' = "memo" => Kind(i)' = "arrow"
              /\ Kind(Up(i))' = "field" => Kind(i)' \in {"arrow", "call"}
              /\ Kind(Up(i))' \in {"default", "assign"} => Kind(i)' \in Values \ {"memo"}
              /\ Kind(i)' = "arrow" => Kind(Up(i))' \in Wrapping \cup {"const", "call", "jsx"}
  <2> DEFINE at == Kind(up)
             kind == form.kind
  <2>1. /\ Up(i)' = up /\ up < i /\ Kind(Up(i))' = at /\ Kind(i)' = kind
        /\ tree'[i].export = form.export /\ tree'[i].bind = form.bind /\ tree'[i].name = form.name
        /\ tree'[i].field = field
    BY <1>8, <1>9, <1>12, <1>14
  <2>2. /\ at \in EsParents
        /\ form.export # "no" => up = 0 /\ kind \in Declarations
        /\ form.bind # "" => at = "const"
        /\ kind \in {"type", "assign", "memo"} => form.name # ""
        /\ field = "header" => at = "class" /\ kind = "call"
        /\ at = "const" => kind \in {"arrow", "class", "value", "call", "memo"}
        /\ at = "memo" => kind = "arrow"
        /\ at = "field" => kind \in {"arrow", "call"}
        /\ at \in {"default", "assign"} => kind \in Values \ {"memo"}
        /\ kind = "arrow" => at \in Wrapping \cup {"const", "call", "jsx"}
    BY <1>3, <1>4, <1>5
  <2>3. up # 0 => tree'[up].field # "header"
    BY <1>3, <1>9, <1>12 DEF InHeader
  <2> HIDE DEF at, kind
  <2> QED
    BY <2>1, <2>2, <2>3
<1>15. ASSUME NEW i \in Nodes', NEW j \in Nodes', Kind(Up(i))' \in Wrapping, Up(j)' = Up(i)'
       PROVE  j = i
  <2>1. ASSUME NEW k \in Nodes, Kind(Up(k)) \in Wrapping PROVE Up(k) # up
    BY <1>6, <2>1
  <2>2. CASE i \in Nodes /\ j \in Nodes
    <3>1. Kind(Up(i)) \in Wrapping /\ Up(j) = Up(i)
      BY <1>11, <1>15, <2>2
    <3> QED
      BY <2>2, <3>1 DEF EsTree
  <2>3. CASE i \in Nodes /\ j = n + 1
    <3>1. Kind(Up(i)) \in Wrapping /\ Up(i) = up
      BY <1>11, <1>12, <1>15, <2>3
    <3> QED
      BY <2>1, <2>3, <3>1
  <2>4. CASE i = n + 1 /\ j \in Nodes
    <3>1. Up(j) = up /\ Kind(up) \in Wrapping
      BY <1>11, <1>12, <1>15, <2>4
    <3> QED
      BY <1>6, <2>4, <3>1
  <2>5. CASE i = n + 1 /\ j = n + 1
    BY <2>5
  <2> QED
    BY <1>9, <2>2, <2>3, <2>4, <2>5
<1>16. ASSUME NEW i \in Nodes'
       PROVE  /\ Up(i)' < i /\ Kind(Up(i))' \in EsParents
              /\ tree'[i].export # "no" => Up(i)' = 0 /\ Kind(i)' \in Declarations
              /\ tree'[i].bind # "" => Kind(Up(i))' = "const"
              /\ Kind(i)' \in {"type", "assign", "memo"} => tree'[i].name # ""
              /\ InHeader(i)' => Kind(Up(i))' = "class" /\ Kind(i)' = "call"
              /\ Up(i)' # 0 => ~InHeader(Up(i))'
              /\ Kind(Up(i))' = "const" => Kind(i)' \in {"arrow", "class", "value", "call", "memo"}
              /\ Kind(Up(i))' = "memo" => Kind(i)' = "arrow"
              /\ Kind(Up(i))' = "field" => Kind(i)' \in {"arrow", "call"}
              /\ Kind(Up(i))' \in {"default", "assign"} => Kind(i)' \in Values \ {"memo"}
              /\ Kind(i)' = "arrow" => Kind(Up(i))' \in Wrapping \cup {"const", "call", "jsx"}
  <2>1. (InHeader(i)' <=> tree'[i].field = "header")
    BY DEF InHeader
  <2>2. (InHeader(Up(i))' <=> tree'[Up(i)'].field = "header")
    BY DEF InHeader
  <2>3. CASE i \in Nodes
    BY <1>13, <2>1, <2>2, <2>3
  <2>4. CASE i = n + 1
    BY <1>14, <2>1, <2>2, <2>4
  <2> QED
    BY <1>9, <2>3, <2>4
<1>17. \A i \in Nodes' : (Up(i) # 0 => ~InHeader(Up(i)))'
  BY <1>16
<1>18. \A i \in Nodes' : (InHeader(i) => Kind(Up(i)) = "class" /\ Kind(i) = "call")'
  BY <1>16
<1>19. \A i \in Nodes' :
         (Kind(Up(i)) \in Wrapping => \A j \in Nodes : Up(j) = Up(i) => j = i)'
  BY <1>15
<1> QED
  BY <1>9, <1>16, <1>17, <1>18, <1>19 DEF EsTree

(* The walk begins with the nodes under the root.                          *)
LEMMA EsBegins ==
  ASSUME EsTree, result = NoResult, EsParsed
  PROVE  EsWalk(stack', result', {}, {}, {}, {})
<1> DEFINE P == {j \in Nodes : Up(j) = 0}
<1>1. stack' = Entries(Sorted(P), 0, NoContext) /\ result' = NoResult
  BY DEF EsParsed, Children
<1>2. /\ IsStack(stack', EsEntry) /\ NodesOf(stack') = P
      /\ \A x \in ToSet(stack') : x.owner = 0 /\ x.context = NoContext
  <2>1. P \in SUBSET Nodes /\ 0 \in Nat
    OBVIOUS
  <2> HIDE DEF P
  <2> QED
    BY <1>1, <2>1, EsEntriesOf
<1>3. ASSUME NEW i \in P
      PROVE  /\ i \in Nodes /\ Up(i) = 0 /\ Kind(Up(i)) = "root" /\ EsScope[i] = 0
             /\ ~EsVariable(i) /\ ~IsWrapper(i) /\ Kind(i) # "arrow"
  <2>1. i \in Nodes /\ Up(i) = 0 /\ Kind(Up(i)) = "root"
    BY DEF Kind
  <2>2. EsScope[i] = 0
    BY <2>1, EsScopeOfChild
  <2>3. ~EsVariable(i) /\ ~IsWrapper(i)
    BY <2>1 DEF EsVariable, IsVariable, IsWrapper
  <2>4. Kind(i) # "arrow"
    <3>1. Kind(i) = "arrow" => Kind(Up(i)) \in Wrapping \cup {"const", "call", "jsx"}
      BY <2>1 DEF EsTree
    <3> QED
      BY <2>1, <3>1 DEF Wrapping
  <2> QED
    BY <2>1, <2>2, <2>3, <2>4
<1>4. EsStacked(stack', {}, {}, {})
  <2>1. \A i \in Nodes : i \in P <=> ~InHeader(i) /\ Up(i) = 0
    <3>1. \A i \in Nodes : Up(i) = 0 => Kind(Up(i)) = "root"
      BY DEF Kind
    <3> QED
      BY <3>1, EsNoHeader
  <2>2. P \subseteq Nodes
    OBVIOUS
  <2> HIDE DEF P
  <2> QED
    BY <1>2, <2>1, <2>2 DEF EsStacked
<1>5. KeptOut(stack', {}, {})
  BY DEF KeptOut
<1>6. EsOwned(stack', result', {})
  <2> SUFFICES ASSUME NEW x \in ToSet(stack') PROVE EsEntryRight(x, result', {})
    BY DEF EsOwned
  <2>1. x.node \in P /\ x.owner = 0 /\ x.context = NoContext
    BY <1>2 DEF NodesOf
  <2>2. ~NoContext.exported
    BY DEF NoContext
  <2> HIDE DEF P
  <2>3. EsCallScope(x.node) = 0
    BY <1>3, <2>1, EsSymbols
  <2> QED
    BY <1>3, <2>1, <2>2, <2>3 DEF EsEntryRight, KeyIs, HasKey
<1>7. /\ result'.symbols = << >> /\ result'.calls = << >> /\ result'.imports = << >>
      /\ result'.exports = << >> /\ result'.truncated = FALSE
      /\ result' = [symbols |-> << >>, calls |-> << >>, imports |-> << >>, exports |-> << >>,
                    truncated |-> FALSE]
  BY <1>1 DEF NoResult
<1>8. result' \in EsResult
  BY <1>7 DEF EsResult
<1>9. EsRecorded(stack', result', {}, {}, {})
  <2>1. \A i \in Nodes : ~Taken1(i, stack', {}, {}, {})
    BY <1>2, <1>3 DEF Taken1
  <2>2. DOMAIN result'.symbols = {}
    BY <1>7
  <2> QED
    BY <2>1, <2>2 DEF EsRecorded, Distinct
<1>10. EsCalled(result', {}, {}) /\ DroppedAtTheLimit(result', {} \cup {})
  BY <1>7 DEF EsCalled, DroppedAtTheLimit, Distinct
<1> QED
  BY <1>4, <1>5, <1>6, <1>8, <1>9, <1>10 DEF EsWalk

\* What the walk leaves: everything is visited unless the file is truncated.
EsVisited(res, V, D, X) ==
  /\ V \subseteq Nodes /\ X \subseteq V /\ EsRecorded(<< >>, res, V, D, X) /\ EsCalled(res, V, X)
  /\ DroppedAtTheLimit(res, D \cup X)
  /\ ~res.truncated => \A i \in Nodes : InHeader(i) \/ i \in V
  /\ 0 \notin DOMAIN res.symbols

(* A walk that is over has visited everything, short of the limit.         *)
LEMMA EsVisitsAll ==
  ASSUME EsTree, NEW V, NEW D, NEW X, EsWalk(<< >>, result, V, D, X, {})
  PROVE  EsVisited(result, V, D, X)
<1> DEFINE N == Len(tree)
           S == {n \in 0..N : \A i \in 1..n : InHeader(i) \/ i \in V}
<1>1. /\ EsStacked(<< >>, V, D, {}) /\ KeptOut(<< >>, V, X) /\ result \in EsResult
      /\ EsRecorded(<< >>, result, V, D, X) /\ EsCalled(result, V, X)
      /\ DroppedAtTheLimit(result, D \cup X)
  BY DEF EsWalk
<1>2. NodesOf(<< >>) = {}
  BY DEF NodesOf, ToSet
<1>3. V \subseteq Nodes /\ X \subseteq V
  BY <1>1, <1>2 DEF EsStacked, KeptOut
<1>4. ASSUME ~result.truncated PROVE \A i \in Nodes : InHeader(i) \/ i \in V
  <2>1. D = {}
    BY <1>1, <1>4 DEF DroppedAtTheLimit
  <2>2. \A i \in Nodes : ~InHeader(i) /\ (Up(i) = 0 \/ Up(i) \in V) => i \in V
    BY <1>1, <1>2, <2>1 DEF EsStacked
  <2>3. /\ N \in Nat /\ Nodes = 1..N
        /\ \A i \in Nodes : Up(i) \in Nat /\ Up(i) < i /\ (Up(i) # 0 => Up(i) \in Nodes)
    BY EsNodes
  <2>4. 0 \in S
    BY <2>3
  <2>5. ASSUME NEW n \in 0..(N - 1), n \in S PROVE n + 1 \in S
    <3>1. n + 1 \in 1..N /\ n + 1 \in 0..N /\ \A i \in 1..(n + 1) : i \in 1..n \/ i = n + 1
      BY <2>3
    <3>0. Up(n + 1) # 0 => ~InHeader(Up(n + 1))
      BY <2>3, <3>1 DEF EsTree
    <3>2. Up(n + 1) = 0 \/ (Up(n + 1) \in 1..n /\ ~InHeader(Up(n + 1)))
      BY <2>3, <3>0, <3>1
    <3>3. InHeader(n + 1) \/ n + 1 \in V
      BY <2>2, <2>3, <2>5, <3>1, <3>2
    <3> QED
      BY <2>5, <3>1, <3>3
  <2>6. \A n \in 0..N : n \in S
    <3> HIDE DEF S
    <3> QED
      BY <2>3, <2>4, <2>5, Climb
  <2>7. N \in S
    <3>1. N \in 0..N
      BY <2>3
    <3> HIDE DEF S
    <3> QED
      BY <2>6, <3>1
  <2> QED
    BY <1>3, <2>3, <2>7
<1>5. 0 \notin DOMAIN result.symbols
  <2>1. result.symbols \in Seq(EsSymbolRecord)
    BY <1>1 DEF EsResult
  <2>2. DOMAIN result.symbols = 1..Len(result.symbols) /\ Len(result.symbols) \in Nat
    BY <2>1, LenProperties
  <2> QED
    BY <2>2
<1> QED
  BY <1>1, <1>3, <1>4, <1>5 DEF EsVisited

(* What the walk leaves stays if the tree is the same.                     *)
LEMMA EsVisitedStays ==
  ASSUME tree' = tree, NEW V, NEW D, NEW X, EsVisited(result', V, D, X)
  PROVE  EsVisited(result, V, D, X)'
<1>1. /\ EsScope' = EsScope
      /\ \A i, n : IsSymbol(i, n)' <=> IsSymbol(i, n)
      /\ \A i, n : IsVariable(i, n)' <=> IsVariable(i, n)
      /\ \A i : IsWrapper(i)' <=> IsWrapper(i)
      /\ \A i : PlaceName(i)' = PlaceName(i)
  BY EsScopeStays
<1>2. \A i : (EsSymbol(i)' <=> EsSymbol(i)) /\ (EsVariable(i)' <=> EsVariable(i))
  BY <1>1 DEF EsSymbol, EsVariable
<1>3. \A i : EsCallScope(i)' = EsCallScope(i)
  BY <1>1 DEF EsCallScope
<1>4. /\ Nodes' = Nodes /\ \A i : Kind(i)' = Kind(i)
      /\ \A i : Up(i)' = Up(i)
  BY DEF Nodes, Kind, Up
<1>5. CallNodes' = CallNodes
  BY <1>1, <1>4 DEF CallNodes, InHeader
<1>6. \A r, i, n : Listed(r, i, n)' <=> Listed(r, i, n)
  BY <1>1, <1>4 DEF Listed
<1>7. EsRecorded(<< >>, result', V, D, X) => EsRecorded(<< >>, result, V, D, X)'
  BY <1>1, <1>2, <1>4, <1>6 DEF EsRecorded, Taken1, KeyIs, HasKey, Distinct, NodesOf, ToSet, Listed, Locals
<1>8. EsCalled(result', V, X) => EsCalled(result, V, X)'
  BY <1>3, <1>5 DEF EsCalled, KeyIs, HasKey, Distinct
<1>9. DroppedAtTheLimit(result', D \cup X) => DroppedAtTheLimit(result, D \cup X)'
  BY DEF DroppedAtTheLimit
<1>10. \A i : InHeader(i)' <=> InHeader(i)
  BY DEF InHeader
<1> QED
  BY <1>4, <1>7, <1>8, <1>9, <1>10 DEF EsVisited

(* The exports mark the symbols that they name.                            *)
LEMMA EsExportedSymbols ==
  ASSUME result \in EsResult, NEW e \in DOMAIN result.exports
  PROVE  LET local == result.exports[e].local
             Named == {k \in DOMAIN result.symbols :
                         result.symbols[k].parent = 0 /\ result.symbols[k].name = local}
         IN /\ ExportedSymbols[e] \subseteq Named
            /\ Named # {} => ExportedSymbols[e] # {}
<1> DEFINE local == result.exports[e].local
           Named == {k \in DOMAIN result.symbols :
                       result.symbols[k].parent = 0 /\ result.symbols[k].name = local}
<1>1. ExportedSymbols[e] = {k \in Named : \A l \in Named : l <= k}
  BY DEF ExportedSymbols
<1>2. PICK n \in Nat : DOMAIN result.symbols = 1..n
  <2>1. result.symbols \in Seq(EsSymbolRecord)
    BY DEF EsResult
  <2> QED
    BY <2>1, LenProperties
<1>3. Named \in SUBSET Nat /\ \A k \in Named : k <= n
  BY <1>2
<1> HIDE DEF Named
<1>4. Named # {} => Max(Named) \in Named /\ \A l \in Named : Max(Named) >= l
  BY <1>3, MaxIsGreatest
<1>5. Named # {} => \E k \in Named : \A l \in Named : l <= k
  BY <1>3, <1>4
<1> QED
  BY <1>1, <1>5 DEF Named

(* Finalize marks the symbols that the exports name.                       *)
LEMMA EsFinalizes ==
  ASSUME EsTree, language = "ecmascript", language' = language, result \in EsResult,
         NEW V, NEW D, NEW X, EsVisited(result, V, D, X), Finalize
  PROVE  EsVisited(result', V, D, X) /\ ExportsAgree'
<1> DEFINE Marks(k) == {e \in DOMAIN result.exports : k \in ExportedSymbols[e]}
           Default(e) == result.exports[e].kind = "default" \/ result.exports[e].name = "default"
           Component(s) == /\ s.kind = "function" /\ s.name \in Capitalised \cup {"default"}
                           /\ s.jsx \/ s.wrapped
           marked == [k \in DOMAIN result.symbols |->
                        [result.symbols[k] EXCEPT
                           !.exported = @ \/ Marks(k) # {},
                           !.default = @ \/ \E e \in Marks(k) : Default(e),
                           !.kind = IF Component(result.symbols[k]) THEN "component" ELSE @]]
<1>1. result' = [result EXCEPT !.symbols = marked] /\ tree' = tree
  BY DEF Finalize
<1>2. /\ result.symbols \in Seq(EsSymbolRecord) /\ Len(result.symbols) \in Nat
      /\ DOMAIN result.symbols = 1..Len(result.symbols)
      /\ \A k \in DOMAIN result.symbols : result.symbols[k] \in EsSymbolRecord
  BY LenProperties, ElementOfSeq DEF EsResult
<1> HIDE DEF Component, Default
<1>3. /\ DOMAIN marked = DOMAIN result.symbols
      /\ \A k \in DOMAIN result.symbols :
           /\ marked[k].node = result.symbols[k].node /\ marked[k].name = result.symbols[k].name
           /\ marked[k].parent = result.symbols[k].parent
           /\ marked[k].exported <=> result.symbols[k].exported \/ Marks(k) # {}
  <2> HIDE DEF Marks
  <2> QED
    BY <1>2 DEF EsSymbolRecord
<1>4. /\ result'.symbols = marked /\ result'.exports = result.exports
      /\ result'.calls = result.calls /\ result'.truncated = result.truncated
  <2> HIDE DEF marked
  <2> QED
    BY <1>1 DEF EsResult
<1> HIDE DEF marked
<1>5. Len(marked) = Len(result.symbols)
  <2>1. \A n \in Nat : DOMAIN marked = 1..n => Len(marked) = n
    OBVIOUS
  <2> QED
    BY <1>2, <1>3, <2>1
<1>6. ASSUME NEW k \in DOMAIN result.symbols, NEW e \in Marks(k)
      PROVE  /\ e \in DOMAIN result.exports /\ result.symbols[k].parent = 0
             /\ result.symbols[k].name = result.exports[e].local
  <2>1. e \in DOMAIN result.exports /\ k \in ExportedSymbols[e]
    OBVIOUS
  <2> HIDE DEF Marks
  <2> QED
    BY <2>1, EsExportedSymbols
<1>7. ASSUME NEW e \in DOMAIN result.exports, NEW k \in DOMAIN result.symbols,
             result.symbols[k].parent = 0, result.symbols[k].name = result.exports[e].local
      PROVE  \E l \in DOMAIN result.symbols :
               /\ result.symbols[l].parent = 0 /\ result.symbols[l].name = result.exports[e].local
               /\ Marks(l) # {}
  <2>1. ExportedSymbols[e] # {}
    BY <1>7, EsExportedSymbols
  <2>2. PICK l : l \in ExportedSymbols[e]
    BY <2>1
  <2>3. /\ l \in DOMAIN result.symbols /\ result.symbols[l].parent = 0
        /\ result.symbols[l].name = result.exports[e].local
    BY <2>2, EsExportedSymbols
  <2>4. Marks(l) # {}
    BY <2>2
  <2> QED
    BY <2>3, <2>4
<1> HIDE DEF Marks
<1>8. Locals(result') = Locals(result)
  BY <1>4 DEF Locals
<1>9. EsRecorded(<< >>, result', V, D, X)
  <2>1. EsRecorded(<< >>, result, V, D, X)
    BY DEF EsVisited
  <2>2. \A i, k : HasKey(result', i, k) <=> HasKey(result, i, k)
    BY <1>3, <1>4 DEF HasKey
  <2>3. ASSUME NEW k \in DOMAIN result'.symbols
        PROVE  LET t == result'.symbols[k] IN
                 /\ t.node \in Nodes /\ t.parent < k /\ KeyIs(result', X, EsScope[t.node], t.parent)
                 /\ t.exported => Listed(result', t.node, t.name)
    <3> DEFINE t == result.symbols[k]
               new == marked[k]
    <3>1. /\ k \in DOMAIN result.symbols /\ result'.symbols[k] = new
          /\ new.node = t.node /\ new.name = t.name /\ new.parent = t.parent
          /\ new.exported <=> t.exported \/ Marks(k) # {}
      BY <1>3, <1>4, <2>3
    <3>2. /\ t.node \in Nodes /\ t.parent < k /\ KeyIs(result, X, EsScope[t.node], t.parent)
          /\ t.exported => Listed(result, t.node, t.name)
      BY <2>1, <3>1 DEF EsRecorded
    <3>3. Marks(k) # {} => t.name \in Locals(result)
      <4>1. ASSUME NEW e \in Marks(k) PROVE t.name \in Locals(result)
        <5>1. e \in DOMAIN result.exports /\ t.name = result.exports[e].local
          BY <1>6, <3>1
        <5> QED
          BY <5>1 DEF Locals, ToSet
      <4> QED
        BY <4>1
    <3> HIDE DEF t, new
    <3>4. new.exported => Listed(result', new.node, new.name)
      BY <1>8, <3>1, <3>2, <3>3 DEF Listed
    <3>5. KeyIs(result', X, EsScope[new.node], new.parent)
      BY <2>2, <3>1, <3>2 DEF KeyIs
    <3> QED
      BY <3>1, <3>2, <3>4, <3>5
  <2>4. Distinct(result'.symbols)
    BY <1>3, <1>4, <2>1 DEF EsRecorded, Distinct
  <2>5. \A i \in Nodes : (\E k \in DOMAIN result'.symbols : result'.symbols[k].node = i)
                           <=> EsSymbol(i) /\ Taken1(i, << >>, V, D, X)
    <3>1. \A i : (\E k \in DOMAIN result'.symbols : result'.symbols[k].node = i)
                   <=> \E k \in DOMAIN result.symbols : result.symbols[k].node = i
      BY <1>3, <1>4
    <3> QED
      BY <2>1, <3>1 DEF EsRecorded
  <2> QED
    BY <2>3, <2>4, <2>5 DEF EsRecorded
<1>10. EsCalled(result', V, X)
  <2>1. EsCalled(result, V, X)
    BY DEF EsVisited
  <2>2. \A i, k : HasKey(result, i, k) => HasKey(result', i, k)
    BY <1>3, <1>4 DEF HasKey
  <2> QED
    BY <1>4, <2>1, <2>2 DEF EsCalled, KeyIs
<1>11. EsVisited(result', V, D, X)
  <2>1. DroppedAtTheLimit(result', D \cup X)
    BY <1>4, <1>5 DEF EsVisited, DroppedAtTheLimit
  <2>2. DOMAIN result'.symbols = DOMAIN result.symbols
    BY <1>3, <1>4
  <2> QED
    BY <1>4, <1>9, <1>10, <2>1, <2>2 DEF EsVisited
<1>12. ExportsAgree'
  <2>1. ASSUME NEW t PROVE t \in ModuleSymbols' <=> \E k \in DOMAIN result.symbols : t = marked[k] /\ marked[k].parent = 0
    BY <1>3, <1>4 DEF ModuleSymbols, ToSet
  <2>2. \A t : HasTwoNames(t)' <=> Kind(t.node) = "class" /\ PlaceName(t.node) \notin {"", t.name}
    <3>1. (\A i : PlaceName(i)' = PlaceName(i)) /\ \A i : Kind(i)' = Kind(i)
      BY <1>1, EsScopeStays DEF Kind
    <3> QED
      BY <3>1 DEF HasTwoNames
  <2>3. ASSUME NEW s \in ModuleSymbols', ~\E t \in ModuleSymbols' : t.name = s.name /\ HasTwoNames(t)'
        PROVE  (\E e \in ToSet(result'.exports) : e.local = s.name)
                 <=> \E t \in ModuleSymbols' : t.name = s.name /\ t.exported
    <3>1. ASSUME NEW t \in ModuleSymbols', t.name = s.name, t.exported
          PROVE  \E e \in ToSet(result'.exports) : e.local = s.name
      <4>1. PICK k \in DOMAIN result.symbols : t = marked[k] /\ marked[k].parent = 0
        BY <2>1
      <4>2. Listed(result', t.node, t.name)
        <5>1. k \in DOMAIN result'.symbols /\ result'.symbols[k] = t
          BY <1>3, <1>4, <4>1
        <5> QED
          BY <1>9, <3>1, <5>1 DEF EsRecorded
      <4>3. t.name \in Locals(result')
        BY <2>2, <2>3, <3>1, <4>2 DEF Listed
      <4> QED
        BY <3>1, <4>3 DEF Locals
    <3>2. ASSUME NEW e \in ToSet(result'.exports), e.local = s.name
          PROVE  \E t \in ModuleSymbols' : t.name = s.name /\ t.exported
      <4>1. PICK k \in DOMAIN result.symbols : s = marked[k] /\ marked[k].parent = 0
        BY <2>1
      <4>2. PICK m \in DOMAIN result.exports : e = result.exports[m]
        BY <1>4 DEF ToSet
      <4>3. result.symbols[k].parent = 0 /\ result.symbols[k].name = result.exports[m].local
        BY <1>3, <3>2, <4>1, <4>2
      <4>4. PICK l \in DOMAIN result.symbols :
              /\ result.symbols[l].parent = 0 /\ result.symbols[l].name = result.exports[m].local
              /\ Marks(l) # {}
        BY <1>7, <4>3
      <4>5. marked[l].parent = 0 /\ marked[l].name = s.name /\ marked[l].exported
        BY <1>3, <4>1, <4>3, <4>4
      <4>6. marked[l] \in ModuleSymbols'
        BY <2>1, <4>5
      <4> QED
        BY <4>5, <4>6
    <3> QED
      BY <3>1, <3>2
  <2> QED
    BY <2>3 DEF ExportsAgree
<1> QED
  BY <1>11, <1>12

-----------------------------------------------------------------------------
(* ECMAScript: the whole analysis.                                         *)

EsInv ==
  language = "ecmascript" =>
    /\ EsTree /\ stage \in {"parse", "walk", "done"}
    /\ stage = "parse" => stack = << >> /\ result = NoResult
    /\ stage = "walk" => TreeIsComplete /\ \E V, D, X : EsWalk(stack, result, V, D, X, {})
    /\ stage = "done" => ExportsAgree /\ \E V, D, X : EsVisited(result, V, D, X)

(* What was visited is what the scopes say.                                *)
LEMMA EsScopesAreRight ==
  ASSUME EsInv, language = "ecmascript"
  PROVE  ScopesAreRight
<1> SUFFICES ASSUME stage = "done" PROVE ScopesAreRight
  BY DEF ScopesAreRight
<1>1. EsTree /\ \E V, D, X : EsVisited(result, V, D, X)
  BY DEF EsInv
<1>2. PICK V, D, X : EsVisited(result, V, D, X)
  BY <1>1
<1>3. /\ V \subseteq Nodes /\ EsRecorded(<< >>, result, V, D, X) /\ EsCalled(result, V, X)
      /\ DroppedAtTheLimit(result, D \cup X)
      /\ ~result.truncated => \A i \in Nodes : InHeader(i) \/ i \in V
  BY <1>2 DEF EsVisited
<1>4. 0 \notin Nodes
  BY <1>1, EsNodes
<1>5. Recorded = {result.symbols[k].node : k \in DOMAIN result.symbols}
  BY DEF Recorded, ToSet
<1>6. \A i \in X : i \notin Recorded
  <2>1. \A i \in Recorded : i \in Nodes /\ i \notin X
    BY <1>3, <1>5 DEF EsRecorded, Taken1
  <2> QED
    BY <2>1
<1>7. ASSUME NEW i, NEW k, KeyIs(result, X, i, k) PROVE KeyOf(i) = k
  <2>1. CASE k = 0 /\ i \in X
    BY <1>6, <2>1 DEF KeyOf
  <2>2. CASE HasKey(result, i, k) /\ k = 0
    <3>1. i = 0 /\ \A l \in DOMAIN result.symbols : result.symbols[l].node \in Nodes
      BY <1>3, <2>2 DEF HasKey, EsRecorded
    <3>2. i \notin Recorded
      BY <1>4, <1>5, <3>1
    <3> QED
      BY <2>2, <3>2 DEF KeyOf
  <2>3. CASE HasKey(result, i, k) /\ k # 0
    <3>1. k \in DOMAIN result.symbols /\ result.symbols[k].node = i
      BY <2>3 DEF HasKey
    <3>2. \A l \in DOMAIN result.symbols : result.symbols[l].node = i => l = k
      BY <1>3, <3>1 DEF EsRecorded, Distinct
    <3>3. i \in Recorded
      BY <1>5, <3>1
    <3> QED
      BY <3>1, <3>2, <3>3 DEF KeyOf
  <2> QED
    BY <1>7, <2>1, <2>2, <2>3 DEF KeyIs
<1>8. /\ \A i : IsSymbolOf(i) <=> EsSymbol(i)
      /\ \A i : Scope(i) = EsScope[i] /\ CallScope(i) = EsCallScope(i)
  BY DEF IsSymbolOf, EsSymbol, Scope, CallScope
<1>9. ASSUME NEW k \in DOMAIN result.symbols
      PROVE  LET s == result.symbols[k] IN
               /\ IsSymbolOf(s.node) /\ KeyOf(s.node) = k
               /\ s.parent = KeyOf(Scope(s.node)) /\ s.parent < k
  <2> DEFINE s == result.symbols[k]
  <2>1. s.node \in Nodes /\ s.parent < k /\ KeyIs(result, X, EsScope[s.node], s.parent)
    BY <1>3 DEF EsRecorded
  <2>2. EsSymbol(s.node)
    BY <1>3, <2>1 DEF EsRecorded
  <2>3. KeyIs(result, X, s.node, k)
    <3>1. k # 0
      BY <1>2 DEF EsVisited
    <3> QED
      BY <3>1 DEF HasKey, KeyIs
  <2> QED
    BY <1>7, <1>8, <2>1, <2>2, <2>3
<1>10. ASSUME NEW c \in ToSet(result.calls)
       PROVE  c.node \in CallNodes /\ c.caller = KeyOf(CallScope(c.node))
  <2>1. PICK n \in DOMAIN result.calls : c = result.calls[n]
    BY DEF ToSet
  <2>2. c.node \in CallNodes /\ KeyIs(result, X, EsCallScope(c.node), c.caller)
    BY <1>3, <2>1 DEF EsCalled
  <2> QED
    BY <1>7, <1>8, <2>2
<1>11. CASE result.truncated
  <2>1. SymbolsFull
    BY <1>3, <1>11 DEF DroppedAtTheLimit, SymbolsFull
  <2> QED
    BY <1>9, <1>10, <1>11, <2>1 DEF ScopesAreRight
<1>12. CASE ~result.truncated
  <2>1. /\ D = {} /\ X = {}
        /\ \A i \in Nodes : InHeader(i) \/ i \in V
    BY <1>3, <1>12 DEF DroppedAtTheLimit
  <2>2. \A i \in Nodes : IsSymbolOf(i) => i \in Recorded
    <3>1. ASSUME NEW i \in Nodes, EsSymbol(i) PROVE ~InHeader(i)
      <4>1. InHeader(i) => Kind(i) = "call" /\ Kind(Up(i)) = "class"
        BY <1>1 DEF EsTree
      <4>2. Kind(i) = "call" => EsVariable(i) /\ Kind(Up(i)) = "const"
        BY <1>1, <3>1, EsSymbols
      <4> QED
        BY <4>1, <4>2
    <3> QED
      BY <1>3, <1>5, <1>8, <2>1, <3>1 DEF EsRecorded, Taken1
  <2>3. ASSUME NEW i \in CallNodes
        PROVE  Cardinality({n \in DOMAIN result.calls : result.calls[n].node = i}) = 1
    <3>1. i \in V
      BY <2>1 DEF CallNodes
    <3>2. PICK n \in DOMAIN result.calls : result.calls[n].node = i
      BY <1>3, <2>1, <3>1 DEF EsCalled
    <3>3. \A m \in DOMAIN result.calls : result.calls[m].node = i => m = n
      BY <1>3, <3>2 DEF EsCalled, Distinct
    <3>4. {m \in DOMAIN result.calls : result.calls[m].node = i} = {n}
      BY <3>2, <3>3
    <3> QED
      BY <3>4, FS_Singleton
  <2> QED
    BY <1>9, <1>10, <1>12, <2>2, <2>3 DEF ScopesAreRight
<1> QED
  BY <1>11, <1>12

(* Every step of the analysis keeps the invariant.                         *)
LEMMA EsStep ==
  ASSUME EsInv, [ExtractionNext]_extractionVars
  PROVE  EsInv'
<1> SUFFICES ASSUME language' = "ecmascript" PROVE EsInv'
  BY DEF EsInv
<1>1. language = "ecmascript" /\ language' = language
  BY DEF ExtractionNext, extractionVars
<1>2. /\ EsTree /\ stage \in {"parse", "walk", "done"}
      /\ stage = "parse" => stack = << >> /\ result = NoResult
      /\ stage = "walk" => TreeIsComplete /\ \E V, D, X : EsWalk(stack, result, V, D, X, {})
      /\ stage = "done" => ExportsAgree /\ \E V, D, X : EsVisited(result, V, D, X)
  BY <1>1 DEF EsInv
<1>3. CASE EsGrows
  <2>1. stage = "parse" /\ UNCHANGED <<stack, result, stage>>
    BY <1>3 DEF EsGrows, Grows
  <2>2. EsTree'
    BY <1>2, <1>3, EsTreeGrows
  <2> QED
    BY <1>2, <2>1, <2>2 DEF EsInv
<1>4. ASSUME tree' = tree PROVE EsTree' /\ (TreeIsComplete => TreeIsComplete')
  <2>1. Nodes' = Nodes /\ (\A i : Kind(i)' = Kind(i)) /\ \A i : Up(i)' = Up(i)
    BY <1>4 DEF Nodes, Kind, Up
  <2>2. \A i : Children(i)' = Children(i)
    BY <2>1 DEF Children, Sorted
  <2>3. TreeIsComplete => TreeIsComplete'
    BY <2>1, <2>2 DEF TreeIsComplete
  <2>4. EsTree'
    BY <1>2, <1>4, EsTreeStays
  <2> QED
    BY <2>3, <2>4
<1>5. CASE EsParsed
  <2>1. stage = "parse" /\ stage' = "walk" /\ tree' = tree /\ TreeIsComplete
    BY <1>5 DEF EsParsed
  <2>2. EsWalk(stack', result', {}, {}, {}, {})
    BY <1>2, <1>5, <2>1, EsBegins
  <2>3. EsWalk(stack, result, {}, {}, {}, {})'
    BY <2>1, <2>2, EsWalkStays
  <2> QED
    BY <1>4, <2>1, <2>3 DEF EsInv
<1>6. CASE EsVisit
  <2>1. stage = "walk" /\ stage' = "walk" /\ tree' = tree /\ stack # << >>
    BY <1>6 DEF EsVisit
  <2>2. TreeIsComplete /\ \E V, D, X : EsWalk(stack, result, V, D, X, {})
    BY <1>2, <2>1
  <2>3. PICK V, D, X : EsWalk(stack, result, V, D, X, {})
    BY <2>2
  <2>4. \E W, E, Y : EsWalk(stack', result', W, E, Y, {})
    BY <1>2, <1>6, <2>1, <2>2, <2>3, EsVisitStep
  <2>5. PICK W, E, Y : EsWalk(stack', result', W, E, Y, {})
    BY <2>4
  <2>6. EsWalk(stack, result, W, E, Y, {})'
    BY <2>1, <2>5, EsWalkStays
  <2> QED
    BY <1>4, <2>1, <2>2, <2>6 DEF EsInv
<1>7. CASE Finalize
  <2>1. stage = "walk" /\ stage' = "done" /\ tree' = tree /\ stack = << >>
    BY <1>7 DEF Finalize
  <2>2. PICK V, D, X : EsWalk(stack, result, V, D, X, {})
    BY <1>2, <2>1
  <2>3. EsVisited(result, V, D, X) /\ result \in EsResult
    <3>1. EsWalk(<< >>, result, V, D, X, {})
      BY <2>1, <2>2
    <3>2. EsVisited(result, V, D, X)
      BY <1>2, <3>1, EsVisitsAll
    <3> QED
      BY <3>1, <3>2 DEF EsWalk
  <2>4. EsVisited(result', V, D, X) /\ ExportsAgree'
    BY <1>1, <1>2, <1>7, <2>3, EsFinalizes
  <2>5. EsVisited(result, V, D, X)'
    BY <2>1, <2>4, EsVisitedStays
  <2> QED
    BY <1>4, <2>1, <2>4, <2>5 DEF EsInv
<1>8. CASE UNCHANGED extractionVars
  <2>1. tree' = tree /\ stack' = stack /\ result' = result /\ stage' = stage
    BY <1>8 DEF extractionVars, analysisVars
  <2>2. CASE stage = "walk"
    <3>1. TreeIsComplete /\ \E V, D, X : EsWalk(stack, result, V, D, X, {})
      BY <1>2, <2>2
    <3>2. PICK V, D, X : EsWalk(stack, result, V, D, X, {})
      BY <3>1
    <3>3. EsWalk(stack, result, V, D, X, {})'
      <4>1. EsWalk(stack', result', V, D, X, {})
        BY <2>1, <3>2
      <4> QED
        BY <2>1, <4>1, EsWalkStays
    <3> QED
      BY <1>4, <2>1, <2>2, <3>1, <3>3 DEF EsInv
  <2>3. CASE stage = "done"
    <3>1. PICK V, D, X : EsVisited(result, V, D, X)
      BY <1>2, <2>3
    <3>2. EsVisited(result, V, D, X)'
      <4>1. EsVisited(result', V, D, X)
        BY <2>1, <3>1
      <4> QED
        BY <2>1, <4>1, EsVisitedStays
    <3>3. ExportsAgree'
      <4>1. (\A i : PlaceName(i)' = PlaceName(i)) /\ \A i : Kind(i)' = Kind(i)
        BY <2>1, EsScopeStays DEF Kind
      <4>2. \A t : HasTwoNames(t)' <=> HasTwoNames(t)
        BY <1>1, <4>1 DEF HasTwoNames
      <4> QED
        BY <1>2, <2>1, <2>3, <4>2 DEF ExportsAgree, ModuleSymbols
    <3> QED
      BY <1>4, <2>1, <2>3, <3>2, <3>3 DEF EsInv
  <2>4. CASE stage = "parse"
    BY <1>2, <1>4, <2>1, <2>4 DEF EsInv
  <2> QED
    BY <1>2, <2>2, <2>3, <2>4
<1> QED
  BY <1>1, <1>3, <1>5, <1>6, <1>7, <1>8 DEF ExtractionNext, EsNext

-----------------------------------------------------------------------------
(* Both languages.                                                         *)

ExtractionInv == language \in {"python", "ecmascript"} /\ PyInv /\ EsInv

(* The invariant of the analysis, which holds for both languages.          *)
LEMMA ExtractionInvariant == ExtractionSpec => []ExtractionInv
<1>1. ExtractionInit => ExtractionInv
  BY DEF ExtractionInit, AnalysisInit, ExtractionInv, PyInv, PyTree, EsInv, EsTree, Nodes
<1>2. ExtractionInv /\ [ExtractionNext]_extractionVars => ExtractionInv'
  <2> SUFFICES ASSUME ExtractionInv, [ExtractionNext]_extractionVars PROVE ExtractionInv'
    OBVIOUS
  <2>1. PyInv'
    BY PyStep DEF ExtractionInv
  <2>2. EsInv'
    BY EsStep DEF ExtractionInv
  <2>3. language' = language
    BY DEF ExtractionNext, extractionVars
  <2> QED
    BY <2>1, <2>2, <2>3 DEF ExtractionInv
<1> QED
  BY <1>1, <1>2, PTL DEF ExtractionSpec

(* Every symbol has the parent and every call the caller that the scopes   *)
(* of its language give it, and parents come first; exactly the            *)
(* definitions and the CallNodes (calls of a name outside a header and     *)
(* components) are taken, each once, unless the file is truncated, which   *)
(* it is only at the limit: for any tree of any such nodes and for any     *)
(* limit (python.py:73-163, 345-351, ecmascript.py:132-350, 652-690).      *)
THEOREM ScopesAreRightAlways == ExtractionSpec => []ScopesAreRight
<1>1. ExtractionInv => ScopesAreRight
  BY PyScopesAreRight, EsScopesAreRight DEF ExtractionInv
<1> QED
  BY <1>1, ExtractionInvariant, PTL

(* A symbol of the module is marked as exported if and only if the list of *)
(* exports has an entry for its name, class expressions with a second name *)
(* apart (python.py:368-391, ecmascript.py:473-643, 858-875).              *)
THEOREM ExportsAgreeAlways == ExtractionSpec => []ExportsAgree
<1>1. ExtractionInv => ExportsAgree
  BY DEF ExtractionInv, PyInv, EsInv, ExportsAgree
<1> QED
  BY <1>1, ExtractionInvariant, PTL

=============================================================================
