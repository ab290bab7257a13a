--------------------------- MODULE AnalysisProofs ----------------------------
(***************************************************************************)
(* Proofs about DependencyGraph, for every project, every set of names and *)
(* every limit on re-exports, and about ImportResolver, for every checkout *)
(* and every limit on the configurations that extend one another.          *)
(*                                                                         *)
(* The lookups of the graph are searches of a limited depth; what such a   *)
(* search finds is proved once (DepthFirstFinds).  The edges are right at  *)
(* the end because, at each step, they are those of the references so far, *)
(* each counted (GraphInv).  A tsconfig is loaded as it is written because *)
(* those being loaded form one chain of parents, short enough that no      *)
(* limit cuts it (LoadingInv).                                             *)
(***************************************************************************)
EXTENDS DependencyGraph, ImportResolver, DataLemmas

-----------------------------------------------------------------------------
(* FirstFound and DepthFirst.                                              *)

(* The first thing found is one of them, unless all are none.              *)
LEMMA FirstFoundFacts ==
  ASSUME NEW n \in Nat, NEW R, NEW s \in [1..n -> R], None \in R
  PROVE  /\ FirstFound(s) \in R
         /\ FirstFound(s) = None <=> \A k \in 1..n : s[k] = None
         /\ FirstFound(s) # None =>
              \E k \in 1..n : s[k] = FirstFound(s) /\ \A m \in 1..(k - 1) : s[m] = None
<1> DEFINE some == {k \in DOMAIN s : s[k] # None}
<1>1. FirstFound(s) = IF some = {} THEN None ELSE s[Min(some)]
  BY DEF FirstFound
<1>2. some # {} => Min(some) \in some /\ \A m \in some : Min(some) <= m
  <2>1. some \in SUBSET Nat
    OBVIOUS
  <2> QED
    BY <2>1, MinIsLeast
<1>3. DOMAIN s = 1..n
  OBVIOUS
<1>4. CASE some = {}
  BY <1>1, <1>3, <1>4
<1>5. CASE some # {}
  <2> DEFINE k == Min(some)
  <2>1. k \in 1..n /\ s[k] # None /\ FirstFound(s) = s[k]
    BY <1>1, <1>2, <1>3, <1>5
  <2>2. \A m \in 1..(k - 1) : s[m] = None
    <3>1. \A m \in some : k <= m
      BY <1>2, <1>5
    <3>2. \A m \in 1..(k - 1) : m \in 1..n /\ ~(k <= m)
      BY <2>1
    <3> HIDE DEF k
    <3> QED
      BY <1>3, <3>1, <3>2
  <2> HIDE DEF k, some
  <2> QED
    BY <2>1, <2>2
<1> QED
  BY <1>4, <1>5

\* The first thing that a level of the search has for the places next to x.
FoundNext(next, level, x) == FirstFound([n \in DOMAIN next[x] |-> level[next[x][n]]])

LevelAt(own, next, level, x) == IF own[x] # None THEN own[x] ELSE FoundNext(next, level, x)

(* What DepthFirst computes at each depth.                                 *)
LEMMA DepthFirstUnfolds ==
  ASSUME NEW X, NEW R, None \in R, NEW own \in [X -> R],
         NEW next, \A x \in X : next[x] \in Seq(X)
  PROVE  \E h : /\ DepthFirst(own, next) = h[MaxReexportDepth]
                /\ \A x \in X : h[0][x] = own[x]
                /\ \A d \in 1..MaxReexportDepth, x \in X :
                     h[d][x] = LevelAt(own, next, h[d - 1], x)
<1> DEFINE D == 0..MaxReexportDepth
           V == [X -> R]
           Level(f) == [x \in X |-> IF own[x] # None THEN own[x] ELSE FoundNext(next, f, x)]
           F == [f \in V |-> Level(f)]
           Solves(h) ==
             h = [depth \in 0..MaxReexportDepth |->
                    [x \in DOMAIN own |->
                       IF own[x] # None \/ depth = 0 THEN own[x]
                       ELSE FirstFound([n \in DOMAIN next[x] |-> h[depth - 1][next[x][n]]])]]
<1>1. MaxReexportDepth \in Nat
  BY GraphAssumption
<1>2. \A f \in V, x \in X : FoundNext(next, f, x) \in R
  <2>1. SUFFICES ASSUME NEW f \in V, NEW x \in X PROVE FoundNext(next, f, x) \in R
    OBVIOUS
  <2>2. DOMAIN next[x] = 1..Len(next[x]) /\ Len(next[x]) \in Nat
    BY LenProperties
  <2>3. [n \in DOMAIN next[x] |-> f[next[x][n]]] \in [1..Len(next[x]) -> R]
    <3>1. \A n \in DOMAIN next[x] : next[x][n] \in X
      BY <2>2, ElementOfSeq
    <3> QED
      BY <2>2, <3>1
  <2> QED
    BY <2>2, <2>3, FirstFoundFacts DEF FoundNext
<1>3. F \in [V -> V]
  BY <1>2
<1>4. PICK g \in [D -> V] : g[0] = own /\ \A d \in 1..MaxReexportDepth : g[d] = F[g[d - 1]]
  <2> HIDE DEF F, V
  <2>1. own \in V
    BY DEF V
  <2>2. \E g \in [0..MaxReexportDepth -> V] :
          g[0] = own /\ \A n \in 1..MaxReexportDepth : g[n] = F[g[n - 1]]
    <3>1. Iterates(V, own, F, MaxReexportDepth)
      BY <1>1, <1>3, <2>1, Iteration
    <3> QED
      BY <3>1 DEF Iterates
  <2> QED
    BY <2>2
<1>5. Solves(g)
  <2> DEFINE E(d) == [x \in DOMAIN own |->
                       IF own[x] # None \/ d = 0 THEN own[x] ELSE FoundNext(next, g[d - 1], x)]
  <2>1. ASSUME NEW d \in D PROVE g[d] = E(d)
    <3>1. CASE d = 0
      BY <1>4, <3>1
    <3>2. CASE d # 0
      <4>1. d \in 1..MaxReexportDepth /\ g[d - 1] \in V
        BY <1>1, <1>4, <3>2
      <4>2. g[d] = Level(g[d - 1])
        BY <1>4, <4>1
      <4>3. Level(g[d - 1]) = E(d)
        BY <3>2 DEF FoundNext
      <4> QED
        BY <4>2, <4>3
    <3> QED
      BY <3>1, <3>2
  <2>2. g = [d \in D |-> E(d)]
    <3> HIDE DEF E
    <3> QED
      BY <2>1
  <2> QED
    BY <2>2 DEF FoundNext
<1> DEFINE h == CHOOSE f : Solves(f)
<1>6. Solves(h)
  <2> HIDE DEF Solves
  <2> QED
    BY <1>5
<1>7. DepthFirst(own, next) = h[MaxReexportDepth]
  BY DEF DepthFirst
<1> HIDE DEF h
<1>8. h = [d \in D |-> [x \in X |-> IF own[x] # None \/ d = 0 THEN own[x]
                                   ELSE FoundNext(next, h[d - 1], x)]]
  BY <1>6 DEF FoundNext
<1>9. \A d \in D, x \in X :
        h[d][x] = IF own[x] # None \/ d = 0 THEN own[x] ELSE FoundNext(next, h[d - 1], x)
  <2> DEFINE E(d) == [x \in X |-> IF own[x] # None \/ d = 0 THEN own[x]
                                 ELSE FoundNext(next, h[d - 1], x)]
  <2>1. \A d \in D : h[d] = E(d)
    <3>1. h = [d \in D |-> E(d)]
      BY <1>8
    <3> HIDE DEF E
    <3> QED
      BY <3>1
  <2> QED
    BY <2>1
<1>10. \A x \in X : h[0][x] = own[x]
  BY <1>1, <1>9
<1>11. \A d \in 1..MaxReexportDepth, x \in X :
         h[d][x] = LevelAt(own, next, h[d - 1], x)
  BY <1>1, <1>9 DEF LevelAt
<1> QED
  BY <1>7, <1>10, <1>11

-----------------------------------------------------------------------------
(* Within, and what DepthFirst finds.                                      *)

\* What is next to one of the places Y.
Beside(next, Y) == UNION {ToSet(next[y]) : y \in Y}

\* W tells what can be reached from each place in so many steps.
IsReach(W, X, next) ==
  /\ W \in [0..MaxReexportDepth -> [X -> SUBSET X]]
  /\ \A x \in X : W[0][x] = {x}
  /\ \A d \in 1..MaxReexportDepth, x \in X : W[d][x] = W[d - 1][x] \cup Beside(next, W[d - 1][x])

(* What is next to places are places.                                      *)
LEMMA BesideIsIn ==
  ASSUME NEW X, NEW next, \A x \in X : next[x] \in Seq(X), NEW Y \in SUBSET X
  PROVE  Beside(next, Y) \in SUBSET X
<1>1. ASSUME NEW y \in Y PROVE ToSet(next[y]) \subseteq X
  <2>1. next[y] \in Seq(X)
    OBVIOUS
  <2> QED
    BY <2>1, LenProperties, ElementOfSeq DEF ToSet
<1> QED
  BY <1>1 DEF Beside

(* There is such a function.                                               *)
LEMMA ReachExists ==
  ASSUME NEW X, NEW next, \A x \in X : next[x] \in Seq(X)
  PROVE  \E W : IsReach(W, X, next)
<1> DEFINE V == [X -> SUBSET X]
           F == [w \in V |-> [x \in X |-> w[x] \cup Beside(next, w[x])]]
           b == [x \in X |-> {x}]
<1>1. b \in V /\ MaxReexportDepth \in Nat
  BY GraphAssumption
<1>2. F \in [V -> V]
  <2>1. \A w \in V, x \in X : w[x] \cup Beside(next, w[x]) \in SUBSET X
    BY BesideIsIn
  <2> QED
    BY <2>1
<1>3. Iterates(V, b, F, MaxReexportDepth)
  <2> HIDE DEF V, F, b
  <2> QED
    BY <1>1, <1>2, Iteration
<1>4. PICK W \in [0..MaxReexportDepth -> V] :
        W[0] = b /\ \A d \in 1..MaxReexportDepth : W[d] = F[W[d - 1]]
  BY <1>3 DEF Iterates
<1>5. \A x \in X : W[0][x] = {x}
  BY <1>4
<1>6. ASSUME NEW d \in 1..MaxReexportDepth, NEW x \in X
      PROVE  W[d][x] = W[d - 1][x] \cup Beside(next, W[d - 1][x])
  <2> DEFINE w == W[d - 1]
  <2>1. w \in V
    BY <1>1, <1>4
  <2>2. W[d] = F[w]
    BY <1>4
  <2> HIDE DEF w
  <2>3. F[w] = [y \in X |-> w[y] \cup Beside(next, w[y])]
    BY <2>1
  <2>4. F[w][x] = w[x] \cup Beside(next, w[x])
    BY <2>3
  <2> QED
    BY <2>2, <2>4 DEF w
<1>7. W \in [0..MaxReexportDepth -> [X -> SUBSET X]]
  BY <1>4
<1> HIDE DEF V, F, b
<1> QED
  BY <1>5, <1>6, <1>7 DEF IsReach

(* It is what Reached computes.                                            *)
LEMMA ReachedIsReach ==
  ASSUME NEW X, NEW next, \A x \in X : next[x] \in Seq(X), NEW W, IsReach(W, X, next), NEW x \in X
  PROVE  \A d \in 0..MaxReexportDepth : Reached(next, x)[d] = W[d][x]
<1> DEFINE D == 0..MaxReexportDepth
           Solves(h) ==
             h = [steps \in 0..MaxReexportDepth |->
                    IF steps = 0 THEN {x}
                    ELSE h[steps - 1] \cup UNION {ToSet(next[y]) : y \in h[steps - 1]}]
           g == [d \in D |-> W[d][x]]
           h == CHOOSE f : Solves(f)
<1>1. MaxReexportDepth \in Nat
  BY GraphAssumption
<1>2. Solves(g)
  <2> DEFINE E(d) == IF d = 0 THEN {x} ELSE g[d - 1] \cup Beside(next, g[d - 1])
  <2>1. ASSUME NEW d \in D PROVE W[d][x] = E(d)
    <3>1. CASE d = 0
      BY <3>1 DEF IsReach
    <3>2. CASE d # 0
      <4>1. d \in 1..MaxReexportDepth /\ d - 1 \in D
        BY <1>1, <3>2
      <4>2. W[d][x] = W[d - 1][x] \cup Beside(next, W[d - 1][x])
        BY <4>1 DEF IsReach
      <4>3. g[d - 1] = W[d - 1][x]
        BY <4>1
      <4> QED
        BY <3>2, <4>2, <4>3
    <3> QED
      BY <3>1, <3>2
  <2>2. g = [d \in D |-> E(d)]
    BY <2>1
  <2> QED
    BY <2>2 DEF Beside
<1>3. Solves(h)
  <2> HIDE DEF Solves
  <2> QED
    BY <1>2
<1>4. Reached(next, x) = h
  BY DEF Reached
<1> HIDE DEF h, g
<1>5. h[0] = {x} /\ \A d \in 1..MaxReexportDepth : h[d] = h[d - 1] \cup Beside(next, h[d - 1])
  <2> DEFINE E(d) == IF d = 0 THEN {x} ELSE h[d - 1] \cup Beside(next, h[d - 1])
  <2>1. h = [d \in D |-> E(d)]
    BY <1>3 DEF Beside
  <2> HIDE DEF E
  <2>2. \A d \in D : h[d] = E(d)
    BY <2>1
  <2>3. E(0) = {x} /\ \A d \in 1..MaxReexportDepth : E(d) = h[d - 1] \cup Beside(next, h[d - 1])
    BY <1>1 DEF E
  <2> QED
    BY <1>1, <2>2, <2>3
<1> DEFINE S == {d \in D : h[d] = W[d][x]}
<1>6. 0 \in S
  <2>1. 0 \in D /\ h[0] = {x}
    BY <1>1, <1>5
  <2>2. W[0][x] = {x}
    BY DEF IsReach
  <2> QED
    BY <2>1, <2>2
<1>7. ASSUME NEW d \in 0..(MaxReexportDepth - 1), d \in S PROVE d + 1 \in S
  <2>1. d + 1 \in 1..MaxReexportDepth /\ d + 1 \in D /\ d + 1 # 0 /\ (d + 1) - 1 = d
    BY <1>1
  <2>2. W[d + 1][x] = W[d][x] \cup Beside(next, W[d][x])
    BY <2>1 DEF IsReach
  <2>3. h[d + 1] = h[d] \cup Beside(next, h[d])
    BY <1>5, <2>1
  <2> QED
    BY <1>7, <2>1, <2>2, <2>3
<1> HIDE DEF S
<1>8. \A d \in 0..MaxReexportDepth : d \in S
  BY <1>1, <1>6, <1>7, Climb
<1> QED
  BY <1>4, <1>8 DEF S

(* So it is what Within computes.                                          *)
LEMMA WithinIsReach ==
  ASSUME NEW X, NEW next, \A x \in X : next[x] \in Seq(X), NEW W, IsReach(W, X, next), NEW x \in X
  PROVE  Within(next, x) = W[MaxReexportDepth][x]
<1>1. MaxReexportDepth \in 0..MaxReexportDepth
  BY GraphAssumption
<1>2. Reached(next, x)[MaxReexportDepth] = W[MaxReexportDepth][x]
  BY <1>1, ReachedIsReach
<1> QED
  BY <1>2 DEF Within

\* The places that can be reached from x, by its first step.
FirstStep(reach, next, x) == {x} \cup UNION {reach[z] : z \in ToSet(next[x])}

(* The first step can be taken first.                                      *)
LEMMA ReachUnfolds ==
  ASSUME NEW X, NEW next, \A x \in X : next[x] \in Seq(X), NEW W, IsReach(W, X, next),
         NEW d \in 1..MaxReexportDepth, NEW x \in X
  PROVE  W[d][x] = FirstStep(W[d - 1], next, x)
<1> DEFINE Through(n, y) == UNION {W[n][z] : z \in ToSet(next[y])}
           S == {n \in 0..(MaxReexportDepth - 1) : \A y \in X : W[n + 1][y] = {y} \cup Through(n, y)}
<1>1. MaxReexportDepth \in Nat
  BY GraphAssumption
<1>2. \A y \in X : ToSet(next[y]) \subseteq X
  <2>1. SUFFICES ASSUME NEW y \in X PROVE ToSet(next[y]) \subseteq X
    OBVIOUS
  <2>2. Beside(next, {y}) \in SUBSET X
    BY BesideIsIn
  <2> QED
    BY <2>2 DEF Beside
<1>3. \A n \in 0..(MaxReexportDepth - 1), y \in X :
        W[n + 1][y] = W[n][y] \cup Beside(next, W[n][y])
  <2>1. SUFFICES ASSUME NEW n \in 0..(MaxReexportDepth - 1), NEW y \in X
                 PROVE  W[n + 1][y] = W[n][y] \cup Beside(next, W[n][y])
    OBVIOUS
  <2>2. n + 1 \in 1..MaxReexportDepth /\ (n + 1) - 1 = n
    BY <1>1
  <2> QED
    BY <2>2 DEF IsReach
<1>4. 0 \in S
  <2>1. 0 \in 0..(MaxReexportDepth - 1) /\ 0 + 1 = 1
    BY <1>1
  <2>2. ASSUME NEW y \in X PROVE W[1][y] = {y} \cup Through(0, y)
    <3>1. W[1][y] = {y} \cup Beside(next, {y})
      BY <1>3, <2>1 DEF IsReach
    <3>2. \A z \in ToSet(next[y]) : W[0][z] = {z}
      BY <1>2 DEF IsReach
    <3> QED
      BY <3>1, <3>2 DEF Beside
  <2> QED
    BY <2>1, <2>2
<1>5. ASSUME NEW n \in 0..((MaxReexportDepth - 1) - 1), n \in S PROVE n + 1 \in S
  <2>1. n + 1 \in 0..(MaxReexportDepth - 1) /\ n \in 0..(MaxReexportDepth - 1)
    BY <1>1
  <2>2. ASSUME NEW y \in X PROVE W[(n + 1) + 1][y] = {y} \cup Through(n + 1, y)
    <3>1. W[(n + 1) + 1][y] = W[n + 1][y] \cup Beside(next, W[n + 1][y])
      BY <1>3, <2>1
    <3>2. W[n + 1][y] = {y} \cup Through(n, y)
      BY <1>5
    <3>3. \A z \in ToSet(next[y]) : W[n + 1][z] = W[n][z] \cup Beside(next, W[n][z])
      BY <1>2, <1>3, <2>1
    <3>4. Through(n + 1, y) = Through(n, y) \cup Beside(next, Through(n, y))
      BY <3>3 DEF Beside
    <3>5. \A z \in ToSet(next[y]) : z \in Through(n + 1, y)
      <4>1. \A z \in ToSet(next[y]) : z \in W[n + 1][z]
        BY <1>2, <1>5
      <4> QED
        BY <4>1
    <3>6. Beside(next, {y} \cup Through(n, y)) = ToSet(next[y]) \cup Beside(next, Through(n, y))
      BY DEF Beside
    <3> HIDE DEF Through
    <3> QED
      BY <3>1, <3>2, <3>4, <3>5, <3>6
  <2> QED
    BY <2>1, <2>2
<1>6. d - 1 \in 0..(MaxReexportDepth - 1) /\ (d - 1) + 1 = d /\ MaxReexportDepth - 1 \in Nat
  BY <1>1
<1> HIDE DEF S
<1>7. d - 1 \in S
  BY <1>4, <1>5, <1>6, Climb
<1> QED
  BY <1>6, <1>7 DEF S, FirstStep

\* r is what is found from x when the places Y can be reached.
Finds(own, R, x, Y, r) ==
  /\ r \in R
  /\ r = None <=> \A y \in Y : own[y] = None
  /\ r # None => \E y \in Y : own[y] = r
  /\ own[x] # None => r = own[x]

AllFind(own, R, Z, reach, level) == \A z \in Z : Finds(own, R, z, reach[z], level[z])

(* One level of the search.                                                *)
LEMMA NextLevelFinds ==
  ASSUME NEW X, NEW R, None \in R, NEW own \in [X -> R], NEW next, NEW x \in X,
         next[x] \in Seq(X), NEW level, NEW reach,
         AllFind(own, R, ToSet(next[x]), reach, level), NEW Y, Y = FirstStep(reach, next, x),
         NEW r, r = LevelAt(own, next, level, x)
  PROVE  Finds(own, R, x, Y, r)
<1> DEFINE s == [n \in DOMAIN next[x] |-> level[next[x][n]]]
<1>1. DOMAIN next[x] = 1..Len(next[x]) /\ Len(next[x]) \in Nat
  BY LenProperties
<1>2. \A n \in 1..Len(next[x]) : next[x][n] \in ToSet(next[x])
  BY <1>1 DEF ToSet
<1>3. \A z \in ToSet(next[x]) : \E n \in 1..Len(next[x]) : z = next[x][n]
  BY <1>1 DEF ToSet
<1>4. s \in [1..Len(next[x]) -> R]
  BY <1>1, <1>2 DEF Finds, AllFind
<1>5. FoundNext(next, level, x) = FirstFound(s)
  BY DEF FoundNext
<1>6. /\ FirstFound(s) \in R
      /\ FirstFound(s) = None <=> \A k \in 1..Len(next[x]) : s[k] = None
      /\ FirstFound(s) # None => \E k \in 1..Len(next[x]) : s[k] = FirstFound(s)
  <2> HIDE DEF s
  <2> QED
    BY <1>1, <1>4, FirstFoundFacts
<1>7. \A k \in 1..Len(next[x]) : s[k] = level[next[x][k]]
  BY <1>1
<1> HIDE DEF s
<1>8. CASE own[x] # None
  BY <1>8 DEF Finds, LevelAt, FirstStep
<1>9. CASE own[x] = None
  <2>1. r = FirstFound(s)
    BY <1>5, <1>9 DEF LevelAt
  <2>2. r = None <=> \A z \in ToSet(next[x]) : level[z] = None
    BY <2>1, <1>2, <1>3, <1>6, <1>7
  <2>3. r = None <=> \A y \in Y : own[y] = None
    BY <2>2, <1>9 DEF Finds, AllFind, FirstStep
  <2>4. ASSUME r # None PROVE \E y \in Y : own[y] = r
    <3>1. PICK k \in 1..Len(next[x]) : s[k] = r
      BY <2>1, <2>4, <1>6
    <3>2. level[next[x][k]] = r /\ next[x][k] \in ToSet(next[x])
      BY <3>1, <1>2, <1>7
    <3> QED
      BY <3>2, <2>4 DEF Finds, AllFind, FirstStep
  <2> QED
    BY <2>1, <2>3, <2>4, <1>6, <1>9 DEF Finds
<1> QED
  BY <1>8, <1>9

\* h has the levels of a search.
IsSearch(h, X, own, next) ==
  /\ \A x \in X : h[0][x] = own[x]
  /\ \A d \in 1..MaxReexportDepth, x \in X : h[d][x] = LevelAt(own, next, h[d - 1], x)

(* At each level, something is found exactly when something can be reached *)
(* in so many steps.                                                       *)
LEMMA EachLevelFinds ==
  ASSUME NEW X, NEW R, None \in R, NEW own \in [X -> R],
         NEW next, \A x \in X : next[x] \in Seq(X),
         NEW W, IsReach(W, X, next), NEW h, IsSearch(h, X, own, next)
  PROVE  \A d \in 0..MaxReexportDepth, y \in X : Finds(own, R, y, W[d][y], h[d][y])
<1>1. MaxReexportDepth \in Nat
  BY GraphAssumption
<1>2. IsReach(W, X, next)
  OBVIOUS
<1>3. /\ \A y \in X : h[0][y] = own[y]
      /\ \A d \in 1..MaxReexportDepth, y \in X : h[d][y] = LevelAt(own, next, h[d - 1], y)
  BY DEF IsSearch
<1>4. \A n \in 1..MaxReexportDepth, y \in X : W[n][y] = FirstStep(W[n - 1], next, y)
  BY <1>2, ReachUnfolds
<1> DEFINE S == {d \in 0..MaxReexportDepth : \A y \in X : Finds(own, R, y, W[d][y], h[d][y])}
<1>5. 0 \in S
  <2>1. ASSUME NEW y \in X PROVE Finds(own, R, y, W[0][y], h[0][y])
    <3>1. W[0][y] = {y} /\ h[0][y] = own[y] /\ own[y] \in R
      BY <1>2, <1>3 DEF IsReach
    <3> QED
      BY <3>1 DEF Finds
  <2> QED
    BY <1>1, <2>1
<1>6. ASSUME NEW d \in 0..(MaxReexportDepth - 1), d \in S PROVE d + 1 \in S
  <2>1. d + 1 \in 1..MaxReexportDepth /\ d + 1 \in 0..MaxReexportDepth /\ (d + 1) - 1 = d
    BY <1>1
  <2>2. ASSUME NEW y \in X PROVE Finds(own, R, y, W[d + 1][y], h[d + 1][y])
    <3> DEFINE level == h[d]
               reach == W[d]
               Y == W[d + 1][y]
               r == h[d + 1][y]
    <3>1. r = LevelAt(own, next, level, y)
      BY <1>3, <2>1
    <3>2. Y = FirstStep(reach, next, y)
      BY <1>4, <2>1
    <3>3. AllFind(own, R, ToSet(next[y]), reach, level)
      <4>1. ToSet(next[y]) \subseteq X
        BY LenProperties, ElementOfSeq DEF ToSet
      <4> QED
        BY <4>1, <1>6 DEF AllFind
    <3>4. next[y] \in Seq(X)
      OBVIOUS
    <3> HIDE DEF level, reach, Y, r
    <3>5. Finds(own, R, y, Y, r)
      BY <3>1, <3>2, <3>3, <3>4, NextLevelFinds
    <3> QED
      BY <3>5 DEF Y, r
  <2> QED
    BY <2>1, <2>2
<1>7. \A d \in 0..MaxReexportDepth : d \in S
  <2> HIDE DEF S
  <2> QED
    BY <1>1, <1>5, <1>6, Climb
<1> QED
  BY <1>7

(* DepthFirst finds something exactly when something can be reached.       *)
LEMMA DepthFirstFinds ==
  ASSUME NEW X, NEW R, None \in R, NEW own \in [X -> R],
         NEW next, \A x \in X : next[x] \in Seq(X), NEW x \in X
  PROVE  /\ Within(next, x) \in SUBSET X
         /\ Finds(own, R, x, Within(next, x), DepthFirst(own, next)[x])
<1>1. MaxReexportDepth \in 0..MaxReexportDepth
  BY GraphAssumption
<1>2. PICK W : IsReach(W, X, next)
  BY ReachExists
<1>3. PICK h : DepthFirst(own, next) = h[MaxReexportDepth] /\ IsSearch(h, X, own, next)
  <2>1. \E h : /\ DepthFirst(own, next) = h[MaxReexportDepth]
               /\ \A y \in X : h[0][y] = own[y]
               /\ \A d \in 1..MaxReexportDepth, y \in X :
                    h[d][y] = LevelAt(own, next, h[d - 1], y)
    BY DepthFirstUnfolds
  <2> QED
    BY <2>1 DEF IsSearch
<1>4. Finds(own, R, x, W[MaxReexportDepth][x], h[MaxReexportDepth][x])
  BY <1>1, <1>2, <1>3, EachLevelFinds
<1>5. Within(next, x) = W[MaxReexportDepth][x]
  BY <1>2, WithinIsReach
<1>6. W[MaxReexportDepth][x] \in SUBSET X
  BY <1>1, <1>2 DEF IsReach
<1> QED
  BY <1>3, <1>4, <1>5, <1>6

\* The part of IsFirstWay about the place k, with d steps for the whole way.
GoesOn(own, next, W, way, k, d) ==
  /\ own[way[k]] = None
  /\ \E p \in DOMAIN next[way[k]] :
       /\ way[k + 1] = next[way[k]][p]
       /\ \A q \in 1..(p - 1) : \A y \in W[d - k][next[way[k]][q]] : own[y] = None

\* A way of n places from x to where r is found, within d steps.
LeadsTo(X, own, next, W, d, x, r, n, way) ==
  /\ n \in 1..(d + 1) /\ way \in [1..n -> X] /\ way[1] = x /\ own[way[n]] = r
  /\ \A k \in 1..(n - 1) : GoesOn(own, next, W, way, k, d)

(* A way from the first base that leads to r is one from x.                *)
LEMMA WayFromFirst ==
  ASSUME NEW X, NEW own, NEW next, NEW W, NEW d \in Nat, NEW x \in X, own[x] = None,
         NEW p \in Nat, p \in DOMAIN next[x],
         \A q \in 1..(p - 1) : \A y \in W[d][next[x][q]] : own[y] = None,
         NEW r, NEW n, NEW way, LeadsTo(X, own, next, W, d, next[x][p], r, n, way)
  PROVE  \E m, longer : LeadsTo(X, own, next, W, d + 1, x, r, m, longer)
<1> DEFINE longer == [k \in 1..(n + 1) |-> IF k = 1 THEN x ELSE way[k - 1]]
<1>1. /\ n \in Nat /\ 1 <= n /\ n <= d + 1 /\ way \in [1..n -> X]
      /\ way[1] = next[x][p] /\ own[way[n]] = r
      /\ \A k \in 1..(n - 1) : GoesOn(own, next, W, way, k, d)
  BY DEF LeadsTo
<1>2. n + 1 \in 1..((d + 1) + 1)
  BY <1>1
<1>3. longer \in [1..(n + 1) -> X]
  <2>1. \A k \in 1..(n + 1) : k = 1 \/ k - 1 \in 1..n
    BY <1>1
  <2> QED
    BY <1>1, <2>1
<1>4. /\ longer[1] = x
      /\ \A k \in 1..n : longer[k + 1] = way[k]
  BY <1>1
<1> HIDE DEF longer
<1>5. own[longer[n + 1]] = r
  BY <1>1, <1>4
<1>6. ASSUME NEW k \in 1..n PROVE GoesOn(own, next, W, longer, k, d + 1)
  <2>1. CASE k = 1
    <3>1. (d + 1) - 1 = d /\ longer[1] = x /\ longer[1 + 1] = next[x][p]
      BY <1>1, <1>4
    <3> QED
      BY <2>1, <3>1 DEF GoesOn
  <2>2. CASE k # 1
    <3>1. k - 1 \in 1..(n - 1) /\ (k - 1) + 1 = k /\ (d + 1) - k = d - (k - 1)
      BY <1>1, <2>2
    <3>2. longer[k] = way[k - 1] /\ longer[k + 1] = way[(k - 1) + 1]
      <4>1. k - 1 \in 1..n /\ k \in 1..n
        BY <1>1, <3>1
      <4> QED
        BY <1>4, <3>1, <4>1
    <3>3. GoesOn(own, next, W, way, k - 1, d)
      BY <1>1, <3>1
    <3> QED
      BY <3>1, <3>2, <3>3 DEF GoesOn
  <2> QED
    BY <2>1, <2>2
<1>7. (n + 1) - 1 = n
  BY <1>1
<1> QED
  BY <1>2, <1>3, <1>4, <1>5, <1>6, <1>7 DEF LeadsTo

(* What DepthFirst finds is at the end of the way that turns, everywhere,  *)
(* to the first place that leads to anything.                              *)
LEMMA DepthFirstLeads ==
  ASSUME NEW X, NEW R, None \in R, NEW own \in [X -> R],
         NEW next, \A x \in X : next[x] \in Seq(X), NEW x \in X,
         NEW r, r = DepthFirst(own, next)[x], r # None
  PROVE  \E n \in 1..(MaxReexportDepth + 1) : \E way \in [1..n -> X] :
           way[1] = x /\ IsFirstWay(own, next, way, n) /\ own[way[n]] = r
<1>1. MaxReexportDepth \in Nat
  BY GraphAssumption
<1>2. PICK W : IsReach(W, X, next)
  BY ReachExists
<1>3. PICK h : DepthFirst(own, next) = h[MaxReexportDepth] /\ IsSearch(h, X, own, next)
  <2>1. \E h : /\ DepthFirst(own, next) = h[MaxReexportDepth]
               /\ \A y \in X : h[0][y] = own[y]
               /\ \A d \in 1..MaxReexportDepth, y \in X :
                    h[d][y] = LevelAt(own, next, h[d - 1], y)
    BY DepthFirstUnfolds
  <2> QED
    BY <2>1 DEF IsSearch
<1>4. \A d \in 0..MaxReexportDepth, y \in X : Finds(own, R, y, W[d][y], h[d][y])
  BY <1>2, <1>3, EachLevelFinds
<1> DEFINE Found(d, y) == h[d][y] # None =>
             \E n, way : LeadsTo(X, own, next, W, d, y, h[d][y], n, way)
           S == {d \in 0..MaxReexportDepth : \A y \in X : Found(d, y)}
<1>5. ASSUME NEW d \in Nat, NEW y \in X
      PROVE  \E n, way : LeadsTo(X, own, next, W, d, y, own[y], n, way)
  <2> DEFINE way == [k \in 1..1 |-> y]
  <2>1. way \in [1..1 -> X] /\ way[1] = y
    OBVIOUS
  <2>2. 1 \in 1..(d + 1) /\ 1..(1 - 1) = {}
    OBVIOUS
  <2> HIDE DEF way
  <2>3. LeadsTo(X, own, next, W, d, y, own[y], 1, way)
    BY <2>1, <2>2 DEF LeadsTo
  <2> QED
    BY <2>3
<1>6. 0 \in S
  <2>1. \A y \in X : Found(0, y)
    BY <1>3, <1>5 DEF IsSearch
  <2> QED
    BY <1>1, <2>1
<1>7. ASSUME NEW d \in 0..(MaxReexportDepth - 1), d \in S PROVE d + 1 \in S
  <2>1. d \in Nat /\ d \in 0..MaxReexportDepth
        /\ d + 1 \in 1..MaxReexportDepth /\ d + 1 \in 0..MaxReexportDepth /\ (d + 1) - 1 = d
    BY <1>1
  <2>2. ASSUME NEW y \in X, h[d + 1][y] # None
        PROVE  \E n, way : LeadsTo(X, own, next, W, d + 1, y, h[d + 1][y], n, way)
    <3>1. h[d + 1][y] = LevelAt(own, next, h[d], y)
      BY <1>3, <2>1 DEF IsSearch
    <3>2. CASE own[y] # None
      <4>1. h[d + 1][y] = own[y] /\ d + 1 \in Nat
        BY <2>1, <3>1, <3>2 DEF LevelAt
      <4> QED
        BY <1>5, <4>1
    <3>3. CASE own[y] = None
      <4> DEFINE s == [k \in DOMAIN next[y] |-> h[d][next[y][k]]]
      <4>1. DOMAIN next[y] = 1..Len(next[y]) /\ Len(next[y]) \in Nat
        BY LenProperties
      <4>2. \A k \in 1..Len(next[y]) : next[y][k] \in X
        BY <4>1, ElementOfSeq
      <4>3. s \in [1..Len(next[y]) -> R]
        BY <1>4, <2>1, <4>1, <4>2 DEF Finds
      <4>4. h[d + 1][y] = FirstFound(s)
        BY <3>1, <3>3 DEF LevelAt, FoundNext
      <4>5. \A k \in 1..Len(next[y]) : s[k] = h[d][next[y][k]]
        BY <4>1
      <4> HIDE DEF s
      <4>6. PICK p \in 1..Len(next[y]) : s[p] = FirstFound(s) /\ \A q \in 1..(p - 1) : s[q] = None
        BY <2>2, <4>1, <4>3, <4>4, FirstFoundFacts
      <4>7. p \in Nat /\ p \in DOMAIN next[y] /\ next[y][p] \in X
        BY <4>1, <4>2
      <4>8. \A q \in 1..(p - 1) : \A z \in W[d][next[y][q]] : own[z] = None
        <5>1. ASSUME NEW q \in 1..(p - 1) PROVE \A z \in W[d][next[y][q]] : own[z] = None
          <6>1. q \in 1..Len(next[y])
            BY <4>1
          <6>2. h[d][next[y][q]] = None /\ next[y][q] \in X
            BY <4>2, <4>5, <4>6, <6>1
          <6> QED
            BY <1>4, <2>1, <6>2 DEF Finds
        <5> QED
          BY <5>1
      <4>9. h[d + 1][y] = h[d][next[y][p]]
        BY <4>4, <4>5, <4>6
      <4>10. PICK n, way : LeadsTo(X, own, next, W, d, next[y][p], h[d + 1][y], n, way)
        BY <1>7, <2>2, <4>7, <4>9
      <4> QED
        BY <2>1, <3>3, <4>7, <4>8, <4>10, WayFromFirst
    <3> QED
      BY <3>2, <3>3
  <2> QED
    BY <2>1, <2>2
<1>8. \A d \in 0..MaxReexportDepth : d \in S
  <2> HIDE DEF S
  <2> QED
    BY <1>1, <1>6, <1>7, Climb
<1>9. PICK n, way : LeadsTo(X, own, next, W, MaxReexportDepth, x, r, n, way)
  BY <1>1, <1>3, <1>8
<1>10. n \in Nat /\ n \in 1..(MaxReexportDepth + 1) /\ way \in [1..n -> X]
  BY <1>1, <1>9 DEF LeadsTo
<1>11. IsFirstWay(own, next, way, n)
  <2>1. ASSUME NEW k \in 1..(n - 1)
        PROVE  /\ own[way[k]] = None
               /\ \E p \in DOMAIN next[way[k]] :
                    /\ way[k + 1] = next[way[k]][p]
                    /\ \A q \in 1..(p - 1) :
                         \A y \in Reached(next, next[way[k]][q])[MaxReexportDepth - k] : own[y] = None
    <3>1. GoesOn(own, next, W, way, k, MaxReexportDepth)
      BY <1>9 DEF LeadsTo
    <3>2. PICK p \in DOMAIN next[way[k]] :
            /\ way[k + 1] = next[way[k]][p]
            /\ \A q \in 1..(p - 1) :
                 \A y \in W[MaxReexportDepth - k][next[way[k]][q]] : own[y] = None
      BY <3>1 DEF GoesOn
    <3>3. way[k] \in X /\ MaxReexportDepth - k \in 0..MaxReexportDepth
      BY <1>1, <1>10
    <3>4. DOMAIN next[way[k]] = 1..Len(next[way[k]]) /\ Len(next[way[k]]) \in Nat
      BY <3>3, LenProperties
    <3>5. ASSUME NEW q \in 1..(p - 1)
          PROVE  Reached(next, next[way[k]][q])[MaxReexportDepth - k]
                   = W[MaxReexportDepth - k][next[way[k]][q]]
      <4>1. q \in 1..Len(next[way[k]])
        BY <3>2, <3>4
      <4>2. next[way[k]][q] \in X
        BY <3>3, <3>4, <4>1, ElementOfSeq
      <4> QED
        BY <1>2, <3>3, <4>2, ReachedIsReach
    <3> QED
      BY <3>1, <3>2, <3>5 DEF GoesOn
  <2> QED
    BY <2>1 DEF IsFirstWay
<1> QED
  BY <1>9, <1>10, <1>11 DEF LeadsTo

-----------------------------------------------------------------------------
(* What was analysed, spelt out.                                           *)

\* The analysed files.
ProjectOK == project \in Projects

(* Files and their symbols, imports, exports and calls.                    *)
LEMMA ProjectFacts ==
  ASSUME ProjectOK
  PROVE  /\ Len(project) \in Nat /\ FileIds = 1..Len(project)
         /\ \A f \in FileIds :
              /\ project[f] \in AnalyzedFile
              /\ Symbols(f) \in Seq(ExtractedSymbol) /\ Imports(f) \in Seq(ExtractedImport)
              /\ Len(Symbols(f)) \in Nat /\ DOMAIN Symbols(f) = 1..Len(Symbols(f))
              /\ project[f].exports \in Seq([name : Names, local : Names])
              /\ \A k \in DOMAIN Symbols(f) :
                   /\ Symbols(f)[k] \in ExtractedSymbol /\ Symbols(f)[k].parent < k
                   /\ Symbols(f)[k].default => Symbols(f)[k].exported /\ Symbols(f)[k].parent = 0
<1>1. project \in Seq(AnalyzedFile) /\ IsAnalysed(project)
  BY GraphAssumption DEF ProjectOK, IsAnalysed
<1>2. Len(project) \in Nat /\ FileIds = 1..Len(project)
  BY <1>1, LenProperties DEF FileIds
<1>3. SUFFICES ASSUME NEW f \in FileIds
               PROVE  /\ project[f] \in AnalyzedFile
                      /\ Symbols(f) \in Seq(ExtractedSymbol) /\ Imports(f) \in Seq(ExtractedImport)
                      /\ Len(Symbols(f)) \in Nat /\ DOMAIN Symbols(f) = 1..Len(Symbols(f))
                      /\ project[f].exports \in Seq([name : Names, local : Names])
                      /\ \A k \in DOMAIN Symbols(f) :
                           /\ Symbols(f)[k] \in ExtractedSymbol /\ Symbols(f)[k].parent < k
                           /\ Symbols(f)[k].default =>
                                Symbols(f)[k].exported /\ Symbols(f)[k].parent = 0
  BY <1>2
<1>4. project[f] \in AnalyzedFile
  BY <1>1, <1>2, ElementOfSeq
<1>5. /\ Symbols(f) \in Seq(ExtractedSymbol) /\ Imports(f) \in Seq(ExtractedImport)
      /\ project[f].exports \in Seq([name : Names, local : Names])
  BY <1>4 DEF AnalyzedFile, Symbols, Imports
<1>6. Len(Symbols(f)) \in Nat /\ DOMAIN Symbols(f) = 1..Len(Symbols(f))
  BY <1>5, LenProperties
<1>7. ASSUME NEW k \in DOMAIN Symbols(f)
      PROVE  /\ Symbols(f)[k] \in ExtractedSymbol /\ Symbols(f)[k].parent < k
             /\ Symbols(f)[k].default => Symbols(f)[k].exported /\ Symbols(f)[k].parent = 0
  <2>1. Symbols(f)[k] \in ExtractedSymbol
    BY <1>5, <1>6, ElementOfSeq
  <2> QED
    BY <2>1, <1>1 DEF IsAnalysed, Symbols, FileIds
<1> QED
  BY <1>4, <1>5, <1>6, <1>7

(* The greatest of some keys of a file is one of them, or 0.               *)
LEMMA GreatestKey ==
  ASSUME ProjectOK, NEW f \in FileIds, NEW keys \in SUBSET DOMAIN Symbols(f)
  PROVE  /\ Greatest0(keys) \in 0..Len(Symbols(f))
         /\ Greatest0(keys) # 0 <=> keys # {}
         /\ Greatest0(keys) # 0 => Greatest0(keys) \in keys
<1>1. DOMAIN Symbols(f) = 1..Len(Symbols(f)) /\ Len(Symbols(f)) \in Nat
  BY ProjectFacts
<1>2. keys # {} => Max(keys) \in keys
  <2>1. keys \in SUBSET Nat /\ \A k \in keys : k <= Len(Symbols(f))
    BY <1>1
  <2> QED
    BY <1>1, <2>1, MaxIsGreatest
<1> QED
  BY <1>1, <1>2 DEF Greatest0

(* What the indexes of a file hold.                                        *)
LEMMA IndexFacts ==
  ASSUME ProjectOK, NEW f \in FileIds, NEW name
  PROVE  /\ TopLevel(f, name) \in 0..Len(Symbols(f))
         /\ TopLevel(f, name) # 0 => TopLevel(f, name) \in TopLevelOf(Symbols(f), name)
         /\ \A class : Member(f, class, name) \in 0..Len(Symbols(f))
<1>1. TopLevelOf(Symbols(f), name) \in SUBSET DOMAIN Symbols(f)
  BY DEF TopLevelOf
<1>2. \A class : {k \in DOMAIN Symbols(f) : Symbols(f)[k].parent = class
                                          /\ Symbols(f)[k].name = name} \in SUBSET DOMAIN Symbols(f)
  OBVIOUS
<1>3. Len(Symbols(f)) \in Nat
  BY ProjectFacts
<1> QED
  BY <1>1, <1>2, <1>3, GreatestKey DEF TopLevel, Member

(* A key of a file is a symbol, and 0 is none.                             *)
LEMMA SymbolFacts ==
  ASSUME ProjectOK, NEW f \in FileIds, NEW key \in 0..Len(Symbols(f))
  PROVE  /\ Symbol(f, key) \in SymbolsOrNone
         /\ Symbol(f, key) = None <=> key = 0
         /\ key # 0 => Symbol(f, key) = [file |-> f, key |-> key]
<1>1. DOMAIN Symbols(f) = 1..Len(Symbols(f)) /\ Len(Symbols(f)) \in Nat /\ f # 0
  BY ProjectFacts
<1>2. CASE key = 0
  BY <1>2 DEF Symbol, SymbolsOrNone
<1>3. CASE key # 0
  <2>1. key \in DOMAIN Symbols(f) /\ Symbol(f, key) = [file |-> f, key |-> key]
    BY <1>1, <1>3 DEF Symbol
  <2>2. [file |-> f, key |-> key] \in AllSymbols
    BY <2>1 DEF AllSymbols
  <2>3. [file |-> f, key |-> key] # None
    BY <1>3 DEF None
  <2> QED
    BY <1>3, <2>1, <2>2, <2>3 DEF SymbolsOrNone
<1> QED
  BY <1>2, <1>3

(* A symbol is in a file.                                                  *)
LEMMA SymbolParts ==
  ASSUME ProjectOK, NEW s \in SymbolsOrNone, s # None
  PROVE  /\ s.file \in FileIds /\ s.key \in DOMAIN Symbols(s.file)
         /\ s.key \in 1..Len(Symbols(s.file)) /\ s = [file |-> s.file, key |-> s.key]
<1>1. s \in AllSymbols
  BY DEF SymbolsOrNone
<1>2. \E f \in FileIds : s \in {[file |-> f, key |-> k] : k \in DOMAIN Symbols(f)}
  BY <1>1 DEF AllSymbols
<1>3. PICK f \in FileIds : s \in {[file |-> f, key |-> k] : k \in DOMAIN Symbols(f)}
  BY <1>2
<1>4. PICK k \in DOMAIN Symbols(f) : s = [file |-> f, key |-> k]
  BY <1>3
<1> QED
  BY <1>4, ProjectFacts

(* A local name is a name.                                                 *)
LEMMA LocalNameIn ==
  ASSUME ProjectOK, NEW f \in FileIds, NEW name \in Names
  PROVE  LocalName(f, name) \in Names
<1> DEFINE exports == project[f].exports
           named == {n \in DOMAIN exports : exports[n].name = name}
<1>1. exports \in Seq([name : Names, local : Names])
  BY ProjectFacts
<1>2. DOMAIN exports = 1..Len(exports) /\ Len(exports) \in Nat
  BY <1>1, LenProperties
<1>3. ASSUME NEW n \in DOMAIN exports PROVE exports[n].local \in Names
  <2>1. exports[n] \in [name : Names, local : Names]
    BY <1>1, <1>2, ElementOfSeq
  <2> QED
    BY <2>1
<1>4. named # {} => Max(named) \in named
  <2>1. named \in SUBSET Nat /\ \A n \in named : n <= Len(exports)
    BY <1>2
  <2> QED
    BY <1>2, <2>1, MaxIsGreatest
<1> QED
  BY <1>3, <1>4 DEF LocalName

(* What a module exports itself is public.                                 *)
LEMMA OwnFacts ==
  ASSUME ProjectOK, NEW f \in FileIds, NEW name \in Names
  PROVE  /\ Own(f, name) \in SymbolsOrNone
         /\ Own(f, name) # None => Own(f, name).file = f /\ IsPublic(Own(f, name), name)
<1> DEFINE local == TopLevel(f, LocalName(f, name))
           marked == {k \in DOMAIN Symbols(f) : Symbols(f)[k].default}
<1>1. DOMAIN Symbols(f) = 1..Len(Symbols(f)) /\ Len(Symbols(f)) \in Nat
  BY ProjectFacts
<1>2. local \in 0..Len(Symbols(f)) /\ (local # 0 => local \in TopLevelOf(Symbols(f), LocalName(f, name)))
  BY IndexFacts
<1>3. CASE IsPythonFile(f)
  <2>1. Own(f, name) = Symbol(f, TopLevel(f, name))
    BY <1>3 DEF Own
  <2>2. /\ TopLevel(f, name) \in 0..Len(Symbols(f))
        /\ TopLevel(f, name) # 0 => TopLevel(f, name) \in TopLevelOf(Symbols(f), name)
    BY IndexFacts
  <2> QED
    BY <1>3, <2>1, <2>2, SymbolFacts DEF IsPublic, TopLevelOf
<1>4. CASE ~IsPythonFile(f) /\ name = "default"
  <2>1. Own(f, name) = IF IsExportedName(f, name) /\ local # 0 THEN Symbol(f, local)
                       ELSE IF marked # {} THEN Symbol(f, Min(marked)) ELSE None
    BY <1>4 DEF Own
  <2>2. CASE IsExportedName(f, name) /\ local # 0
    <3> DEFINE exports == project[f].exports
               named == {n \in DOMAIN exports : exports[n].name = name}
    <3>1. exports \in Seq([name : Names, local : Names])
      BY ProjectFacts
    <3>2. DOMAIN exports = 1..Len(exports) /\ Len(exports) \in Nat
      BY <3>1, LenProperties
    <3>3. named # {}
      BY <2>2, <3>2 DEF IsExportedName, ToSet
    <3>4. Max(named) \in named
      <4>1. named \in SUBSET Nat /\ \A n \in named : n <= Len(exports)
        BY <3>2
      <4> QED
        BY <3>2, <3>3, <4>1, MaxIsGreatest
    <3>5. exports[Max(named)] \in ToSet(exports) /\ LocalName(f, name) = exports[Max(named)].local
      BY <3>3, <3>4 DEF ToSet, LocalName
    <3> DEFINE e == exports[Max(named)]
               tops == TopLevelOf(Symbols(f), e.local)
    <3>6. local = Max(tops) /\ tops # {}
      BY <2>2, <3>5 DEF TopLevel, Greatest0
    <3>7. Symbols(f)[local].exported
      <4>1. IsAnalysed(project)
        BY GraphAssumption DEF ProjectOK
      <4>2. project[f].language # "python"
        BY <1>4 DEF IsPythonFile
      <4> HIDE DEF e
      <4>3. e \in ToSet(project[f].exports)
        BY <3>5 DEF e
      <4>4. tops # {} => project[f].symbols[Max(tops)].exported
        BY <4>1, <4>2, <4>3 DEF IsAnalysed, FileIds, Symbols
      <4> QED
        BY <3>6, <4>4 DEF Symbols
    <3>8. Symbols(f)[local].parent = 0
      BY <1>2, <2>2 DEF TopLevelOf
    <3> HIDE DEF local
    <3> QED
      BY <1>2, <1>4, <2>1, <2>2, <3>7, <3>8, SymbolFacts DEF IsPublic
  <2>3. CASE ~(IsExportedName(f, name) /\ local # 0) /\ marked # {}
    <3>1. Min(marked) \in marked
      <4>1. marked \in SUBSET Nat
        BY <1>1
      <4> QED
        BY <2>3, <4>1, MinIsLeast
    <3> DEFINE k == Min(marked)
    <3>2. k \in 1..Len(Symbols(f)) /\ Symbols(f)[k].exported /\ Symbols(f)[k].parent = 0
      BY <1>1, <3>1, ProjectFacts
    <3>3. Own(f, name) = Symbol(f, k)
      BY <2>1, <2>3
    <3> HIDE DEF k
    <3> QED
      BY <1>1, <1>4, <3>2, <3>3, SymbolFacts DEF IsPublic
  <2>4. CASE ~(IsExportedName(f, name) /\ local # 0) /\ marked = {}
    BY <2>1, <2>4 DEF SymbolsOrNone
  <2> QED
    BY <2>2, <2>3, <2>4
<1>5. CASE ~IsPythonFile(f) /\ name # "default"
  <2>1. Own(f, name) = IF local # 0 /\ Symbols(f)[local].exported THEN Symbol(f, local) ELSE None
    BY <1>5 DEF Own
  <2>2. local # 0 => Symbols(f)[local].parent = 0
    BY <1>2 DEF TopLevelOf
  <2>3. None \in SymbolsOrNone
    BY DEF SymbolsOrNone
  <2> HIDE DEF local
  <2> QED
    BY <1>2, <1>5, <2>1, <2>2, <2>3, SymbolFacts DEF IsPublic
<1> QED
  BY <1>3, <1>4, <1>5

(* An import and where its names point.                                    *)
LEMMA ImportFacts ==
  ASSUME ProjectOK, NEW f \in FileIds
  PROVE  /\ DOMAIN Imports(f) = 1..Len(Imports(f)) /\ Len(Imports(f)) \in Nat
         /\ \A i \in DOMAIN Imports(f) :
              /\ Imports(f)[i] \in ExtractedImport
              /\ Imports(f)[i].target # 0 => Imports(f)[i].target \in FileIds
              /\ DOMAIN Imports(f)[i].names = 1..Len(Imports(f)[i].names)
              /\ Len(Imports(f)[i].names) \in Nat
              /\ \A n \in DOMAIN Imports(f)[i].names : Imports(f)[i].names[n] \in ImportedName
              /\ DOMAIN Imports(f)[i].submodules = 1..Len(Imports(f)[i].submodules)
              /\ Len(Imports(f)[i].submodules) \in Nat
              /\ \A n \in DOMAIN Imports(f)[i].submodules :
                   Imports(f)[i].submodules[n] \in [name : Names, target : Nat, confirmed : BOOLEAN]
              /\ \A t \in ToSet(Imports(f)[i].submodules) : t.target # 0 => t.target \in FileIds
<1>1. Imports(f) \in Seq(ExtractedImport)
  BY ProjectFacts
<1>2. DOMAIN Imports(f) = 1..Len(Imports(f)) /\ Len(Imports(f)) \in Nat
  BY <1>1, LenProperties
<1>3. SUFFICES
        ASSUME NEW i \in DOMAIN Imports(f)
        PROVE  /\ Imports(f)[i] \in ExtractedImport
               /\ Imports(f)[i].target # 0 => Imports(f)[i].target \in FileIds
               /\ DOMAIN Imports(f)[i].names = 1..Len(Imports(f)[i].names)
               /\ Len(Imports(f)[i].names) \in Nat
               /\ \A n \in DOMAIN Imports(f)[i].names : Imports(f)[i].names[n] \in ImportedName
               /\ DOMAIN Imports(f)[i].submodules = 1..Len(Imports(f)[i].submodules)
               /\ Len(Imports(f)[i].submodules) \in Nat
               /\ \A n \in DOMAIN Imports(f)[i].submodules :
                    Imports(f)[i].submodules[n] \in [name : Names, target : Nat, confirmed : BOOLEAN]
               /\ \A t \in ToSet(Imports(f)[i].submodules) : t.target # 0 => t.target \in FileIds
  BY <1>2
<1> DEFINE imported == Imports(f)[i]
           Submodule == [name : Names, target : Nat, confirmed : BOOLEAN]
<1>4. imported \in ExtractedImport
  BY <1>1, <1>2, ElementOfSeq
<1>5. imported.names \in Seq(ImportedName) /\ imported.submodules \in Seq(Submodule)
      /\ imported.target \in Nat
  BY <1>4 DEF ExtractedImport
<1>6. /\ DOMAIN imported.names = 1..Len(imported.names) /\ Len(imported.names) \in Nat
      /\ DOMAIN imported.submodules = 1..Len(imported.submodules)
      /\ Len(imported.submodules) \in Nat
  BY <1>5, LenProperties
<1>7. /\ \A n \in DOMAIN imported.names : imported.names[n] \in ImportedName
      /\ \A n \in DOMAIN imported.submodules : imported.submodules[n] \in Submodule
  BY <1>5, <1>6, ElementOfSeq
<1>8. /\ imported.target <= Len(project)
      /\ \A t \in ToSet(imported.submodules) : t.target <= Len(project)
  <2>1. imported \in ToSet(project[f].imports)
    BY DEF ToSet, Imports
  <2> HIDE DEF imported
  <2> QED
    BY <2>1, GraphAssumption DEF ProjectOK, IsAnalysed, FileIds
<1>9. \A t \in ToSet(imported.submodules) : t.target \in Nat
  BY <1>7 DEF ToSet
<1>10. Len(project) \in Nat /\ FileIds = 1..Len(project)
  BY ProjectFacts
<1> QED
  BY <1>4, <1>5, <1>6, <1>7, <1>8, <1>9, <1>10

(* A name is forwarded to names of analysed files.                         *)
LEMMA ForwardsIn ==
  ASSUME ProjectOK, NEW f \in FileIds, NEW name \in Names
  PROVE  Forwards(f, name) \in Seq(Asked)
<1> DEFINE Forwarded(imported, re_exported) ==
             CASE imported.kind # "re_export" \/ imported.target = 0 -> << >>
               [] imported.kind = "re_export" /\ imported.target # 0 /\ re_exported.name = "*" ->
                    IF re_exported.local = <<"*">> /\ name # "default"
                    THEN <<[file |-> imported.target, name |-> name]>> ELSE << >>
               [] OTHER -> IF re_exported.local = <<name>>
                           THEN <<[file |-> imported.target, name |-> re_exported.name]>> ELSE << >>
           OfImport(imported) ==
             FlattenSeq([n \in DOMAIN imported.names |-> Forwarded(imported, imported.names[n])])
           all == [i \in DOMAIN Imports(f) |-> OfImport(Imports(f)[i])]
<1>1. Forwards(f, name) = IF IsPythonFile(f) THEN << >> ELSE FlattenSeq(all)
  BY DEF Forwards
<1>2. ASSUME NEW i \in DOMAIN Imports(f), NEW n \in DOMAIN Imports(f)[i].names
      PROVE  Forwarded(Imports(f)[i], Imports(f)[i].names[n]) \in Seq(Asked)
  <2> DEFINE target == Imports(f)[i].target
             re_exported == Imports(f)[i].names[n]
             r == Forwarded(Imports(f)[i], Imports(f)[i].names[n])
  <2>1. target # 0 => target \in FileIds
    BY ImportFacts
  <2>2. re_exported \in ImportedName
    BY ImportFacts
  <2>3. re_exported.name # "*" => re_exported.name \in Names
    BY <2>2 DEF ImportedName
  <2>4. \/ r = << >>
        \/ target # 0 /\ r = <<[file |-> target, name |-> name]>>
        \/ target # 0 /\ re_exported.name # "*" /\ r = <<[file |-> target, name |-> re_exported.name]>>
    OBVIOUS
  <2> HIDE DEF r, target, re_exported
  <2>5. /\ target # 0 => [file |-> target, name |-> name] \in Asked
        /\ target # 0 /\ re_exported.name # "*" =>
             [file |-> target, name |-> re_exported.name] \in Asked
    BY <2>1, <2>3 DEF Asked
  <2>6. r = << >> \/ \E a \in Asked : r = <<a>>
    BY <2>4, <2>5
  <2>7. r \in Seq(Asked)
    <3>1. \A a \in Asked : <<a>> \in Seq(Asked)
      OBVIOUS
    <3>2. << >> \in Seq(Asked)
      OBVIOUS
    <3> QED
      BY <2>6, <3>1, <3>2
  <2> QED
    BY <2>7 DEF r
<1> HIDE DEF Forwarded
<1>3. ASSUME NEW i \in DOMAIN Imports(f) PROVE OfImport(Imports(f)[i]) \in Seq(Asked)
  <2> DEFINE D == DOMAIN Imports(f)[i].names
             s == [n \in D |-> Forwarded(Imports(f)[i], Imports(f)[i].names[n])]
  <2>1. D = 1..Len(Imports(f)[i].names) /\ Len(Imports(f)[i].names) \in Nat
    BY ImportFacts
  <2>2. s \in [D -> Seq(Asked)]
    BY <1>2
  <2> HIDE DEF s, D
  <2>3. FlattenSeq(s) \in Seq(Asked)
    BY <2>1, <2>2, FlattenOver
  <2> QED
    BY <2>3 DEF s, D
<1> HIDE DEF OfImport
<1>4. all \in [DOMAIN Imports(f) -> Seq(Asked)]
  BY <1>3
<1> HIDE DEF all
<1>5. FlattenSeq(all) \in Seq(Asked)
  <2>1. DOMAIN Imports(f) = 1..Len(Imports(f)) /\ Len(Imports(f)) \in Nat
    BY ImportFacts
  <2> QED
    BY <1>4, <2>1, FlattenOver
<1> QED
  BY <1>1, <1>5

(* What a module provides.                                                 *)
LEMMA ProvidedFinds ==
  ASSUME ProjectOK, NEW f \in FileIds, NEW name \in Names
  PROVE  LET m == [file |-> f, name |-> name]
         IN /\ Within(ForwardedTo, m) \in SUBSET Asked
            /\ Finds(OwnExports, SymbolsOrNone, m, Within(ForwardedTo, m), Provided(f, name))
<1> DEFINE m == [file |-> f, name |-> name]
<1>1. m \in Asked /\ None \in SymbolsOrNone
  BY DEF Asked, SymbolsOrNone
<1>2. \A x \in Asked : x.file \in FileIds /\ x.name \in Names
  BY DEF Asked
<1>3. OwnExports \in [Asked -> SymbolsOrNone]
  BY <1>2, OwnFacts DEF OwnExports
<1>4. \A x \in Asked : ForwardedTo[x] \in Seq(Asked)
  BY <1>2, ForwardsIn DEF ForwardedTo
<1> HIDE DEF m
<1>5. /\ Within(ForwardedTo, m) \in SUBSET Asked
      /\ Finds(OwnExports, SymbolsOrNone, m, Within(ForwardedTo, m),
               DepthFirst(OwnExports, ForwardedTo)[m])
  BY <1>1, <1>3, <1>4, DepthFirstFinds
<1> QED
  BY <1>5 DEF m, Provided, LookupExport

(* A module provides what can be reached by re-exports, whatever they are. *)
LEMMA ProvidedIsExported == ProjectOK => ProvidedByExport
<1> SUFFICES ASSUME ProjectOK, NEW f \in FileIds, NEW name \in Names
             PROVE  LET modules == Within(ForwardedTo, [file |-> f, name |-> name])
                        found == Provided(f, name)
                    IN /\ found = None <=> \A x \in modules : Own(x.file, x.name) = None
                       /\ found # None => \E x \in modules :
                            /\ Own(x.file, x.name) = found /\ found.file = x.file
                            /\ IsPublic(found, x.name)
                       /\ Own(f, name) # None => found = Own(f, name)
  BY Zenon DEF ProvidedByExport
<1> DEFINE m == [file |-> f, name |-> name]
           modules == Within(ForwardedTo, m)
           found == Provided(f, name)
<1>1. modules \in SUBSET Asked /\ Finds(OwnExports, SymbolsOrNone, m, modules, found)
  BY ProvidedFinds
<1>2. \A x \in Asked : OwnExports[x] = Own(x.file, x.name)
  BY DEF OwnExports
<1>3. \A x \in Asked : Own(x.file, x.name) # None =>
        Own(x.file, x.name).file = x.file /\ IsPublic(Own(x.file, x.name), x.name)
  BY OwnFacts DEF Asked
<1>4. m \in Asked /\ m.file = f /\ m.name = name
  BY DEF Asked
<1> HIDE DEF m, modules, found
<1>5. found = None <=> \A x \in modules : Own(x.file, x.name) = None
  BY <1>1, <1>2 DEF Finds
<1>6. found # None => \E x \in modules :
        Own(x.file, x.name) = found /\ found.file = x.file /\ IsPublic(found, x.name)
  BY <1>1, <1>2, <1>3 DEF Finds
<1>7. Own(f, name) # None => found = Own(f, name)
  BY <1>1, <1>2, <1>4 DEF Finds
<1> QED
  BY <1>5, <1>6, <1>7 DEF m, modules, found

(* A module provides a name if and only if a chain of re-exports within    *)
(* the limit leads to a module that exports it itself, and then one such   *)
(* symbol, its own before any other; in spite of cycles, of names that     *)
(* change on the way and of names that a module keeps to itself            *)
(* (graph.py:129-169).                                                     *)
THEOREM ReExportsAreFollowed == GraphSpec => []ProvidedByExport
<1>1. GraphInit => ProjectOK
  BY DEF GraphInit, ProjectOK
<1>2. ProjectOK /\ [GraphNext]_graphVars => ProjectOK'
  BY DEF ProjectOK, GraphNext, AddImport, AddCall, AddBase, graphVars
<1> QED
  BY <1>1, <1>2, ProvidedIsExported, PTL DEF GraphSpec

-----------------------------------------------------------------------------
(* What names resolve to.                                                  *)

\* What a local name may be bound to.
Bound == [file : FileIds, name : Names \cup {"*"}]

(* An import binds a name to a module or to a name in one.                 *)
LEMMA BindingOfIn ==
  ASSUME ProjectOK, NEW f \in FileIds, NEW i \in DOMAIN Imports(f),
         NEW n \in DOMAIN Imports(f)[i].names
  PROVE  BindingOf(f, Imports(f)[i], Imports(f)[i].names[n]) \in Seq(Bound)
<1> DEFINE imported == Imports(f)[i]
           name == Imports(f)[i].names[n]
           submodules == {t \in ToSet(imported.submodules) : t.name = name.name}
           To(module, bound) == IF module = 0 THEN << >> ELSE <<[file |-> module, name |-> bound]>>
           b == BindingOf(f, Imports(f)[i], Imports(f)[i].names[n])
<1>1. (imported.target # 0 => imported.target \in FileIds) /\ name \in ImportedName
  BY ImportFacts
<1>2. submodules # {} =>
        LET t == CHOOSE t \in submodules : TRUE IN t.target # 0 => t.target \in FileIds
  <2>1. \A t \in ToSet(imported.submodules) : t.target # 0 => t.target \in FileIds
    BY ImportFacts
  <2> QED
    BY <2>1
<1>3. name.name \in Names \cup {"*"}
  BY <1>1 DEF ImportedName
<1>4. \A m : (m # 0 => m \in FileIds) =>
        \A bound \in Names \cup {"*"} : To(m, bound) \in Seq(Bound)
  <2>1. SUFFICES ASSUME NEW m, m # 0 => m \in FileIds, NEW bound \in Names \cup {"*"}
                 PROVE  To(m, bound) \in Seq(Bound)
    OBVIOUS
  <2>2. m # 0 => [file |-> m, name |-> bound] \in Bound
    BY <2>1 DEF Bound
  <2>3. \A x \in Bound : <<x>> \in Seq(Bound)
    OBVIOUS
  <2> QED
    BY <2>2, <2>3
<1>5. \/ b = << >> \/ b = To(imported.target, name.name) \/ b = To(imported.target, "*")
      \/ submodules # {} /\ b = To((CHOOSE t \in submodules : TRUE).target, "*")
  BY Zenon DEF BindingOf
<1>6. << >> \in Seq(Bound)
  OBVIOUS
<1> HIDE DEF b, imported, name, submodules, To
<1>7. b \in Seq(Bound)
  BY <1>1, <1>2, <1>3, <1>4, <1>5, <1>6
<1> QED
  BY <1>7 DEF b

(* So do all the imports of a file.                                        *)
LEMMA BindingsIn ==
  ASSUME ProjectOK, NEW f \in FileIds, NEW local
  PROVE  Bindings(f, local) \in Seq(Bound)
<1> DEFINE Of(i, n) == IF Imports(f)[i].names[n].local = local
                       THEN BindingOf(f, Imports(f)[i], Imports(f)[i].names[n]) ELSE << >>
           OfImport(i) == FlattenSeq([n \in DOMAIN Imports(f)[i].names |-> Of(i, n)])
           all == [i \in DOMAIN Imports(f) |-> OfImport(i)]
<1>1. Bindings(f, local) = FlattenSeq(all)
  BY DEF Bindings
<1>2. ASSUME NEW i \in DOMAIN Imports(f), NEW n \in DOMAIN Imports(f)[i].names
      PROVE  Of(i, n) \in Seq(Bound)
  BY BindingOfIn
<1> HIDE DEF Of
<1>3. ASSUME NEW i \in DOMAIN Imports(f) PROVE OfImport(i) \in Seq(Bound)
  <2> DEFINE D == DOMAIN Imports(f)[i].names
             s == [n \in D |-> Of(i, n)]
  <2>1. D = 1..Len(Imports(f)[i].names) /\ Len(Imports(f)[i].names) \in Nat
    BY ImportFacts
  <2>2. s \in [D -> Seq(Bound)]
    BY <1>2
  <2> HIDE DEF s, D
  <2>3. FlattenSeq(s) \in Seq(Bound)
    BY <2>1, <2>2, FlattenOver
  <2> QED
    BY <2>3 DEF s, D
<1> HIDE DEF OfImport
<1>4. all \in [DOMAIN Imports(f) -> Seq(Bound)]
  BY <1>3
<1> HIDE DEF all
<1>5. FlattenSeq(all) \in Seq(Bound)
  <2>1. DOMAIN Imports(f) = 1..Len(Imports(f)) /\ Len(Imports(f)) \in Nat
    BY ImportFacts
  <2> QED
    BY <1>4, <2>1, FlattenOver
<1> QED
  BY <1>1, <1>5

(* A member of a symbol is a symbol of its file.                           *)
LEMMA MemberOfIn ==
  ASSUME ProjectOK, NEW found \in SymbolsOrNone, NEW members
  PROVE  MemberOf(found, members) \in SymbolsOrNone
<1> DEFINE m == MemberOf(found, members)
<1>1. \/ m = None
      \/ m = found
      \/ found # None /\ m = Symbol(found.file, Member(found.file, found.key, Head(members)))
  BY DEF MemberOf
<1>2. ASSUME found # None
      PROVE  Symbol(found.file, Member(found.file, found.key, Head(members))) \in SymbolsOrNone
  <2>1. found.file \in FileIds
    BY <1>2, SymbolParts
  <2>2. Member(found.file, found.key, Head(members)) \in 0..Len(Symbols(found.file))
    BY <2>1, IndexFacts
  <2> QED
    BY <2>1, <2>2, SymbolFacts
<1>3. None \in SymbolsOrNone
  BY DEF SymbolsOrNone
<1> QED
  BY <1>1, <1>2, <1>3

(* An expression resolves to a symbol or to none.                          *)
LEMMA ResolveNameIn ==
  ASSUME ProjectOK, NEW f \in FileIds, NEW expression \in Expressions
  PROVE  ResolveName(f, expression) \in SymbolsOrNone
<1> DEFINE bound == BoundPrefixes(f, expression)
<1>1. expression \in Seq(Names) /\ Len(expression) \in Nat /\ DOMAIN expression = 1..Len(expression)
  BY LenProperties DEF Expressions
<1>2. CASE bound = {}
  <2>1. ResolveName(f, expression) = MemberOf(Symbol(f, TopLevel(f, Head(expression))), Tail(expression))
    BY <1>2 DEF ResolveName
  <2>2. Symbol(f, TopLevel(f, Head(expression))) \in SymbolsOrNone
    <3>1. TopLevel(f, Head(expression)) \in 0..Len(Symbols(f))
      BY IndexFacts
    <3> QED
      BY <3>1, SymbolFacts
  <2> QED
    BY <2>1, <2>2, MemberOfIn
<1>3. CASE bound # {}
  <2> DEFINE n == Max(bound)
             bindings == Bindings(f, SubSeq(expression, 1, n))
             binding == Last(bindings)
             rest == SubSeq(expression, n + 1, Len(expression))
  <2>1. n \in bound
    <3>1. bound \in SUBSET Nat /\ \A k \in bound : k <= Len(expression)
      BY <1>1 DEF BoundPrefixes
    <3> QED
      BY <1>1, <1>3, <3>1, MaxIsGreatest
  <2>2. n \in 1..Len(expression) /\ bindings # << >>
    BY <1>1, <2>1 DEF BoundPrefixes
  <2>3. ResolveName(f, expression) = ResolveBound(f, expression, n)
    BY <1>3 DEF ResolveName
  <2>4. binding \in Bound
    <3>1. bindings \in Seq(Bound)
      BY BindingsIn
    <3> HIDE DEF bindings
    <3>2. Len(bindings) \in 1..Len(bindings) /\ Len(bindings) \in Nat
      BY <2>2, <3>1, LenProperties, EmptySeq
    <3> QED
      BY <3>1, <3>2, ElementOfSeq DEF Last
  <2>5. binding.file \in FileIds /\ binding.name \in Names \cup {"*"}
    BY <2>4 DEF Bound
  <2>6. rest \in Seq(Names)
    BY <1>1, <2>2, SubSeqProperties
  <2>7. \/ binding.name # "*"
           /\ ResolveName(f, expression) = MemberOf(Provided(binding.file, binding.name), rest)
        \/ rest # << >>
           /\ ResolveName(f, expression) = MemberOf(Provided(binding.file, Head(rest)), Tail(rest))
        \/ ResolveName(f, expression) = None
    BY <2>3, Zenon DEF ResolveBound
  <2> HIDE DEF n, bindings, binding, rest
  <2>8. rest # << >> => Head(rest) \in Names
    BY <2>6, HeadTailProperties
  <2>9. \A name \in Names : Provided(binding.file, name) \in SymbolsOrNone
    BY <2>5, ProvidedFinds DEF Finds
  <2>10. None \in SymbolsOrNone
    BY DEF SymbolsOrNone
  <2> QED
    BY <2>5, <2>7, <2>8, <2>9, <2>10, MemberOfIn
<1> QED
  BY <1>2, <1>3

(* The bases of a class are symbols of analysed files.                     *)
LEMMA BasesIn ==
  ASSUME ProjectOK, NEW s \in SymbolsOrNone
  PROVE  Bases(s) \in Seq(SymbolsOrNone)
<1>1. CASE s = None
  BY <1>1 DEF Bases
<1>2. CASE s # None
  <2> DEFINE bases == Symbols(s.file)[s.key].bases
  <2>1. s.file \in FileIds /\ s.key \in DOMAIN Symbols(s.file)
    BY <1>2, SymbolParts
  <2>2. Symbols(s.file)[s.key] \in ExtractedSymbol
    BY <2>1, ProjectFacts
  <2>3. bases \in Seq(Expressions)
    BY <2>2 DEF ExtractedSymbol
  <2>4. Bases(s) = [n \in DOMAIN bases |-> ResolveName(s.file, bases[n])]
    BY <1>2 DEF Bases
  <2> HIDE DEF bases
  <2>5. DOMAIN bases = 1..Len(bases) /\ Len(bases) \in Nat
    BY <2>3, LenProperties
  <2>6. \A n \in 1..Len(bases) : ResolveName(s.file, bases[n]) \in SymbolsOrNone
    BY <2>1, <2>3, <2>5, ElementOfSeq, ResolveNameIn
  <2> QED
    BY <2>4, <2>5, <2>6
<1> QED
  BY <1>1, <1>2

(* What a class has itself is a symbol of its file.                        *)
LEMMA OwnMembersIn ==
  ASSUME ProjectOK, NEW name
  PROVE  /\ OwnMembers(name) \in [SymbolsOrNone -> SymbolsOrNone]
         /\ OwnMembers(name)[None] = None
<1>1. ASSUME NEW s \in SymbolsOrNone
      PROVE  Symbol(s.file, Member(s.file, s.key, name)) \in SymbolsOrNone
  <2>1. CASE s = None
    BY <2>1 DEF None, Member, Symbol, SymbolsOrNone
  <2>2. CASE s # None
    <3>1. s.file \in FileIds
      BY <2>2, SymbolParts
    <3>2. Member(s.file, s.key, name) \in 0..Len(Symbols(s.file))
      BY <3>1, IndexFacts
    <3> QED
      BY <3>1, <3>2, SymbolFacts
  <2> QED
    BY <2>1, <2>2
<1>2. OwnMembers(name)[None] = None
  <2>1. None \in SymbolsOrNone
    BY DEF SymbolsOrNone
  <2>2. Symbol(None.file, Member(None.file, None.key, name)) = None
    BY DEF None, Member, Symbol
  <2> QED
    BY <2>1, <2>2 DEF OwnMembers
<1> QED
  BY <1>1, <1>2 DEF OwnMembers

(* The class around a symbol is a symbol of the file, or there is none.    *)
LEMMA EnclosingClassIn ==
  ASSUME ProjectOK, NEW f \in FileIds, NEW key \in 0..Len(Symbols(f))
  PROVE  EnclosingClass(f, key) \in 0..Len(Symbols(f))
<1> DEFINE L == Len(Symbols(f))
           Step(g, k) == IF k = 0 THEN 0
                         ELSE IF Symbols(f)[k].kind \in Classes THEN k ELSE g[Symbols(f)[k].parent]
           Solves(n, g) == \A k \in 0..n : g[k] = Step(g, k)
           S == {n \in 0..L : \E g \in [0..n -> 0..L] : Solves(n, g)}
           Is(e) == e = [k \in 0..Len(Symbols(f)) |->
                           IF k = 0 THEN 0
                           ELSE IF Symbols(f)[k].kind \in Classes THEN k ELSE e[Symbols(f)[k].parent]]
           enclosing == CHOOSE e : Is(e)
<1>1. L \in Nat /\ \A k \in 1..L : Symbols(f)[k].parent \in 0..(k - 1)
  <2>1. L \in Nat /\ DOMAIN Symbols(f) = 1..L
    BY ProjectFacts
  <2>2. \A k \in 1..L : Symbols(f)[k] \in ExtractedSymbol /\ Symbols(f)[k].parent < k
    BY <2>1, ProjectFacts
  <2> QED
    BY <2>1, <2>2 DEF ExtractedSymbol
<1>2. 0 \in S
  <2> DEFINE z == [k \in 0..0 |-> 0]
  <2>1. z \in [0..0 -> 0..L] /\ Solves(0, z)
    BY <1>1
  <2>2. 0 \in 0..L
    BY <1>1
  <2> HIDE DEF z, Solves, L
  <2> QED
    BY <2>1, <2>2
<1>3. ASSUME NEW n \in 0..(L - 1), n \in S PROVE n + 1 \in S
  <2>1. PICK g \in [0..n -> 0..L] : Solves(n, g)
    BY <1>3
  <2> DEFINE h == [k \in 0..(n + 1) |-> IF k <= n THEN g[k] ELSE Step(g, n + 1)]
  <2>2. n + 1 \in 1..L /\ Symbols(f)[n + 1].parent \in 0..n
    BY <1>1
  <2>3. Step(g, n + 1) \in 0..L
    BY <1>1, <2>2
  <2>4. h \in [0..(n + 1) -> 0..L]
    BY <2>3
  <2>5. ASSUME NEW k \in 0..(n + 1) PROVE h[k] = Step(h, k)
    <3>1. k # 0 => Symbols(f)[k].parent \in 0..n /\ Symbols(f)[k].parent <= k - 1
      <4>1. k # 0 => k \in 1..L
        BY <2>2
      <4>2. k # 0 => Symbols(f)[k].parent \in 0..(k - 1)
        BY <1>1, <4>1
      <4> QED
        BY <4>2
    <3>2. Step(h, k) = Step(g, k)
      BY <3>1
    <3>3. h[k] = Step(g, k)
      <4>1. CASE k <= n
        <5>1. k \in 0..n /\ h[k] = g[k]
          BY <4>1
        <5> QED
          BY <2>1, <5>1
      <4>2. CASE k = n + 1
        <5> HIDE DEF Step
        <5> QED
          BY <4>2
      <4> QED
        BY <4>1, <4>2
    <3> QED
      BY <3>2, <3>3
  <2> HIDE DEF h, Step
  <2> QED
    BY <2>2, <2>4, <2>5
<1>4. L \in S
  <2> HIDE DEF S, L
  <2>1. \A m \in 0..L : m \in S
    BY <1>1, <1>2, <1>3, Climb
  <2> QED
    BY <1>1, <2>1
<1>5. PICK g \in [0..L -> 0..L] : Solves(L, g)
  BY <1>4
<1>6. Is(g)
  BY <1>5
<1>7. Is(enclosing)
  <2> HIDE DEF Is
  <2> QED
    BY <1>6
<1>8. EnclosingClass(f, key) = enclosing[key]
  BY DEF EnclosingClass
<1> HIDE DEF enclosing
<1>9. \A k \in 0..L : enclosing[k] = Step(enclosing, k)
  BY <1>7
<1> DEFINE Low(k) == enclosing[k] \in 0..L
           U == {k \in 0..L : \A m \in 0..k : Low(m)}
<1>10. 0 \in U
  BY <1>1, <1>9
<1>11. ASSUME NEW k \in 0..(L - 1), k \in U PROVE k + 1 \in U
  <2>1. k + 1 \in 1..L /\ k + 1 \in 0..L /\ Symbols(f)[k + 1].parent \in 0..k
    BY <1>1
  <2>2. enclosing[Symbols(f)[k + 1].parent] \in 0..L
    BY <1>11, <2>1
  <2>3. Low(k + 1)
    BY <1>9, <2>1, <2>2
  <2> HIDE DEF Low
  <2>4. \A m \in 0..(k + 1) : m \in 0..k \/ m = k + 1
    BY <1>1
  <2> QED
    BY <1>11, <2>1, <2>3, <2>4
<1>12. \A m \in 0..L : m \in U
  <2> HIDE DEF U, L
  <2> QED
    BY <1>1, <1>10, <1>11, Climb
<1> QED
  BY <1>1, <1>8, <1>12

(* From where nothing is next, only that place can be reached.             *)
LEMMA WithinAlone ==
  ASSUME NEW X, NEW next, \A x \in X : next[x] \in Seq(X), NEW x \in X, next[x] = << >>
  PROVE  Within(next, x) = {x}
<1>1. MaxReexportDepth \in Nat
  BY GraphAssumption
<1>2. PICK W : IsReach(W, X, next)
  BY ReachExists
<1>3. Within(next, x) = W[MaxReexportDepth][x]
  BY <1>2, WithinIsReach
<1>4. CASE MaxReexportDepth = 0
  BY <1>2, <1>3, <1>4 DEF IsReach
<1>5. CASE MaxReexportDepth # 0
  <2>1. MaxReexportDepth \in 1..MaxReexportDepth
    BY <1>1, <1>5
  <2>2. W[MaxReexportDepth][x] = FirstStep(W[MaxReexportDepth - 1], next, x)
    BY <1>2, <2>1, ReachUnfolds
  <2>3. ToSet(next[x]) = {}
    BY DEF ToSet
  <2> QED
    BY <1>3, <2>2, <2>3 DEF FirstStep
<1> QED
  BY <1>4, <1>5

(* A call of self.name ends where the member is inherited from.            *)
LEMMA SelfIsInherited ==
  ASSUME ProjectOK, NEW r, r.kind \in {"calls", "renders"}, r.file \in FileIds,
         r.key \in 0..Len(Symbols(r.file)), IsOwnMember(r.expression)
  PROVE  IsInherited(r) /\ Target(r) \in SymbolsOrNone
<1> DEFINE name == r.expression[2]
           enclosing == EnclosingClass(r.file, r.key)
           class == Symbol(r.file, enclosing)
           own == OwnMembers(name)
           found == DepthFirst(own, AllBases)[class]
           reached == Within(AllBases, class)
<1>1. enclosing \in 0..Len(Symbols(r.file))
  BY EnclosingClassIn
<1>2. class \in SymbolsOrNone /\ (class = None <=> enclosing = 0)
  <2> HIDE DEF enclosing
  <2> QED
    BY <1>1, SymbolFacts
<1>3. Target(r) = Resolve(r.file, r.key, r.expression)
  BY Zenon DEF Target
<1>4. Target(r) = IF enclosing = 0 THEN None ELSE found
  BY <1>3 DEF Resolve, ClassMember
<1>5. own \in [SymbolsOrNone -> SymbolsOrNone] /\ own[None] = None
  BY OwnMembersIn
<1>6. \A s \in SymbolsOrNone : AllBases[s] \in Seq(SymbolsOrNone)
  BY BasesIn DEF AllBases
<1>7. None \in SymbolsOrNone
  BY DEF SymbolsOrNone
<1> DEFINE Led(target) ==
             \E n \in 1..(MaxReexportDepth + 1) : \E way \in [1..n -> SymbolsOrNone] :
               /\ way[1] = class /\ IsFirstWay(own, AllBases, way, n)
               /\ target = own[way[n]] /\ target # None
<1>8. IsInherited(r) <=> IF \A s \in reached : own[s] = None THEN Target(r) = None ELSE Led(Target(r))
  BY DEF IsInherited
<1> HIDE DEF own, class, enclosing
<1>9. reached \in SUBSET SymbolsOrNone /\ Finds(own, SymbolsOrNone, class, reached, found)
  BY <1>2, <1>5, <1>6, <1>7, DepthFirstFinds
<1>10. class = None => reached = {None}
  <2>1. AllBases[None] = << >>
    BY <1>7 DEF AllBases, Bases
  <2> QED
    BY <1>6, <1>7, <2>1, WithinAlone
<1>11. found # None => Led(found)
  BY <1>2, <1>5, <1>6, <1>7, DepthFirstLeads
<1> HIDE DEF found, reached, Led
<1>12. CASE enclosing = 0
  <2>1. (\A s \in reached : own[s] = None) /\ Target(r) = None
    BY <1>2, <1>4, <1>5, <1>10, <1>12
  <2> QED
    BY <1>7, <1>8, <2>1
<1>13. CASE enclosing # 0
  <2>1. Target(r) = found
    BY <1>4, <1>13
  <2>2. found \in SymbolsOrNone /\ (found = None <=> \A s \in reached : own[s] = None)
    BY <1>9 DEF Finds
  <2> QED
    BY <1>8, <1>11, <2>1, <2>2
<1> QED
  BY <1>12, <1>13

-----------------------------------------------------------------------------
(* The references.                                                         *)

\* What a reference may be.
IsReference(r) ==
  /\ r.kind = "imports" => r.key = 0 /\ r.to \in FileIds
  /\ r.kind # "imports" =>
       r.key \in 1..Len(Symbols(r.file)) /\ r.expression \in Expressions /\ ~r.confirmed
GraphReferences ==
  {r \in [kind : {"imports", "calls", "renders", "inherits"}, file : FileIds, key : Nat,
          expression : Seq(Names \cup {"*"}), to : Nat, confirmed : BOOLEAN] : IsReference(r)}

(* An import refers to analysed files.                                     *)
LEMMA ImportReferencesIn ==
  ASSUME ProjectOK, NEW f \in FileIds
  PROVE  ImportReferences(f) \in Seq(GraphReferences)
<1> DEFINE To(target, confirmed) ==
             IF target = 0 THEN << >>
             ELSE <<Reference("imports", f, 0, <<"*">>, target, confirmed)>>
           OfImport(i) ==
             To(Imports(f)[i].target, Imports(f)[i].confirmed)
               \o FlattenSeq([n \in DOMAIN Imports(f)[i].submodules |->
                    To(Imports(f)[i].submodules[n].target, Imports(f)[i].submodules[n].confirmed)])
           all == [i \in DOMAIN Imports(f) |-> OfImport(i)]
<1>1. ImportReferences(f) = FlattenSeq(all)
  BY DEF ImportReferences
<1>2. \A target, confirmed : (target # 0 => target \in FileIds) /\ confirmed \in BOOLEAN =>
        To(target, confirmed) \in Seq(GraphReferences)
  <2>1. SUFFICES ASSUME NEW target, NEW confirmed \in BOOLEAN, target # 0 => target \in FileIds
                 PROVE  To(target, confirmed) \in Seq(GraphReferences)
    OBVIOUS
  <2> DEFINE r == Reference("imports", f, 0, <<"*">>, target, confirmed)
  <2>2. r = [kind |-> "imports", file |-> f, key |-> 0, expression |-> <<"*">>, to |-> target,
             confirmed |-> confirmed]
    BY DEF Reference
  <2>3. ASSUME target # 0 PROVE r \in GraphReferences
    <3>1. target \in Nat
      BY <2>1, <2>3, ProjectFacts
    <3>2. <<"*">> \in Seq(Names \cup {"*"})
      OBVIOUS
    <3>3. IsReference(r)
      BY <2>1, <2>2, <2>3 DEF IsReference
    <3> HIDE DEF r
    <3>4. r \in [kind : {"imports", "calls", "renders", "inherits"}, file : FileIds, key : Nat,
                 expression : Seq(Names \cup {"*"}), to : Nat, confirmed : BOOLEAN]
      BY <2>2, <3>1, <3>2
    <3> QED
      BY <3>3, <3>4 DEF GraphReferences
  <2> HIDE DEF r
  <2>4. \A x \in GraphReferences : <<x>> \in Seq(GraphReferences)
    OBVIOUS
  <2>5. << >> \in Seq(GraphReferences)
    OBVIOUS
  <2> QED
    BY <2>3, <2>4, <2>5 DEF r
<1>3. ASSUME NEW i \in DOMAIN Imports(f) PROVE OfImport(i) \in Seq(GraphReferences)
  <2> DEFINE D == DOMAIN Imports(f)[i].submodules
             Of(n) == To(Imports(f)[i].submodules[n].target, Imports(f)[i].submodules[n].confirmed)
             first == To(Imports(f)[i].target, Imports(f)[i].confirmed)
             s == [n \in D |-> Of(n)]
  <2>1. D = 1..Len(Imports(f)[i].submodules) /\ Len(Imports(f)[i].submodules) \in Nat
    BY ImportFacts
  <2>2. /\ Imports(f)[i].target # 0 => Imports(f)[i].target \in FileIds
        /\ Imports(f)[i].confirmed \in BOOLEAN
    <3>1. Imports(f)[i] \in ExtractedImport
      BY ImportFacts
    <3> QED
      BY <3>1, ImportFacts DEF ExtractedImport
  <2>3. ASSUME NEW n \in D PROVE Of(n) \in Seq(GraphReferences)
    <3> DEFINE t == Imports(f)[i].submodules[n]
    <3>1. t \in [name : Names, target : Nat, confirmed : BOOLEAN] /\ t \in ToSet(Imports(f)[i].submodules)
      BY ImportFacts DEF ToSet
    <3>2. t.confirmed \in BOOLEAN
      BY <3>1
    <3>3. t.target # 0 => t.target \in FileIds
      <4> HIDE DEF t
      <4> QED
        BY <3>1, ImportFacts
    <3> HIDE DEF To, t
    <3>4. To(t.target, t.confirmed) \in Seq(GraphReferences)
      BY <1>2, <3>2, <3>3
    <3> QED
      BY <3>4 DEF t
  <2> HIDE DEF To
  <2>4. first \in Seq(GraphReferences)
    BY <1>2, <2>2
  <2> HIDE DEF Of
  <2>5. s \in [D -> Seq(GraphReferences)]
    BY <2>3
  <2> HIDE DEF s, D, first
  <2>6. FlattenSeq(s) \in Seq(GraphReferences)
    BY <2>1, <2>5, FlattenOver
  <2>7. first \o FlattenSeq(s) \in Seq(GraphReferences)
    BY <2>4, <2>6, ConcatProperties
  <2> QED
    BY <2>7 DEF first, s, D, Of
<1> HIDE DEF OfImport
<1>4. all \in [DOMAIN Imports(f) -> Seq(GraphReferences)]
  BY <1>3
<1> HIDE DEF all
<1>5. DOMAIN Imports(f) = 1..Len(Imports(f)) /\ Len(Imports(f)) \in Nat
  BY ImportFacts
<1> QED
  BY <1>1, <1>4, <1>5, FlattenOver

(* A reference of a symbol, by an expression.                              *)
LEMMA SymbolReferenceIn ==
  ASSUME ProjectOK, NEW f \in FileIds, NEW kind \in {"calls", "renders", "inherits"},
         NEW key \in 1..Len(Symbols(f)), NEW expression \in Expressions
  PROVE  Reference(kind, f, key, expression, 0, FALSE) \in GraphReferences
<1> DEFINE r == Reference(kind, f, key, expression, 0, FALSE)
<1>1. r = [kind |-> kind, file |-> f, key |-> key, expression |-> expression, to |-> 0,
           confirmed |-> FALSE]
  BY DEF Reference
<1>2. key \in Nat /\ expression \in Seq(Names \cup {"*"})
  <2>1. Len(Symbols(f)) \in Nat
    BY ProjectFacts
  <2>2. expression \in Seq(Names)
    BY DEF Expressions
  <2>3. expression \in Seq(Names \cup {"*"})
    <3>1. Len(expression) \in Nat /\ expression \in [1..Len(expression) -> Names]
      BY <2>2, LenProperties
    <3>2. expression \in [1..Len(expression) -> Names \cup {"*"}]
      BY <3>1
    <3> QED
      BY <3>1, <3>2
  <2> QED
    BY <2>1, <2>3
<1> HIDE DEF r
<1>3. /\ r.kind # "imports" /\ r.file = f /\ r.key = key /\ r.expression = expression
      /\ r.confirmed = FALSE
  BY <1>1
<1>4. IsReference(r)
  BY <1>3 DEF IsReference
<1>5. r \in [kind : {"imports", "calls", "renders", "inherits"}, file : FileIds, key : Nat,
             expression : Seq(Names \cup {"*"}), to : Nat, confirmed : BOOLEAN]
  BY <1>1, <1>2
<1>6. r \in GraphReferences
  BY <1>4, <1>5 DEF GraphReferences
<1> QED
  BY <1>6 DEF r

(* So does a call, if it has a caller.                                     *)
LEMMA CallReferencesIn ==
  ASSUME ProjectOK, NEW f \in FileIds
  PROVE  CallReferences(f) \in Seq(GraphReferences)
<1> DEFINE calls == project[f].calls
           Of(n) == IF calls[n].caller = 0 THEN << >>
                    ELSE <<Reference(calls[n].kind, f, calls[n].caller, calls[n].callee, 0, FALSE)>>
           all == [n \in DOMAIN calls |-> Of(n)]
           Call == [caller : Nat, callee : Expressions, kind : {"calls", "renders"}]
<1>1. CallReferences(f) = FlattenSeq(all)
  BY DEF CallReferences
<1>2. calls \in Seq(Call)
  <2>1. project[f] \in AnalyzedFile
    BY ProjectFacts
  <2> QED
    BY <2>1 DEF AnalyzedFile
<1>3. DOMAIN calls = 1..Len(calls) /\ Len(calls) \in Nat /\ \A n \in DOMAIN calls : calls[n] \in Call
  <2> HIDE DEF calls, Call
  <2>1. DOMAIN calls = 1..Len(calls) /\ Len(calls) \in Nat
    BY <1>2, LenProperties
  <2> QED
    BY <1>2, <2>1, ElementOfSeq
<1>4. ASSUME NEW n \in DOMAIN calls PROVE calls[n].caller <= Len(Symbols(f))
  <2> DEFINE call == calls[n]
  <2>1. call \in ToSet(project[f].calls)
    BY DEF ToSet
  <2> HIDE DEF call
  <2>2. call.caller <= Len(project[f].symbols)
    BY <2>1, GraphAssumption DEF ProjectOK, IsAnalysed, FileIds
  <2> QED
    BY <2>2 DEF call, Symbols
<1>5. ASSUME NEW n \in DOMAIN calls PROVE Of(n) \in Seq(GraphReferences)
  <2> DEFINE call == calls[n]
             r == Reference(call.kind, f, call.caller, call.callee, 0, FALSE)
  <2>1. call \in Call /\ call.caller <= Len(Symbols(f)) /\ Len(Symbols(f)) \in Nat
    BY <1>3, <1>4, ProjectFacts
  <2> HIDE DEF call, calls
  <2>2. /\ call.kind \in {"calls", "renders", "inherits"} /\ call.callee \in Expressions
        /\ call.caller # 0 => call.caller \in 1..Len(Symbols(f))
    BY <2>1
  <2>3. call.caller # 0 => r \in GraphReferences
    BY <2>2, SymbolReferenceIn
  <2> HIDE DEF r
  <2>4. \A x \in GraphReferences : <<x>> \in Seq(GraphReferences)
    OBVIOUS
  <2>5. << >> \in Seq(GraphReferences)
    OBVIOUS
  <2> QED
    BY <2>3, <2>4, <2>5 DEF r, call
<1> HIDE DEF Of, calls
<1>6. all \in [DOMAIN calls -> Seq(GraphReferences)]
  BY <1>5
<1> HIDE DEF all
<1> QED
  BY <1>1, <1>3, <1>6, FlattenOver

(* So does a base of a class.                                              *)
LEMMA BaseReferencesIn ==
  ASSUME ProjectOK, NEW f \in FileIds
  PROVE  BaseReferences(f) \in Seq(GraphReferences)
<1> DEFINE Of(k) == [n \in DOMAIN Symbols(f)[k].bases |->
                       Reference("inherits", f, k, Symbols(f)[k].bases[n], 0, FALSE)]
           all == [k \in DOMAIN Symbols(f) |-> Of(k)]
<1>1. BaseReferences(f) = FlattenSeq(all)
  BY DEF BaseReferences
<1>2. DOMAIN Symbols(f) = 1..Len(Symbols(f)) /\ Len(Symbols(f)) \in Nat
  BY ProjectFacts
<1>3. ASSUME NEW k \in DOMAIN Symbols(f) PROVE Of(k) \in Seq(GraphReferences)
  <2> DEFINE bases == Symbols(f)[k].bases
  <2>1. Symbols(f)[k] \in ExtractedSymbol
    BY ProjectFacts
  <2>2. bases \in Seq(Expressions)
    BY <2>1 DEF ExtractedSymbol
  <2> HIDE DEF bases
  <2>3. DOMAIN bases = 1..Len(bases) /\ Len(bases) \in Nat
        /\ \A n \in DOMAIN bases : bases[n] \in Expressions
    BY <2>2, LenProperties, ElementOfSeq
  <2>4. \A n \in DOMAIN bases : Reference("inherits", f, k, bases[n], 0, FALSE) \in GraphReferences
    BY <1>2, <2>3, SymbolReferenceIn
  <2> DEFINE s == [n \in DOMAIN bases |-> Reference("inherits", f, k, bases[n], 0, FALSE)]
  <2>5. s \in Seq(GraphReferences)
    <3>1. s \in [1..Len(bases) -> GraphReferences]
      BY <2>3, <2>4
    <3> HIDE DEF s
    <3> QED
      BY <2>3, <3>1
  <2> QED
    BY <2>5 DEF bases
<1> HIDE DEF Of
<1>4. all \in [DOMAIN Symbols(f) -> Seq(GraphReferences)]
  BY <1>3
<1> HIDE DEF all
<1> QED
  BY <1>1, <1>2, <1>4, FlattenOver

(* So do all the references of a project.                                  *)
LEMMA ReferencesIn ==
  ASSUME ProjectOK
  PROVE  References \in Seq(GraphReferences)
<1> DEFINE imports == [f \in FileIds |-> ImportReferences(f)]
           others == [f \in FileIds |-> CallReferences(f) \o BaseReferences(f)]
<1>1. FileIds = 1..Len(project) /\ Len(project) \in Nat
  BY ProjectFacts
<1>2. imports \in [FileIds -> Seq(GraphReferences)]
  BY ImportReferencesIn
<1>3. others \in [FileIds -> Seq(GraphReferences)]
  BY CallReferencesIn, BaseReferencesIn, ConcatProperties
<1>4. References = FlattenSeq(imports) \o FlattenSeq(others)
  BY DEF References
<1> HIDE DEF imports, others
<1>5. FlattenSeq(imports) \in Seq(GraphReferences) /\ FlattenSeq(others) \in Seq(GraphReferences)
  BY <1>1, <1>2, <1>3, FlattenOver
<1> QED
  BY <1>4, <1>5, ConcatProperties

-----------------------------------------------------------------------------
(* What the steps leave alone: every operator of the files.                *)

(* A name resolves to the same as long as the files are the same.          *)
LEMMA SameName ==
  ASSUME project' = project, NEW f, NEW expression
  PROVE  ResolveName(f, expression)' = ResolveName(f, expression)
<1>1. BoundPrefixes(f, expression)' = BoundPrefixes(f, expression)
  BY SMT DEF BoundPrefixes, Bindings, BindingOf, IsPythonFile, Imports
<1>2. MemberOf(Symbol(f, TopLevel(f, Head(expression))), Tail(expression))'
        = MemberOf(Symbol(f, TopLevel(f, Head(expression))), Tail(expression))
  BY SMT DEF MemberOf, Member, Symbols, TopLevel
<1>3. \A n : ResolveBound(f, expression, n)' = ResolveBound(f, expression, n)
  BY SMT DEF ResolveBound, Bindings, BindingOf, IsPythonFile, Imports, MemberOf, Member, TopLevel,
             Symbols, Provided, LookupExport, OwnExports, ForwardedTo, Forwards, Asked, FileIds,
             Own, LocalName, IsExportedName
<1> QED
  BY <1>1, <1>2, <1>3 DEF ResolveName

(* So does a call.                                                         *)
LEMMA SameCall ==
  ASSUME project' = project, NEW f, NEW caller, NEW expression
  PROVE  Resolve(f, caller, expression)' = Resolve(f, caller, expression)
<1>1. \A g, e : ResolveName(g, e)' = ResolveName(g, e)
  BY SameName
<1>2. \A s : Bases(s)' = Bases(s)
  <2>1. SUFFICES ASSUME NEW s PROVE Bases(s)' = Bases(s)
    OBVIOUS
  <2>2. Symbols(s.file)' = Symbols(s.file)
    BY DEF Symbols
  <2> QED
    BY <1>1, <2>2 DEF Bases
<1>3. SymbolsOrNone' = SymbolsOrNone
  BY DEF SymbolsOrNone, AllSymbols, FileIds, Symbols
<1>4. AllBases' = AllBases
  BY <1>2, <1>3 DEF AllBases
<1>5. \A name : OwnMembers(name)' = OwnMembers(name)
  BY DEF OwnMembers, SymbolsOrNone, AllSymbols, FileIds, Symbols, Member
<1>6. \A class, name : ClassMember(f, class, name)' = ClassMember(f, class, name)
  BY <1>4, <1>5 DEF ClassMember
<1>7. EnclosingClass(f, caller)' = EnclosingClass(f, caller)
  BY DEF EnclosingClass, Symbols
<1> QED
  BY <1>1, <1>6, <1>7 DEF Resolve

(* So the references and their edges are the same.                         *)
LEMMA SameReferences ==
  ASSUME project' = project
  PROVE  /\ References' = References /\ GraphReferences' = GraphReferences
         /\ \A r : EdgeOf(r)' = EdgeOf(r)
         /\ \A edge : IsReal(edge)' = IsReal(edge)
<1>1. References' = References
  BY SMT DEF References, ImportReferences, CallReferences, BaseReferences, FileIds, Imports, Symbols
<1>2. GraphReferences' = GraphReferences
  BY DEF GraphReferences, IsReference, FileIds, Symbols
<1>3. \A r : EdgeOf(r)' = EdgeOf(r)
  <2>1. SUFFICES ASSUME NEW r PROVE EdgeOf(r)' = EdgeOf(r)
    OBVIOUS
  <2>2. ResolveName(r.file, r.expression)' = ResolveName(r.file, r.expression)
    BY SameName
  <2>3. Resolve(r.file, r.key, r.expression)' = Resolve(r.file, r.key, r.expression)
    BY SameCall
  <2>4. Target(r)' = Target(r)
    BY <2>2, <2>3, Zenon DEF Target
  <2> QED
    BY <2>4 DEF EdgeOf, From
<1>4. \A edge : IsReal(edge)' = IsReal(edge)
  BY DEF IsReal, IsClassLike, Symbols
<1> QED
  BY <1>1, <1>2, <1>3, <1>4

-----------------------------------------------------------------------------
(* Counting the references: the inductive invariant.                       *)

\* The references that stand for an edge, among the first n.
UsesOf(edge, n) == {m \in 1..n : EdgeOf(References[m]) = edge}

\* The edges e are those of the first n references, and are counted.
AreEdges(e, n) == DOMAIN e = {edge \in {EdgeOf(References[m]) : m \in 1..n} : IsReal(edge)}
AreCounted(e, n) ==
  \A edge \in DOMAIN e :
    /\ e[edge].weight = Cardinality(UsesOf(edge, n))
    /\ e[edge].confirmed <=> \E m \in UsesOf(edge, n) : References[m].confirmed

Done == Len(References) - Len(pending)

GraphInv ==
  /\ ProjectOK
  /\ pending \in Seq(GraphReferences) /\ Len(pending) <= Len(References)
  /\ \A m \in DOMAIN pending : pending[m] = References[Done + m]
  /\ AreEdges(edges, Done) /\ AreCounted(edges, Done)

\* The edges after are those before with one more use of an edge.
EdgeBefore(e, edge) == IF edge \in DOMAIN e THEN e[edge] ELSE [weight |-> 0, confirmed |-> FALSE]
Added(e, after, edge, confirmed) ==
  after = [other \in DOMAIN e \cup {edge} |->
             IF other = edge THEN [weight |-> EdgeBefore(e, edge).weight + 1,
                                   confirmed |-> EdgeBefore(e, edge).confirmed \/ confirmed]
             ELSE e[other]]
Counts(e, after, r) ==
  IF IsReal(EdgeOf(r)) THEN Added(e, after, EdgeOf(r), r.confirmed) ELSE after = e

(* The uses of an edge, one reference later.                               *)
LEMMA UsesGrow ==
  ASSUME NEW edge, NEW n \in Nat
  PROVE  /\ IsFiniteSet(UsesOf(edge, n)) /\ Cardinality(UsesOf(edge, n)) \in Nat
         /\ EdgeOf(References[n + 1]) = edge =>
              /\ UsesOf(edge, n + 1) = UsesOf(edge, n) \cup {n + 1}
              /\ Cardinality(UsesOf(edge, n + 1)) = Cardinality(UsesOf(edge, n)) + 1
         /\ EdgeOf(References[n + 1]) # edge => UsesOf(edge, n + 1) = UsesOf(edge, n)
<1>1. \A m : m \in 1..(n + 1) <=> m \in 1..n \/ m = n + 1
  OBVIOUS
<1>2. IsFiniteSet(UsesOf(edge, n))
  <2>1. IsFiniteSet(1..n) /\ UsesOf(edge, n) \subseteq 1..n
    BY FS_Interval DEF UsesOf
  <2> QED
    BY <2>1, FS_Subset
<1>3. n + 1 \notin UsesOf(edge, n)
  BY DEF UsesOf
<1>4. EdgeOf(References[n + 1]) = edge => UsesOf(edge, n + 1) = UsesOf(edge, n) \cup {n + 1}
  BY <1>1 DEF UsesOf
<1>5. EdgeOf(References[n + 1]) # edge => UsesOf(edge, n + 1) = UsesOf(edge, n)
  BY <1>1 DEF UsesOf
<1>6. Cardinality(UsesOf(edge, n)) \in Nat
  BY <1>2, FS_CardinalityType
<1>7. Cardinality(UsesOf(edge, n) \cup {n + 1}) = Cardinality(UsesOf(edge, n)) + 1
  BY <1>2, <1>3, FS_AddElement
<1> QED
  BY <1>2, <1>4, <1>5, <1>6, <1>7

(* An edge that is not there has no uses.                                  *)
LEMMA BeforeFacts ==
  ASSUME NEW n \in Nat, NEW e, AreEdges(e, n), AreCounted(e, n), NEW edge, IsReal(edge)
  PROVE  /\ EdgeBefore(e, edge).weight = Cardinality(UsesOf(edge, n))
         /\ EdgeBefore(e, edge).confirmed <=> \E m \in UsesOf(edge, n) : References[m].confirmed
<1>1. CASE edge \in DOMAIN e
  BY <1>1 DEF EdgeBefore, AreCounted
<1>2. CASE edge \notin DOMAIN e
  <2>1. UsesOf(edge, n) = {}
    BY <1>2 DEF AreEdges, UsesOf
  <2>2. Cardinality(UsesOf(edge, n)) = 0
    BY <2>1, FS_EmptySet
  <2> QED
    BY <1>2, <2>1, <2>2 DEF EdgeBefore
<1> QED
  BY <1>1, <1>2

(* One more reference is accounted for.                                    *)
LEMMA CountsOneMore ==
  ASSUME NEW n \in Nat, NEW e, AreEdges(e, n), AreCounted(e, n), NEW after,
         References[n + 1].confirmed \in BOOLEAN, Counts(e, after, References[n + 1])
  PROVE  AreEdges(after, n + 1) /\ AreCounted(after, n + 1)
<1> DEFINE r == References[n + 1]
           edge == EdgeOf(r)
<1>1. {EdgeOf(References[m]) : m \in 1..(n + 1)} = {EdgeOf(References[m]) : m \in 1..n} \cup {edge}
  <2>1. \A m : m \in 1..(n + 1) <=> m \in 1..n \/ m = n + 1
    OBVIOUS
  <2> QED
    BY <2>1
<1>2. CASE ~IsReal(edge)
  <2>1. after = e
    BY <1>2 DEF Counts
  <2>2. AreEdges(e, n + 1)
    BY <1>1, <1>2 DEF AreEdges
  <2>3. ASSUME NEW other \in DOMAIN e PROVE UsesOf(other, n + 1) = UsesOf(other, n)
    <3>1. IsReal(other)
      BY DEF AreEdges
    <3>2. EdgeOf(References[n + 1]) # other
      BY <1>2, <3>1
    <3> QED
      BY <3>2, UsesGrow
  <2>4. AreCounted(e, n + 1)
    BY <2>3 DEF AreCounted
  <2> QED
    BY <2>1, <2>2, <2>4
<1>3. CASE IsReal(edge)
  <2>1. Added(e, after, edge, r.confirmed)
    BY <1>3 DEF Counts
  <2>2. /\ DOMAIN after = DOMAIN e \cup {edge}
        /\ after[edge].weight = EdgeBefore(e, edge).weight + 1
        /\ after[edge].confirmed <=> EdgeBefore(e, edge).confirmed \/ r.confirmed
        /\ \A other \in DOMAIN e : other # edge => after[other] = e[other]
    <3> HIDE DEF r, edge
    <3> QED
      BY <2>1 DEF Added
  <2>3. /\ EdgeBefore(e, edge).weight = Cardinality(UsesOf(edge, n))
        /\ EdgeBefore(e, edge).confirmed <=> \E m \in UsesOf(edge, n) : References[m].confirmed
    BY <1>3, BeforeFacts
  <2>4. /\ UsesOf(edge, n + 1) = UsesOf(edge, n) \cup {n + 1}
        /\ Cardinality(UsesOf(edge, n + 1)) = Cardinality(UsesOf(edge, n)) + 1
    BY UsesGrow
  <2>5. AreEdges(after, n + 1)
    BY <1>1, <1>3, <2>2 DEF AreEdges
  <2>6. ASSUME NEW other \in DOMAIN after
        PROVE  /\ after[other].weight = Cardinality(UsesOf(other, n + 1))
               /\ after[other].confirmed <=> \E m \in UsesOf(other, n + 1) : References[m].confirmed
    <3>1. CASE other = edge
      <4>1. after[edge].weight = Cardinality(UsesOf(edge, n + 1))
        BY <2>2, <2>3, <2>4
      <4>2. after[edge].confirmed <=> \E m \in UsesOf(edge, n + 1) : References[m].confirmed
        <5>1. (\E m \in UsesOf(edge, n + 1) : References[m].confirmed)
                <=> (\E m \in UsesOf(edge, n) : References[m].confirmed) \/ r.confirmed
          BY <2>4
        <5> HIDE DEF edge, r
        <5> QED
          BY <2>2, <2>3, <5>1
      <4> QED
        BY <3>1, <4>1, <4>2
    <3>2. CASE other # edge
      <4>1. other \in DOMAIN e /\ after[other] = e[other]
        BY <2>2, <3>2
      <4>2. UsesOf(other, n + 1) = UsesOf(other, n)
        BY <3>2, UsesGrow
      <4> QED
        BY <4>1, <4>2 DEF AreCounted
    <3> QED
      BY <3>1, <3>2
  <2> HIDE DEF edge
  <2> QED
    BY <2>5, <2>6 DEF AreCounted
<1> QED
  BY <1>2, <1>3

(* Connect adds an edge, unless it would lead back.                        *)
LEMMA ConnectAdds ==
  ASSUME NEW kind, NEW from, NEW to, NEW confirmed, Connect(kind, from, to, confirmed)
  PROVE  /\ from = to => edges' = edges
         /\ from # to =>
              Added(edges, edges', [kind |-> kind, from |-> from, to |-> to], confirmed)
BY DEF Connect, Put, Before, Added, EdgeBefore

(* The next reference.                                                     *)
LEMMA NextReference ==
  ASSUME GraphInv, pending # << >>
  PROVE  /\ Head(pending) \in GraphReferences /\ Head(pending) = References[Done + 1]
         /\ Done \in Nat /\ Done + 1 <= Len(References)
         /\ Tail(pending) \in Seq(GraphReferences) /\ Len(Tail(pending)) = Len(pending) - 1
         /\ \A m \in DOMAIN Tail(pending) : Tail(pending)[m] = References[Done + 1 + m]
<1>1. pending \in Seq(GraphReferences) /\ Len(pending) <= Len(References)
  BY DEF GraphInv
<1>2. References \in Seq(GraphReferences)
  BY ReferencesIn DEF GraphInv
<1>3. Len(References) \in Nat /\ Len(pending) \in Nat /\ Len(pending) # 0
  BY <1>1, <1>2, LenProperties, EmptySeq
<1>4. Head(pending) = pending[1] /\ Head(pending) \in GraphReferences
      /\ Tail(pending) \in Seq(GraphReferences) /\ Len(Tail(pending)) = Len(pending) - 1
  BY <1>1, HeadTailProperties
<1>5. DOMAIN pending = 1..Len(pending) /\ DOMAIN Tail(pending) = 1..(Len(pending) - 1)
  BY <1>1, <1>4, LenProperties
<1>6. Done \in Nat /\ Done + 1 <= Len(References)
  BY <1>1, <1>3 DEF Done
<1>7. pending[1] = References[Done + 1]
  BY <1>3, <1>5 DEF GraphInv
<1>8. ASSUME NEW m \in DOMAIN Tail(pending) PROVE Tail(pending)[m] = References[Done + 1 + m]
  <2>1. Tail(pending)[m] = pending[m + 1]
    BY <1>1, <1>3, <1>5
  <2>2. m + 1 \in DOMAIN pending
    BY <1>3, <1>5
  <2>3. pending[m + 1] = References[Done + (m + 1)]
    BY <2>2 DEF GraphInv
  <2>4. Done + (m + 1) = Done + 1 + m
    BY <1>5, <1>6
  <2> QED
    BY <2>1, <2>3, <2>4
<1> QED
  BY <1>4, <1>6, <1>7, <1>8

(* A step that counts the next reference keeps the invariant.              *)
LEMMA CountingKeepsGraphInv ==
  ASSUME GraphInv, pending # << >>, pending' = Tail(pending), project' = project,
         Counts(edges, edges', Head(pending))
  PROVE  GraphInv'
<1>1. /\ Head(pending) \in GraphReferences /\ Head(pending) = References[Done + 1]
      /\ Done \in Nat /\ Done + 1 <= Len(References)
      /\ Tail(pending) \in Seq(GraphReferences) /\ Len(Tail(pending)) = Len(pending) - 1
      /\ \A m \in DOMAIN Tail(pending) : Tail(pending)[m] = References[Done + 1 + m]
  BY NextReference
<1>2. /\ References' = References /\ GraphReferences' = GraphReferences
      /\ \A r : EdgeOf(r)' = EdgeOf(r)
      /\ \A edge : IsReal(edge)' = IsReal(edge)
  BY SameReferences
<1>3. Len(pending) \in Nat /\ Len(References) \in Nat
  <2>1. References \in Seq(GraphReferences) /\ pending \in Seq(GraphReferences)
    BY ReferencesIn DEF GraphInv
  <2> QED
    BY <2>1, LenProperties
<1>4. Done' = Done + 1
  BY <1>1, <1>2, <1>3 DEF Done
<1>5. AreEdges(edges', Done + 1) /\ AreCounted(edges', Done + 1)
  <2>1. Head(pending).confirmed \in BOOLEAN
    BY <1>1 DEF GraphReferences
  <2>2. AreEdges(edges, Done) /\ AreCounted(edges, Done)
    BY DEF GraphInv
  <2>3. /\ Done \in Nat /\ References[Done + 1].confirmed \in BOOLEAN
        /\ Counts(edges, edges', References[Done + 1])
    BY <1>1, <2>1
  <2> QED
    BY <2>2, <2>3, CountsOneMore
<1>6. \A edge, n : UsesOf(edge, n)' = UsesOf(edge, n)
  BY <1>2 DEF UsesOf
<1>7. AreEdges(edges, Done)'
  BY <1>2, <1>4, <1>5 DEF AreEdges
<1>8. AreCounted(edges, Done)'
  BY <1>2, <1>4, <1>5, <1>6 DEF AreCounted
<1>9. ProjectOK'
  BY DEF GraphInv, ProjectOK
<1>10. pending' \in Seq(GraphReferences)' /\ Len(pending)' <= Len(References)'
  BY <1>1, <1>2, <1>3 DEF GraphInv
<1>11. \A m \in DOMAIN pending' : pending'[m] = References'[Done' + m]
  BY <1>1, <1>2, <1>4
<1> QED
  BY <1>7, <1>8, <1>9, <1>10, <1>11 DEF GraphInv

(* Each action counts the next reference: an import,                       *)
LEMMA AddImportCounts ==
  ASSUME GraphInv, AddImport
  PROVE  Counts(edges, edges', Head(pending))
<1> DEFINE r == Head(pending)
<1>1. r \in GraphReferences /\ r.kind = "imports"
  BY NextReference DEF AddImport, Takes
<1>2. r.key = 0 /\ r.to \in FileIds /\ r.to # 0
  <2>1. IsReference(r)
    BY <1>1 DEF GraphReferences
  <2> QED
    BY <1>1, <2>1, ProjectFacts DEF IsReference, GraphInv
<1>3. Connect("imports", [file |-> r.file, key |-> 0], [file |-> r.to, key |-> 0], r.confirmed)
  BY DEF AddImport
<1> HIDE DEF r
<1>4. Target(r) = [file |-> r.to, key |-> 0] /\ From(r) = [file |-> r.file, key |-> 0]
  <2>1. Target(r) = [file |-> r.to, key |-> 0]
    BY <1>1, Zenon DEF Target
  <2> QED
    BY <1>2, <2>1 DEF From
<1>5. EdgeOf(r) = [kind |-> "imports", from |-> From(r), to |-> Target(r)]
  BY <1>1 DEF EdgeOf
<1>6. Target(r) # None
  BY <1>2, <1>4 DEF None
<1>7. IsReal(EdgeOf(r)) <=> From(r) # Target(r)
  BY <1>5, <1>6 DEF IsReal
<1>8. Connect("imports", From(r), Target(r), r.confirmed)
  BY <1>3, <1>4
<1>9. /\ From(r) = Target(r) => edges' = edges
      /\ From(r) # Target(r) => Added(edges, edges', EdgeOf(r), r.confirmed)
  BY <1>5, <1>8, ConnectAdds
<1>10. Counts(edges, edges', r)
  BY <1>7, <1>9 DEF Counts
<1> QED
  BY <1>10 DEF r

(* a call,                                                                 *)
LEMMA AddCallCounts ==
  ASSUME GraphInv, AddCall
  PROVE  Counts(edges, edges', Head(pending))
<1> DEFINE r == Head(pending)
<1>1. r \in GraphReferences /\ r.kind \in {"calls", "renders"}
  BY NextReference DEF AddCall, Takes
<1>2. r.key # 0 /\ r.confirmed = FALSE
  <2>1. IsReference(r) /\ r.file \in FileIds /\ r.confirmed \in BOOLEAN
    BY <1>1 DEF GraphReferences
  <2>2. Len(Symbols(r.file)) \in Nat
    BY <2>1, ProjectFacts DEF GraphInv
  <2> QED
    BY <1>1, <2>1, <2>2 DEF IsReference
<1>3. LET target == Resolve(r.file, r.key, r.expression)
      IN IF target = None THEN UNCHANGED edges
         ELSE Connect(r.kind, Symbol(r.file, r.key), target, FALSE)
  BY DEF AddCall
<1> HIDE DEF r
<1>4. Target(r) = Resolve(r.file, r.key, r.expression)
  BY <1>1, Zenon DEF Target
<1>5. EdgeOf(r) = [kind |-> r.kind, from |-> From(r), to |-> Target(r)] /\ r.kind # "inherits"
  BY <1>1 DEF EdgeOf
<1>6. Symbol(r.file, r.key) = From(r)
  BY <1>2 DEF Symbol, From
<1>7. IsReal(EdgeOf(r)) <=> Target(r) # None /\ From(r) # Target(r)
  BY <1>5 DEF IsReal
<1>8. /\ Target(r) = None => edges' = edges
      /\ Target(r) # None => Connect(r.kind, From(r), Target(r), FALSE)
  BY <1>3, <1>4, <1>6
<1>9. ASSUME Target(r) # None
      PROVE  /\ From(r) = Target(r) => edges' = edges
             /\ From(r) # Target(r) => Added(edges, edges', EdgeOf(r), FALSE)
  BY <1>5, <1>8, <1>9, ConnectAdds
<1>10. Counts(edges, edges', r)
  BY <1>2, <1>7, <1>8, <1>9 DEF Counts
<1> QED
  BY <1>10 DEF r

(* and a base.                                                             *)
LEMMA AddBaseCounts ==
  ASSUME GraphInv, AddBase
  PROVE  Counts(edges, edges', Head(pending))
<1> DEFINE r == Head(pending)
<1>1. r \in GraphReferences /\ r.kind = "inherits"
  BY NextReference DEF AddBase, Takes
<1>2. r.key # 0 /\ r.confirmed = FALSE
  <2>1. IsReference(r) /\ r.file \in FileIds /\ r.confirmed \in BOOLEAN
    BY <1>1 DEF GraphReferences
  <2>2. Len(Symbols(r.file)) \in Nat
    BY <2>1, ProjectFacts DEF GraphInv
  <2> QED
    BY <1>1, <2>1, <2>2 DEF IsReference
<1>3. LET target == ResolveName(r.file, r.expression)
      IN IF target = None THEN UNCHANGED edges
         ELSE IF ~IsClassLike(target) THEN UNCHANGED edges
         ELSE Connect("inherits", Symbol(r.file, r.key), target, FALSE)
  BY DEF AddBase
<1> HIDE DEF r
<1>4. Target(r) = ResolveName(r.file, r.expression)
  BY <1>1, Zenon DEF Target
<1>5. EdgeOf(r) = [kind |-> "inherits", from |-> From(r), to |-> Target(r)]
  BY <1>1 DEF EdgeOf
<1>6. Symbol(r.file, r.key) = From(r)
  BY <1>2 DEF Symbol, From
<1>7. IsReal(EdgeOf(r)) <=> Target(r) # None /\ From(r) # Target(r) /\ IsClassLike(Target(r))
  BY <1>5 DEF IsReal
<1>8. /\ Target(r) = None \/ ~IsClassLike(Target(r)) => edges' = edges
      /\ Target(r) # None /\ IsClassLike(Target(r)) =>
           Connect("inherits", From(r), Target(r), FALSE)
  BY <1>3, <1>4, <1>6
<1>9. ASSUME Target(r) # None, IsClassLike(Target(r))
      PROVE  /\ From(r) = Target(r) => edges' = edges
             /\ From(r) # Target(r) => Added(edges, edges', EdgeOf(r), FALSE)
  BY <1>5, <1>8, <1>9, ConnectAdds
<1>10. Counts(edges, edges', r)
  BY <1>2, <1>7, <1>8, <1>9 DEF Counts
<1> QED
  BY <1>10 DEF r

(* The invariant holds at first,                                           *)
LEMMA GraphStarts == GraphInit => GraphInv
<1> SUFFICES ASSUME GraphInit PROVE GraphInv
  OBVIOUS
<1>1. ProjectOK /\ pending = References /\ edges = << >>
  BY DEF GraphInit, ProjectOK
<1>2. References \in Seq(GraphReferences)
  BY <1>1, ReferencesIn
<1>3. Len(References) \in Nat /\ DOMAIN References = 1..Len(References)
  BY <1>2, LenProperties
<1>4. Done = 0
  BY <1>1, <1>3 DEF Done
<1>5. \A m \in DOMAIN pending : pending[m] = References[Done + m]
  BY <1>1, <1>3, <1>4
<1>6. AreEdges(edges, Done) /\ AreCounted(edges, Done)
  BY <1>1, <1>4 DEF AreEdges, AreCounted
<1> QED
  BY <1>1, <1>2, <1>3, <1>5, <1>6 DEF GraphInv

(* is kept by every step,                                                  *)
LEMMA GraphSteps == GraphInv /\ [GraphNext]_graphVars => GraphInv'
<1> SUFFICES ASSUME GraphInv, [GraphNext]_graphVars PROVE GraphInv'
  OBVIOUS
<1>1. ASSUME GraphNext PROVE Counts(edges, edges', Head(pending))
  BY <1>1, AddImportCounts, AddCallCounts, AddBaseCounts DEF GraphNext
<1>2. ASSUME GraphNext
      PROVE  pending # << >> /\ pending' = Tail(pending) /\ project' = project
  BY <1>2 DEF GraphNext, AddImport, AddCall, AddBase, Takes
<1>3. CASE GraphNext
  BY <1>1, <1>2, <1>3, CountingKeepsGraphInv
<1>4. CASE UNCHANGED graphVars
  <2>1. project' = project /\ pending' = pending /\ edges' = edges
    BY <1>4 DEF graphVars
  <2>2. /\ References' = References /\ GraphReferences' = GraphReferences
        /\ \A r : EdgeOf(r)' = EdgeOf(r)
        /\ \A edge : IsReal(edge)' = IsReal(edge)
    BY <2>1, SameReferences
  <2>3. \A edge, n : UsesOf(edge, n)' = UsesOf(edge, n)
    BY <2>2 DEF UsesOf
  <2>4. Done' = Done
    BY <2>1, <2>2 DEF Done
  <2>5. AreEdges(edges, Done)' /\ AreCounted(edges, Done)'
    BY <2>1, <2>2, <2>3, <2>4 DEF GraphInv, AreEdges, AreCounted
  <2> QED
    BY <2>1, <2>2, <2>4, <2>5 DEF GraphInv, ProjectOK
<1> QED
  BY <1>3, <1>4

(* and says what the edges are when there are no references left.          *)
LEMMA GraphInvGivesEdges == GraphInv => EdgesAreReal
<1> SUFFICES ASSUME GraphInv, Built PROVE EdgesAreReal
  BY DEF EdgesAreReal
<1> DEFINE all == References
<1>1. ProjectOK /\ all \in Seq(GraphReferences)
  BY ReferencesIn DEF GraphInv
<1>2. DOMAIN all = 1..Len(all) /\ Len(all) \in Nat
  BY <1>1, LenProperties
<1>3. Done = Len(all)
  BY <1>2 DEF Done, Built
<1>4. DOMAIN edges = {edge \in {EdgeOf(r) : r \in ToSet(all)} : IsReal(edge)}
  <2>1. AreEdges(edges, Len(all))
    BY <1>3 DEF GraphInv
  <2>2. {EdgeOf(r) : r \in ToSet(all)} = {EdgeOf(all[m]) : m \in 1..Len(all)}
    BY <1>2 DEF ToSet
  <2> QED
    BY <2>1, <2>2 DEF AreEdges
<1>5. ASSUME NEW edge \in DOMAIN edges
      PROVE  LET uses == {n \in DOMAIN all : EdgeOf(all[n]) = edge}
             IN /\ edges[edge].weight = Cardinality(uses)
                /\ edges[edge].confirmed <=> \E n \in uses : all[n].confirmed
  <2>1. AreCounted(edges, Len(all))
    BY <1>3 DEF GraphInv
  <2>2. UsesOf(edge, Len(all)) = {n \in DOMAIN all : EdgeOf(all[n]) = edge}
    BY <1>2 DEF UsesOf
  <2> QED
    BY <2>1, <2>2 DEF AreCounted
<1>6. ASSUME NEW r \in ToSet(all), r.kind \in {"calls", "renders"}, IsOwnMember(r.expression)
      PROVE  IsInherited(r)
  <2>1. r \in GraphReferences
    BY <1>1, <1>2, ElementOfSeq DEF ToSet
  <2>2. r.file \in FileIds /\ r.key \in 0..Len(Symbols(r.file))
    BY <2>1, <1>6 DEF GraphReferences, IsReference
  <2> QED
    BY <1>1, <1>6, <2>2, SelfIsInherited
<1> QED
  BY <1>4, <1>5, <1>6, Zenon DEF EdgesAreReal

(* There is an edge for a reference exactly when it is resolved, to        *)
(* something else than itself and, for a base, to a class; it is counted   *)
(* once for each reference that it stands for, and is confirmed as soon as *)
(* one of them is, in whatever order they come; and self.name is searched  *)
(* depth first, from the left, in spite of cycles (graph.py:173-265,       *)
(* 309-346).                                                               *)
THEOREM EdgesStandForReferences == GraphSpec => []EdgesAreReal
<1>1. GraphSpec => []GraphInv
  BY GraphStarts, GraphSteps, PTL DEF GraphSpec
<1> QED
  BY <1>1, GraphInvGivesEdges, PTL

-----------------------------------------------------------------------------
(***************************************************************************)
(* The tsconfig files.                                                     *)
(***************************************************************************)

Extended(x) == IF IsReadable(x) THEN Written(x).extends ELSE NotSet

(* What the assumption says of the checkout.                               *)
LEMMA CheckoutIs ==
  ASSUME source \in Checkouts
  PROVE  /\ MaxExtendsDepth \in Nat
         /\ NotSet # NotLoaded /\ NotSet \notin Place
         /\ NotSet \notin LoadedConfig /\ NotLoaded \notin LoadedConfig
         /\ Paths \subseteq SourceFile /\ IsFiniteSet(Paths)
         /\ NotSet \notin TsConfigs
         /\ \A c \in TsConfigs : IsWritten(Written(c), TsConfigs)
BY ResolverAssumption DEF Paths, TsConfigs, Written

LEMMA ExtendedIs ==
  ASSUME source \in Checkouts, NEW x
  PROVE  Extended(x) \in TsConfigs \cup {NotSet}
<1>1. CASE IsReadable(x)
  BY <1>1, CheckoutIs DEF Extended, IsReadable, IsWritten
<1>2. CASE ~IsReadable(x)
  BY <1>2 DEF Extended
<1> QED
  BY <1>1, <1>2

(* The levels above a tsconfig.                                            *)
LEMMA UpwardsAre ==
  ASSUME source \in Checkouts, NEW c \in TsConfigs \cup {NotSet}
  PROVE  /\ Upwards(c)[0] = c
         /\ \A n \in 0..MaxExtendsDepth : Upwards(c)[n + 1] = Extended(Upwards(c)[n])
<1> DEFINE D == 0..(MaxExtendsDepth + 1)
           V == TsConfigs \cup {NotSet}
           F == [x \in V |-> Extended(x)]
           Solves(f) == f = [n \in D |-> IF n = 0 THEN c
                                         ELSE IF IsReadable(f[n - 1]) THEN Written(f[n - 1]).extends
                                         ELSE NotSet]
           h == CHOOSE f : Solves(f)
<1>1. MaxExtendsDepth \in Nat /\ MaxExtendsDepth + 1 \in Nat
  BY CheckoutIs
<1>2. F \in [V -> V]
  BY ExtendedIs
<1>3. PICK g \in [D -> V] : g[0] = c /\ \A n \in 1..(MaxExtendsDepth + 1) : g[n] = F[g[n - 1]]
  <2> HIDE DEF V, F
  <2>1. c \in V
    BY DEF V
  <2>2. Iterates(V, c, F, MaxExtendsDepth + 1)
    BY <1>1, <1>2, <2>1, Iteration
  <2> QED
    BY <2>2 DEF Iterates
<1>4. Solves(g)
  <2> DEFINE E(n) == IF n = 0 THEN c
                     ELSE IF IsReadable(g[n - 1]) THEN Written(g[n - 1]).extends ELSE NotSet
  <2>1. ASSUME NEW n \in D PROVE g[n] = E(n)
    <3>1. CASE n = 0
      BY <1>3, <3>1
    <3>2. CASE n # 0
      <4>1. n \in 1..(MaxExtendsDepth + 1) /\ n - 1 \in D
        BY <1>1, <3>2
      <4>2. g[n] = F[g[n - 1]] /\ g[n - 1] \in V
        BY <1>3, <4>1
      <4>3. g[n] = Extended(g[n - 1])
        BY <4>2
      <4> QED
        BY <3>2, <4>3 DEF Extended
    <3> QED
      BY <3>1, <3>2
  <2>2. g = [n \in D |-> E(n)]
    <3> HIDE DEF E
    <3> QED
      BY <1>3, <2>1
  <2> QED
    BY <2>2
<1>5. Solves(h)
  <2> HIDE DEF Solves
  <2> QED
    BY <1>4
<1>6. Upwards(c) = h
  BY DEF Upwards
<1> HIDE DEF h
<1>7. h[0] = c
  BY <1>1, <1>5
<1>8. ASSUME NEW n \in 0..MaxExtendsDepth PROVE h[n + 1] = Extended(h[n])
  <2>1. n + 1 \in D /\ n + 1 # 0 /\ (n + 1) - 1 = n
    BY <1>1
  <2> QED
    BY <1>5, <2>1 DEF Extended
<1> QED
  BY <1>6, <1>7, <1>8

(* Above a tsconfig is what is above the one that it extends.              *)
LEMMA UpwardsFromTheParent ==
  ASSUME source \in Checkouts, NEW c \in TsConfigs, IsReadable(c)
  PROVE  \A n \in 0..MaxExtendsDepth : Upwards(c)[n + 1] = Upwards(Written(c).extends)[n]
<1> DEFINE p == Written(c).extends
           S == {n \in 0..MaxExtendsDepth : Upwards(c)[n + 1] = Upwards(p)[n]}
<1>1. MaxExtendsDepth \in Nat
  BY CheckoutIs
<1>2. p = Extended(c) /\ p \in TsConfigs \cup {NotSet}
  BY ExtendedIs DEF Extended
<1>3. /\ Upwards(c)[0] = c
      /\ \A n \in 0..MaxExtendsDepth : Upwards(c)[n + 1] = Extended(Upwards(c)[n])
  BY UpwardsAre
<1>4. /\ Upwards(p)[0] = p
      /\ \A n \in 0..MaxExtendsDepth : Upwards(p)[n + 1] = Extended(Upwards(p)[n])
  <2> HIDE DEF p
  <2> QED
    BY <1>2, UpwardsAre
<1> HIDE DEF p
<1>5. 0 \in S
  <2>1. 0 \in 0..MaxExtendsDepth
    BY <1>1
  <2>2. Upwards(c)[0 + 1] = Extended(Upwards(c)[0])
    BY <1>3, <2>1
  <2> QED
    BY <1>2, <1>3, <1>4, <2>1, <2>2
<1>6. ASSUME NEW n \in 0..(MaxExtendsDepth - 1), n \in S PROVE n + 1 \in S
  <2>1. n + 1 \in 0..MaxExtendsDepth /\ n \in 0..MaxExtendsDepth
    BY <1>1
  <2>2. Upwards(c)[n + 1] = Upwards(p)[n]
    BY <1>6
  <2> QED
    BY <1>3, <1>4, <2>1, <2>2
<1> HIDE DEF S
<1>7. \A n \in 0..MaxExtendsDepth : n \in S
  BY <1>1, <1>5, <1>6, Climb
<1> QED
  BY <1>7 DEF S, p

(* What is above an unreadable tsconfig is unreadable, too.                *)
LEMMA NothingAboveUnreadable ==
  ASSUME source \in Checkouts, NEW x \in TsConfigs \cup {NotSet}, ~IsReadable(x)
  PROVE  Levels(x) = {}
<1> DEFINE S == {n \in 0..MaxExtendsDepth : ~IsReadable(Upwards(x)[n])}
<1>1. MaxExtendsDepth \in Nat /\ ~IsReadable(NotSet)
  BY CheckoutIs DEF IsReadable
<1>2. /\ Upwards(x)[0] = x
      /\ \A n \in 0..MaxExtendsDepth : Upwards(x)[n + 1] = Extended(Upwards(x)[n])
  BY UpwardsAre
<1>3. 0 \in S
  BY <1>1, <1>2
<1>4. ASSUME NEW n \in 0..(MaxExtendsDepth - 1), n \in S PROVE n + 1 \in S
  <2>1. n + 1 \in 0..MaxExtendsDepth /\ n \in 0..MaxExtendsDepth
    BY <1>1
  <2>2. Upwards(x)[n + 1] = NotSet
    BY <1>2, <1>4, <2>1 DEF Extended
  <2> QED
    BY <1>1, <2>1, <2>2
<1> HIDE DEF S
<1>5. \A n \in 0..MaxExtendsDepth : n \in S
  BY <1>1, <1>3, <1>4, Climb
<1> QED
  BY <1>5 DEF S, Levels

Raised(S) == {n + 1 : n \in S}

LEMMA MinOfRaised ==
  ASSUME NEW S \in SUBSET Nat, S # {}
  PROVE  Min(Raised(S)) = Min(S) + 1
<1>1. Min(S) \in Nat /\ Min(S) \in S /\ \A y \in S : Min(S) <= y
  BY MinIsLeast
<1>2. Raised(S) \in SUBSET Nat /\ Raised(S) # {}
  <2>1. \A n \in S : n + 1 \in Nat
    OBVIOUS
  <2>2. Min(S) + 1 \in Raised(S)
    BY <1>1 DEF Raised
  <2> QED
    BY <2>1, <2>2, Zenon DEF Raised
<1>3. Min(Raised(S)) \in Raised(S) /\ \A y \in Raised(S) : Min(Raised(S)) <= y
  BY <1>2, MinIsLeast
<1>4. PICK n \in S : Min(Raised(S)) = n + 1
  BY <1>3 DEF Raised
<1>5. Min(S) + 1 \in Raised(S)
  BY <1>1 DEF Raised
<1>6. n \in Nat /\ Min(S) <= n
  BY <1>1
<1>7. n + 1 <= Min(S) + 1
  BY <1>3, <1>4, <1>5
<1> QED
  BY <1>1, <1>4, <1>6, <1>7

LEMMA MaxOfRaised ==
  ASSUME NEW S \in SUBSET Nat, S # {}, NEW b \in Nat, \A x \in S : x <= b, NEW Z \in SUBSET {0}
  PROVE  Max(Z \cup Raised(S)) = Max(S) + 1
<1> DEFINE T == Z \cup Raised(S)
<1>1. Max(S) \in Nat /\ Max(S) \in S /\ \A y \in S : Max(S) >= y
  BY MaxIsGreatest
<1>2. \A y \in T : y \in Nat /\ y <= Max(S) + 1
  <2>1. \A n \in S : n + 1 \in Nat /\ n + 1 <= Max(S) + 1
    BY <1>1
  <2>2. \A y \in Raised(S) : y \in Nat /\ y <= Max(S) + 1
    BY <2>1, Zenon DEF Raised
  <2>3. \A y \in Z : y = 0
    OBVIOUS
  <2> QED
    BY <1>1, <2>2, <2>3
<1>3. Max(S) + 1 \in T
  BY <1>1 DEF Raised
<1> HIDE DEF T
<1>4. T \in SUBSET Nat /\ T # {} /\ Max(S) + 1 \in Nat
  BY <1>1, <1>2, <1>3
<1>5. Max(T) \in T /\ \A y \in T : Max(T) >= y
  BY <1>2, <1>4, MaxIsGreatest
<1>6. Max(T) \in Nat /\ Max(T) <= Max(S) + 1 /\ Max(T) >= Max(S) + 1
  BY <1>2, <1>3, <1>5
<1>7. Max(T) = Max(S) + 1
  BY <1>1, <1>6
<1> QED
  BY <1>7 DEF T

LEMMA LevelsFromTheParent ==
  ASSUME source \in Checkouts, Tame, NEW c \in TsConfigs, IsReadable(c)
  PROVE  /\ Levels(c) = {0} \cup Raised(Levels(Written(c).extends))
         /\ Upwards(c)[0] = c
         /\ \A n \in Levels(Written(c).extends) :
              Upwards(c)[n + 1] = Upwards(Written(c).extends)[n]
<1> DEFINE p == Written(c).extends
<1>1. MaxExtendsDepth \in Nat
  BY CheckoutIs
<1>2. \A n \in 0..MaxExtendsDepth : Upwards(c)[n + 1] = Upwards(p)[n]
  BY UpwardsFromTheParent
<1>3. Upwards(c)[0] = c
  BY UpwardsAre
<1>4. ~IsReadable(Upwards(c)[MaxExtendsDepth + 1])
  BY DEF Tame
<1> HIDE DEF p
<1>5. ASSUME NEW n \in Levels(c) PROVE n \in {0} \cup Raised(Levels(p))
  <2>1. CASE n = 0
    BY <2>1
  <2>2. CASE n # 0
    <3>1. n \in 1..MaxExtendsDepth /\ IsReadable(Upwards(c)[n])
      BY <1>1, <2>2 DEF Levels
    <3>2. n - 1 \in 0..MaxExtendsDepth /\ (n - 1) + 1 = n
      BY <1>1, <3>1
    <3>3. Upwards(c)[n] = Upwards(p)[n - 1]
      BY <1>2, <3>2
    <3>4. n - 1 \in Levels(p)
      BY <3>1, <3>2, <3>3 DEF Levels
    <3> QED
      BY <3>2, <3>4 DEF Raised
  <2> QED
    BY <2>1, <2>2
<1>6. ASSUME NEW n \in Levels(p) PROVE n + 1 \in Levels(c) /\ Upwards(c)[n + 1] = Upwards(p)[n]
  <2>1. n \in 0..MaxExtendsDepth /\ IsReadable(Upwards(p)[n])
    BY DEF Levels
  <2>2. Upwards(c)[n + 1] = Upwards(p)[n]
    BY <1>2, <2>1
  <2>3. n # MaxExtendsDepth
    BY <1>4, <2>1, <2>2
  <2>4. n + 1 \in 0..MaxExtendsDepth
    BY <1>1, <2>1, <2>3
  <2> QED
    BY <2>1, <2>2, <2>4 DEF Levels
<1>7. 0 \in Levels(c)
  BY <1>1, <1>3 DEF Levels
<1>8. Levels(c) = {0} \cup Raised(Levels(p))
  <2>1. \A m \in Raised(Levels(p)) : m \in Levels(c)
    BY <1>6 DEF Raised
  <2> QED
    BY <1>5, <1>7, <2>1
<1> QED
  BY <1>3, <1>6, <1>8 DEF p

(* Some of the levels of a tsconfig, from those of the one it extends.     *)
LEMMA SomeLevels ==
  ASSUME source \in Checkouts, Tame, NEW c \in TsConfigs, IsReadable(c), NEW T \in SUBSET TsConfigs
  PROVE  {n \in Levels(c) : Upwards(c)[n] \in T}
           = {n \in {0} : c \in T}
               \cup Raised({n \in Levels(Written(c).extends) : Upwards(Written(c).extends)[n] \in T})
<1> DEFINE p == Written(c).extends
           L == Levels(p)
<1>1. /\ Levels(c) = {0} \cup Raised(L)
      /\ Upwards(c)[0] = c
      /\ \A n \in L : Upwards(c)[n + 1] = Upwards(p)[n]
  BY LevelsFromTheParent
<1> HIDE DEF p, L
<1>2. {n \in Levels(c) : Upwards(c)[n] \in T}
        = {n \in {0} : c \in T} \cup Raised({n \in L : Upwards(p)[n] \in T})
  BY <1>1 DEF Raised
<1> QED
  BY <1>2 DEF p, L

WithBase == {c \in TsConfigs : Written(c).base # NotSet}
WithPaths == {c \in TsConfigs : Written(c).paths # NotSet}

LEMMA LevelsAre ==
  ASSUME source \in Checkouts, NEW c
  PROVE  /\ Levels(c) \in SUBSET Nat /\ \A n \in Levels(c) : n <= MaxExtendsDepth
         /\ LevelsWithBase(c) = {n \in Levels(c) : Upwards(c)[n] \in WithBase}
         /\ LevelsWithPaths(c) = {n \in Levels(c) : Upwards(c)[n] \in WithPaths}
         /\ LevelsWithBase(c) \subseteq Levels(c) /\ LevelsWithPaths(c) \subseteq Levels(c)
<1>1. MaxExtendsDepth \in Nat
  BY CheckoutIs
<1>2. \A n \in Levels(c) : n \in 0..MaxExtendsDepth /\ Upwards(c)[n] \in TsConfigs
  BY DEF Levels, IsReadable
<1> QED
  BY <1>1, <1>2 DEF LevelsWithBase, LevelsWithPaths, WithBase, WithPaths

LEMMA LeastIsZero ==
  ASSUME NEW S \in SUBSET Nat, 0 \in S
  PROVE  Min(S) = 0
<1>1. S # {}
  OBVIOUS
<1>2. Min(S) \in Nat /\ Min(S) <= 0
  BY <1>1, MinIsLeast
<1> QED
  BY <1>2

LEMMA PathsFromTheParent ==
  ASSUME source \in Checkouts, Tame, NEW c \in TsConfigs, IsReadable(c)
  PROVE  PathsTogether(c) = IF Written(c).paths # NotSet THEN Written(c).paths
                            ELSE PathsTogether(Written(c).extends)
<1> DEFINE p == Written(c).extends
           S == LevelsWithPaths(p)
<1>1. /\ LevelsWithPaths(c) = {n \in Levels(c) : Upwards(c)[n] \in WithPaths}
      /\ S = {n \in Levels(p) : Upwards(p)[n] \in WithPaths}
      /\ S \in SUBSET Nat /\ LevelsWithPaths(c) \in SUBSET Nat
      /\ S \subseteq Levels(p)
  BY LevelsAre
<1>2. WithPaths \in SUBSET TsConfigs
  BY DEF WithPaths
<1>3. /\ Upwards(c)[0] = c
      /\ \A n \in Levels(p) : Upwards(c)[n + 1] = Upwards(p)[n]
  BY LevelsFromTheParent
<1>4. LevelsWithPaths(c) = {n \in {0} : c \in WithPaths} \cup Raised(S)
  BY <1>1, <1>2, SomeLevels
<1> HIDE DEF p, S
<1>5. CASE Written(c).paths # NotSet
  <2>1. 0 \in LevelsWithPaths(c)
    BY <1>4, <1>5 DEF WithPaths
  <2>2. Min(LevelsWithPaths(c)) = 0
    BY <1>1, <2>1, LeastIsZero
  <2> QED
    BY <1>3, <1>5, <2>1, <2>2 DEF PathsTogether
<1>6. CASE ~(Written(c).paths # NotSet)
  <2>1. LevelsWithPaths(c) = Raised(S)
    BY <1>4, <1>6 DEF WithPaths
  <2>2. CASE S = {}
    <3>1. LevelsWithPaths(c) = {}
      BY <2>1, <2>2 DEF Raised
    <3> QED
      BY <1>6, <2>2, <3>1 DEF PathsTogether, S, p
  <2>3. CASE S # {}
    <3>1. Min(LevelsWithPaths(c)) = Min(S) + 1
      BY <1>1, <2>1, <2>3, MinOfRaised
    <3>2. Min(S) \in S
      BY <1>1, <2>3, MinIsLeast
    <3>3. Upwards(c)[Min(S) + 1] = Upwards(p)[Min(S)]
      BY <1>1, <1>3, <3>2
    <3>4. Min(S) + 1 \in Raised(S)
      BY <3>2 DEF Raised
    <3>5. LevelsWithPaths(c) # {}
      BY <2>1, <3>4
    <3>6. PathsTogether(c) = Written(Upwards(c)[Min(S) + 1]).paths
      BY <3>1, <3>5 DEF PathsTogether
    <3>7. PathsTogether(p) = Written(Upwards(p)[Min(S)]).paths
      BY <2>3 DEF PathsTogether, S
    <3> QED
      BY <1>6, <3>3, <3>6, <3>7 DEF p
  <2> QED
    BY <2>2, <2>3
<1> QED
  BY <1>5, <1>6

LEMMA BaseFromTheParent ==
  ASSUME source \in Checkouts, Tame, NEW c \in TsConfigs, IsReadable(c)
  PROVE  BaseTogether(c) =
           IF Written(c).base # NotSet THEN Written(c).directory \o Written(c).base
           ELSE IF Written(c).paths # NotSet /\ BaseTogether(Written(c).extends) = NotSet
           THEN Written(c).directory
           ELSE BaseTogether(Written(c).extends)
<1> DEFINE p == Written(c).extends
           B == LevelsWithBase(p)
           S == LevelsWithPaths(p)
           OwnLevel == {n \in {0} : c \in WithPaths}
<1>1. /\ LevelsWithPaths(c) = {n \in Levels(c) : Upwards(c)[n] \in WithPaths}
      /\ LevelsWithBase(c) = {n \in Levels(c) : Upwards(c)[n] \in WithBase}
      /\ S = {n \in Levels(p) : Upwards(p)[n] \in WithPaths}
      /\ B = {n \in Levels(p) : Upwards(p)[n] \in WithBase}
      /\ B \in SUBSET Nat /\ S \in SUBSET Nat
      /\ LevelsWithPaths(c) \in SUBSET Nat /\ LevelsWithBase(c) \in SUBSET Nat
      /\ S \subseteq Levels(p) /\ B \subseteq Levels(p)
      /\ \A n \in Levels(p) : n <= MaxExtendsDepth
  BY LevelsAre
<1>2. WithPaths \in SUBSET TsConfigs /\ WithBase \in SUBSET TsConfigs
  BY DEF WithPaths, WithBase
<1>3. /\ Upwards(c)[0] = c
      /\ \A n \in Levels(p) : Upwards(c)[n + 1] = Upwards(p)[n]
  BY LevelsFromTheParent
<1>4. LevelsWithPaths(c) = OwnLevel \cup Raised(S)
  BY <1>1, <1>2, SomeLevels
<1>5. LevelsWithBase(c) = {n \in {0} : c \in WithBase} \cup Raised(B)
  BY <1>1, <1>2, SomeLevels
<1>6. MaxExtendsDepth \in Nat /\ \A d \in TsConfigs : Written(d).directory # NotSet
  BY CheckoutIs DEF IsWritten
<1>7. \A d \in WithBase : Written(d).directory \o Written(d).base # NotSet
  <2>1. \A d \in WithBase : Written(d).directory \in Place /\ Written(d).base \in Place
    BY CheckoutIs DEF IsWritten, WithBase
  <2>2. \A d \in WithBase : Written(d).directory \o Written(d).base \in Place
    BY <2>1, ConcatProperties DEF Place
  <2> QED
    BY <2>2, CheckoutIs
<1>8. OwnLevel \in SUBSET {0}
  OBVIOUS
<1> HIDE DEF p, B, S, OwnLevel
<1>9. CASE Written(c).base # NotSet
  <2>1. 0 \in LevelsWithBase(c)
    BY <1>5, <1>9 DEF WithBase
  <2>2. Min(LevelsWithBase(c)) = 0
    BY <1>1, <2>1, LeastIsZero
  <2> QED
    BY <1>3, <1>9, <2>1, <2>2 DEF BaseTogether
<1>10. CASE Written(c).base = NotSet /\ B # {}
  <2>1. LevelsWithBase(c) = Raised(B)
    BY <1>5, <1>10 DEF WithBase
  <2>2. Min(LevelsWithBase(c)) = Min(B) + 1
    BY <1>1, <1>10, <2>1, MinOfRaised
  <2>3. Min(B) \in B
    BY <1>1, <1>10, MinIsLeast
  <2>4. Upwards(c)[Min(B) + 1] = Upwards(p)[Min(B)]
    BY <1>1, <1>3, <2>3
  <2>5. Min(B) + 1 \in Raised(B)
    BY <2>3 DEF Raised
  <2>6. BaseTogether(c) = Written(Upwards(c)[Min(B) + 1]).directory
                            \o Written(Upwards(c)[Min(B) + 1]).base
    BY <2>1, <2>2, <2>5 DEF BaseTogether
  <2>7. BaseTogether(p) = Written(Upwards(p)[Min(B)]).directory
                            \o Written(Upwards(p)[Min(B)]).base
    BY <1>10 DEF BaseTogether, B
  <2>8. BaseTogether(p) # NotSet
    BY <1>1, <1>7, <2>3, <2>7
  <2> QED
    BY <1>10, <2>4, <2>6, <2>7, <2>8 DEF p
<1>11. CASE Written(c).base = NotSet /\ B = {}
  <2>1. LevelsWithBase(c) = {}
    BY <1>5, <1>11 DEF WithBase, Raised
  <2>2. CASE S # {}
    <3>1. Max(LevelsWithPaths(c)) = Max(S) + 1
      BY <1>1, <1>4, <1>6, <1>8, <2>2, MaxOfRaised
    <3>2. Max(S) \in S
      BY <1>1, <1>6, <2>2, MaxIsGreatest
    <3>3. Upwards(c)[Max(S) + 1] = Upwards(p)[Max(S)] /\ Upwards(p)[Max(S)] \in TsConfigs
      BY <1>1, <1>2, <1>3, <3>2
    <3>4. Max(S) + 1 \in Raised(S)
      BY <3>2 DEF Raised
    <3>5. LevelsWithPaths(c) # {}
      BY <1>4, <3>4
    <3>6. BaseTogether(c) = Written(Upwards(c)[Max(S) + 1]).directory
      BY <2>1, <3>1, <3>5 DEF BaseTogether
    <3>7. BaseTogether(p) = Written(Upwards(p)[Max(S)]).directory
      BY <1>11, <2>2 DEF BaseTogether, S, B
    <3>8. BaseTogether(p) # NotSet
      BY <1>6, <3>3, <3>7
    <3> QED
      BY <1>11, <3>3, <3>6, <3>7, <3>8 DEF p
  <2>3. CASE S = {}
    <3>1. LevelsWithPaths(c) = OwnLevel
      BY <1>4, <2>3 DEF Raised
    <3>2. BaseTogether(p) = NotSet
      BY <1>11, <2>3 DEF BaseTogether, S, B
    <3>3. CASE Written(c).paths # NotSet
      <4>1. OwnLevel = {0}
        BY <3>3 DEF OwnLevel, WithPaths
      <4>2. Max(LevelsWithPaths(c)) = 0
        BY <1>1, <3>1, <4>1, MaxIsGreatest
      <4> QED
        BY <1>3, <1>11, <2>1, <3>1, <3>2, <3>3, <4>1, <4>2 DEF BaseTogether, p
    <3>4. CASE Written(c).paths = NotSet
      <4>1. OwnLevel = {}
        BY <3>4 DEF OwnLevel, WithPaths
      <4> QED
        BY <1>11, <2>1, <3>1, <3>2, <3>4, <4>1 DEF BaseTogether, p
    <3> QED
      BY <3>3, <3>4
  <2> QED
    BY <2>2, <2>3
<1> QED
  BY <1>9, <1>10, <1>11

-----------------------------------------------------------------------------
(* Loading.                                                                *)

FrameOK(n) ==
  /\ IsReadable(frames[n])
  /\ Written(frames[n]).extends = frames[n + 1]

(* Each call but the innermost waits for the parent of its tsconfig; the   *)
(* value of a readable tsconfig is missing only while it is being loaded.  *)
LoadingInv ==
  /\ source \in Checkouts
  /\ DOMAIN loaded = TsConfigs
  /\ \A c \in TsConfigs : loaded[c] \in LoadedConfig \cup {NotLoaded, NotSet}
  /\ frames \in Seq(TsConfigs) /\ Len(frames) <= MaxExtendsDepth + 1
  /\ \A n \in 1..(Len(frames) - 1) : FrameOK(n)
  /\ \A c \in TsConfigs : loaded[c] = NotSet /\ IsReadable(c) => \E n \in DOMAIN frames : frames[n] = c
  /\ LoadedAsWritten

(* Where calls wait for one another, the tsconfig of each is above that of *)
(* the first.                                                              *)
LEMMA FramesAreUpwards ==
  ASSUME LoadingInv, NEW k \in 1..Len(frames)
  PROVE  \A n \in 0..(Len(frames) - k) : Upwards(frames[k])[n] = frames[k + n]
<1> DEFINE N == Len(frames) - k
           S == {n \in 0..N : Upwards(frames[k])[n] = frames[k + n]}
<1>1. MaxExtendsDepth \in Nat /\ N \in Nat /\ N <= MaxExtendsDepth + 1 /\ frames[k] \in TsConfigs
      /\ Len(frames) \in Nat
  BY CheckoutIs DEF LoadingInv
<1>2. /\ Upwards(frames[k])[0] = frames[k]
      /\ \A n \in 0..MaxExtendsDepth : Upwards(frames[k])[n + 1] = Extended(Upwards(frames[k])[n])
  BY <1>1, UpwardsAre DEF LoadingInv
<1>3. 0 \in S
  BY <1>1, <1>2
<1>4. ASSUME NEW n \in 0..(N - 1), n \in S PROVE n + 1 \in S
  <2>1. n \in 0..MaxExtendsDepth /\ k + n \in 1..(Len(frames) - 1) /\ n + 1 \in 0..N
    BY <1>1
  <2>2. FrameOK(k + n)
    BY <2>1 DEF LoadingInv
  <2>3. Upwards(frames[k])[n + 1] = Extended(frames[k + n])
    BY <1>2, <1>4, <2>1
  <2>4. Extended(frames[k + n]) = frames[(k + n) + 1]
    BY <2>2 DEF FrameOK, Extended
  <2>5. (k + n) + 1 = k + (n + 1)
    BY <2>1
  <2> QED
    BY <2>1, <2>3, <2>4, <2>5
<1> HIDE DEF S
<1>5. \A n \in 0..N : n \in S
  BY <1>1, <1>3, <1>4, Climb
<1> QED
  BY <1>5 DEF S

(* Where the chains are tame, a readable parent is followed, ...           *)
LEMMA ParentIsFollowed ==
  ASSUME LoadingInv, Tame, frames # << >>, IsReadable(Loading), IsReadable(Parent)
  PROVE  HasParent
<1>1. /\ MaxExtendsDepth \in Nat /\ Len(frames) \in Nat /\ 1 \in 1..Len(frames)
      /\ Loading = frames[Len(frames)] /\ frames[1] \in TsConfigs
  BY CheckoutIs, EmptySeq DEF LoadingInv, Loading, Last
<1>2. SUFFICES ASSUME Len(frames) = MaxExtendsDepth + 1 PROVE FALSE
  BY <1>1 DEF HasParent, ExtendsDepth, IsReadable, LoadingInv
<1>3. Upwards(frames[1])[MaxExtendsDepth] = Loading
  <2>1. \A n \in 0..(Len(frames) - 1) : Upwards(frames[1])[n] = frames[1 + n]
    BY <1>1, <1>2, FramesAreUpwards
  <2>2. MaxExtendsDepth \in 0..(Len(frames) - 1) /\ 1 + MaxExtendsDepth = Len(frames)
    BY <1>1, <1>2
  <2> QED
    BY <1>1, <2>1, <2>2
<1>4. Upwards(frames[1])[MaxExtendsDepth + 1] = Parent
  <2>1. MaxExtendsDepth \in 0..MaxExtendsDepth
    BY <1>1
  <2>2. Upwards(frames[1])[MaxExtendsDepth + 1] = Extended(Loading)
    BY <1>1, <1>3, <2>1, UpwardsAre DEF LoadingInv
  <2> QED
    BY <2>2 DEF Extended, Parent
<1> QED
  BY <1>1, <1>4 DEF Tame

(* ... and it is not one that an outer call is loading.                    *)
LEMMA ParentIsNotBeingLoaded ==
  ASSUME LoadingInv, Tame, frames # << >>, IsReadable(Loading), NEW k \in DOMAIN frames
  PROVE  frames[k] # Parent
<1> DEFINE C == {frames[n] : n \in k..Len(frames)}
           S == {n \in 0..(MaxExtendsDepth + 1) : Upwards(frames[k])[n] \in C}
<1>1. /\ MaxExtendsDepth \in Nat /\ Len(frames) \in Nat /\ k \in 1..Len(frames)
      /\ Loading = frames[Len(frames)] /\ frames[k] \in TsConfigs
  BY CheckoutIs DEF LoadingInv, Loading, Last
<1>2. SUFFICES ASSUME frames[k] = Parent PROVE FALSE
  OBVIOUS
<1>3. /\ Upwards(frames[k])[0] = frames[k]
      /\ \A n \in 0..MaxExtendsDepth : Upwards(frames[k])[n + 1] = Extended(Upwards(frames[k])[n])
  BY <1>1, UpwardsAre DEF LoadingInv
<1>4. ASSUME NEW c \in C PROVE IsReadable(c) /\ Extended(c) \in C
  <2>1. PICK n \in k..Len(frames) : c = frames[n]
    OBVIOUS
  <2>2. CASE n = Len(frames)
    <3>1. c = Loading /\ Extended(c) = Parent /\ k \in k..Len(frames)
      BY <1>1, <2>1, <2>2 DEF Extended, Parent
    <3> QED
      BY <1>2, <3>1
  <2>3. CASE n # Len(frames)
    <3>1. n \in 1..(Len(frames) - 1) /\ n + 1 \in k..Len(frames)
      BY <1>1, <2>3
    <3>2. FrameOK(n)
      BY <3>1 DEF LoadingInv
    <3> QED
      BY <2>1, <3>1, <3>2 DEF FrameOK, Extended
  <2> QED
    BY <2>2, <2>3
<1>5. 0 \in S
  BY <1>1, <1>3
<1>6. ASSUME NEW n \in 0..((MaxExtendsDepth + 1) - 1), n \in S PROVE n + 1 \in S
  <2>1. n \in 0..MaxExtendsDepth /\ n + 1 \in 0..(MaxExtendsDepth + 1)
    BY <1>1
  <2> HIDE DEF C
  <2>2. Upwards(frames[k])[n + 1] \in C
    BY <1>3, <1>4, <1>6, <2>1
  <2> QED
    BY <2>1, <2>2
<1> HIDE DEF S, C
<1>7. \A n \in 0..(MaxExtendsDepth + 1) : n \in S
  <2>1. MaxExtendsDepth + 1 \in Nat
    BY <1>1
  <2> QED
    BY <2>1, <1>5, <1>6, Climb
<1>8. MaxExtendsDepth + 1 \in S
  BY <1>1, <1>7
<1> QED
  BY <1>1, <1>4, <1>8 DEF S, Tame

(* What the innermost call inherits.                                       *)
Inherited == IF HasParent /\ loaded[Parent] # NotSet THEN loaded[Parent] ELSE NoParent

LEMMA InheritedIs ==
  ASSUME LoadingInv, frames # << >>, IsReadable(Loading), HasParent => loaded[Parent] # NotLoaded
  PROVE  /\ Inherited.paths \in Seq(Pattern) /\ Inherited.base \in Place \cup {NotSet}
         /\ Tame => /\ Inherited.paths = PathsTogether(Parent)
                    /\ Inherited.base = BaseTogether(Parent)
<1>1. source \in Checkouts /\ Parent \in TsConfigs \cup {NotSet}
  <2>1. Parent = Extended(Loading)
    BY DEF Parent, Extended
  <2> QED
    BY <2>1, ExtendedIs DEF LoadingInv
<1>2. CASE HasParent /\ loaded[Parent] # NotSet
  <2>1. Parent \in TsConfigs /\ loaded[Parent] \in LoadedConfig
    BY <1>2 DEF HasParent, LoadingInv
  <2>2. Inherited = loaded[Parent]
    BY <1>2 DEF Inherited
  <2>3. Tame => /\ loaded[Parent].paths = PathsTogether(Parent)
                /\ loaded[Parent].base = BaseTogether(Parent)
    BY <1>2, <2>1 DEF LoadingInv, LoadedAsWritten
  <2> QED
    BY <2>1, <2>2, <2>3 DEF LoadedConfig
<1>3. CASE ~(HasParent /\ loaded[Parent] # NotSet)
  <2>1. Inherited = NoParent
    BY <1>3 DEF Inherited
  <2>2. Inherited.paths = << >> /\ Inherited.base = NotSet
    BY <2>1 DEF NoParent
  <2>3. ASSUME Tame PROVE ~IsReadable(Parent)
    <3>1. CASE ~HasParent
      BY <2>3, <3>1, ParentIsFollowed
    <3>2. CASE HasParent /\ loaded[Parent] = NotSet
      BY <2>3, <3>2, ParentIsNotBeingLoaded DEF HasParent, LoadingInv
    <3> QED
      BY <1>3, <3>1, <3>2
  <2>4. ASSUME Tame PROVE PathsTogether(Parent) = << >> /\ BaseTogether(Parent) = NotSet
    <3>1. Levels(Parent) = {}
      BY <1>1, <2>3, <2>4, NothingAboveUnreadable
    <3>2. LevelsWithPaths(Parent) = {} /\ LevelsWithBase(Parent) = {}
      BY <3>1 DEF LevelsWithPaths, LevelsWithBase
    <3> QED
      BY <3>2 DEF PathsTogether, BaseTogether
  <2> QED
    BY <2>2, <2>4
<1> QED
  BY <1>2, <1>3

LEMMA MergedIs ==
  ASSUME LoadingInv, frames # << >>, IsReadable(Loading), HasParent => loaded[Parent] # NotLoaded
  PROVE  /\ Merged(Loading, Inherited) \in LoadedConfig
         /\ Tame => /\ Merged(Loading, Inherited).paths = PathsTogether(Loading)
                    /\ Merged(Loading, Inherited).base = BaseTogether(Loading)
<1> DEFINE own == Written(Loading)
           inherited == Inherited
           base == IF own.base # NotSet THEN own.directory \o own.base ELSE inherited.base
           paths == IF own.paths # NotSet THEN own.paths ELSE inherited.paths
           all == IF own.paths # NotSet /\ base = NotSet THEN own.directory ELSE base
<1>1. /\ inherited.paths \in Seq(Pattern) /\ inherited.base \in Place \cup {NotSet}
      /\ Tame => inherited.paths = PathsTogether(own.extends) /\ inherited.base = BaseTogether(own.extends)
  BY InheritedIs DEF Parent
<1>2. Loading \in TsConfigs /\ source \in Checkouts
  BY DEF IsReadable, LoadingInv
<1>3. /\ own.directory \in Place
      /\ own.base = NotSet \/ own.base \in Place
      /\ own.paths = NotSet \/ own.paths \in Seq(Pattern)
      /\ NotSet \notin Place
  BY <1>2, CheckoutIs DEF IsWritten
<1>4. Merged(Loading, inherited) = [directory |-> own.directory, paths |-> paths, base |-> all]
  BY DEF Merged
<1> HIDE DEF own, inherited
<1>5. own.base # NotSet => own.directory \o own.base \in Place
  BY <1>3, ConcatProperties DEF Place
<1>6. paths \in Seq(Pattern) /\ base \in Place \cup {NotSet} /\ all \in Place \cup {NotSet}
  BY <1>1, <1>3, <1>5
<1>7. Tame => /\ PathsTogether(Loading) = IF own.paths # NotSet THEN own.paths
                                           ELSE PathsTogether(own.extends)
              /\ BaseTogether(Loading) =
                   IF own.base # NotSet THEN own.directory \o own.base
                   ELSE IF own.paths # NotSet /\ BaseTogether(own.extends) = NotSet
                   THEN own.directory
                   ELSE BaseTogether(own.extends)
  BY <1>2, PathsFromTheParent, BaseFromTheParent DEF own
<1>8. Tame => paths = PathsTogether(Loading)
  BY <1>1, <1>7
<1>9. Tame => all = BaseTogether(Loading)
  BY <1>1, <1>3, <1>5, <1>7
<1> HIDE DEF base, paths, all
<1>10. Merged(Loading, inherited) \in LoadedConfig
  BY <1>3, <1>4, <1>6 DEF LoadedConfig
<1> QED
  BY <1>4, <1>8, <1>9, <1>10 DEF inherited

-----------------------------------------------------------------------------
(* Steps.                                                                  *)

(* What is written does not change.                                        *)
LEMMA SameCheckout ==
  ASSUME source' = source
  PROVE  /\ (source \in Checkouts)' <=> source \in Checkouts
         /\ TsConfigs' = TsConfigs
         /\ \A c : Written(c)' = Written(c) /\ (IsReadable(c)' <=> IsReadable(c))
         /\ Tame' <=> Tame
         /\ \A c : PathsTogether(c)' = PathsTogether(c) /\ BaseTogether(c)' = BaseTogether(c)
<1>1. TsConfigs' = TsConfigs /\ \A c : Written(c)' = Written(c)
  BY DEF TsConfigs, Written
<1>2. \A c : IsReadable(c)' <=> IsReadable(c)
  BY DEF IsReadable, TsConfigs, Written
<1>3. \A c : Upwards(c)' = Upwards(c)
  BY DEF Upwards, IsReadable, TsConfigs, Written
<1>4. \A c : Levels(c)' = Levels(c)
  BY DEF Levels, Upwards, IsReadable, TsConfigs, Written
<1>5. Tame' <=> Tame
  BY DEF Tame, Upwards, IsReadable, TsConfigs, Written
<1>6. \A c : PathsTogether(c)' = PathsTogether(c)
  BY DEF PathsTogether, LevelsWithPaths, Levels, Upwards, IsReadable, TsConfigs, Written
<1>7. \A c : BaseTogether(c)' = BaseTogether(c)
  BY DEF BaseTogether, LevelsWithPaths, LevelsWithBase, Levels, Upwards, IsReadable, TsConfigs, Written
<1> QED
  BY <1>1, <1>2, <1>5, <1>6, <1>7

LEMMA LoadingRests ==
  ASSUME LoadingInv, UNCHANGED <<source, loaded, frames>>
  PROVE  LoadingInv'
<1>1. /\ (source \in Checkouts)' <=> source \in Checkouts
      /\ TsConfigs' = TsConfigs
      /\ \A c : Written(c)' = Written(c) /\ (IsReadable(c)' <=> IsReadable(c))
      /\ Tame' <=> Tame
      /\ \A c : PathsTogether(c)' = PathsTogether(c) /\ BaseTogether(c)' = BaseTogether(c)
  BY SameCheckout
<1>2. LoadedAsWritten'
  BY <1>1 DEF LoadingInv, LoadedAsWritten
<1> QED
  BY <1>1, <1>2 DEF LoadingInv, FrameOK

(* A call of a tsconfig that nobody has asked for.                         *)
LEMMA BeginsLoading ==
  ASSUME LoadingInv, UNCHANGED source, NEW c \in TsConfigs, Begins(c),
         Len(frames) <= MaxExtendsDepth,
         frames # << >> => IsReadable(Loading) /\ Parent = c
  PROVE  LoadingInv'
<1>1. /\ (source \in Checkouts)' <=> source \in Checkouts
      /\ TsConfigs' = TsConfigs
      /\ \A d : Written(d)' = Written(d) /\ (IsReadable(d)' <=> IsReadable(d))
      /\ Tame' <=> Tame
      /\ \A d : PathsTogether(d)' = PathsTogether(d) /\ BaseTogether(d)' = BaseTogether(d)
  BY SameCheckout
<1>2. /\ loaded' = [loaded EXCEPT ![c] = NotSet] /\ frames' = Append(frames, c)
      /\ DOMAIN loaded' = TsConfigs /\ loaded'[c] = NotSet
      /\ \A d \in TsConfigs \ {c} : loaded'[d] = loaded[d]
  BY DEF Begins, LoadingInv
<1>3. /\ frames \in Seq(TsConfigs) /\ frames' \in Seq(TsConfigs)
      /\ Len(frames) \in Nat /\ Len(frames') = Len(frames) + 1
      /\ DOMAIN frames = 1..Len(frames) /\ DOMAIN frames' = 1..Len(frames')
      /\ frames'[Len(frames) + 1] = c
      /\ \A n \in 1..Len(frames) : frames'[n] = frames[n]
  <2>1. frames \in Seq(TsConfigs)
    BY DEF LoadingInv
  <2> QED
    BY <1>2, <2>1, AppendProperties
<1>4. Len(frames') <= MaxExtendsDepth + 1 /\ MaxExtendsDepth \in Nat
  BY <1>3, CheckoutIs DEF LoadingInv
<1>5. ASSUME NEW n \in 1..(Len(frames') - 1) PROVE FrameOK(n)'
  <2>1. n \in 1..Len(frames) /\ frames'[n] = frames[n]
    BY <1>3
  <2>2. CASE n = Len(frames)
    <3>1. frames # << >> /\ Loading = frames[n] /\ frames'[n + 1] = c
      BY <1>3, <2>1, <2>2 DEF Loading, Last
    <3>2. IsReadable(frames[n]) /\ Written(frames[n]).extends = c
      BY <3>1 DEF Parent
    <3> QED
      BY <1>1, <2>1, <3>1, <3>2 DEF FrameOK
  <2>3. CASE n # Len(frames)
    <3>1. n \in 1..(Len(frames) - 1) /\ frames'[n + 1] = frames[n + 1]
      <4>1. n \in 1..(Len(frames) - 1) /\ n + 1 \in 1..Len(frames)
        <5>1. PICK m \in Nat : m = Len(frames)
          BY <1>3
        <5>2. n \in 1..m /\ n # m
          BY <2>1, <2>3, <5>1
        <5>3. n \in 1..(m - 1) /\ n + 1 \in 1..m
          BY <5>2
        <5> QED
          BY <5>1, <5>3
      <4> QED
        BY <1>3, <4>1
    <3>2. FrameOK(n)
      BY <3>1 DEF LoadingInv
    <3> QED
      BY <1>1, <2>1, <3>1, <3>2 DEF FrameOK
  <2> QED
    BY <2>2, <2>3
<1>6. ASSUME NEW d \in TsConfigs, loaded'[d] = NotSet, IsReadable(d)
      PROVE  \E n \in DOMAIN frames' : frames'[n] = d
  <2>1. CASE d = c
    <3>1. Len(frames) + 1 \in DOMAIN frames'
      BY <1>3
    <3> QED
      BY <1>3, <2>1, <3>1
  <2>2. CASE d # c
    <3>1. PICK n \in DOMAIN frames : frames[n] = d
      BY <1>2, <1>6, <2>2 DEF LoadingInv
    <3>2. n \in DOMAIN frames' /\ frames'[n] = d
      BY <1>3, <3>1
    <3> QED
      BY <3>2
  <2> QED
    BY <2>1, <2>2
<1>7. LoadedAsWritten'
  <2>1. ASSUME Tame, NEW d \in TsConfigs, loaded'[d] \notin {NotLoaded, NotSet}
        PROVE  loaded'[d].paths = PathsTogether(d) /\ loaded'[d].base = BaseTogether(d)
    <3>1. d # c /\ loaded'[d] = loaded[d]
      BY <1>2, <2>1
    <3> QED
      BY <2>1, <3>1 DEF LoadingInv, LoadedAsWritten
  <2> QED
    BY <1>1, <2>1 DEF LoadedAsWritten
<1>8. \A d \in TsConfigs : loaded'[d] \in LoadedConfig \cup {NotLoaded, NotSet}
  BY <1>2 DEF LoadingInv
<1>9. (source \in Checkouts)'
  BY <1>1 DEF LoadingInv
<1> QED
  BY <1>1, <1>2, <1>3, <1>4, <1>5, <1>6, <1>7, <1>8, <1>9 DEF LoadingInv

(* The end of the innermost call.                                          *)
LEMMA EndsLoading ==
  ASSUME LoadingInv, LoadEnds
  PROVE  LoadingInv'
<1>1. /\ (source \in Checkouts)' <=> source \in Checkouts
      /\ TsConfigs' = TsConfigs
      /\ \A d : Written(d)' = Written(d) /\ (IsReadable(d)' <=> IsReadable(d))
      /\ Tame' <=> Tame
      /\ \A d : PathsTogether(d)' = PathsTogether(d) /\ BaseTogether(d)' = BaseTogether(d)
  <2>1. source' = source
    BY DEF LoadEnds
  <2> QED
    BY <2>1, SameCheckout
<1>2. /\ frames # << >> /\ frames' = Front(frames)
      /\ Written(Loading).valid /\ HasParent => loaded[Parent] # NotLoaded
      /\ loaded' = IF ~Written(Loading).valid THEN loaded
                   ELSE [loaded EXCEPT ![Loading] = Merged(Loading, Inherited)]
  BY DEF LoadEnds, Inherited
<1>3. frames \in Seq(TsConfigs) /\ Len(frames) \in Nat /\ Len(frames) # 0
  BY <1>2, EmptySeq, LenProperties DEF LoadingInv
<1>4. /\ frames' \in Seq(TsConfigs) /\ Len(frames') = Len(frames) - 1
      /\ DOMAIN frames = 1..Len(frames) /\ DOMAIN frames' = 1..(Len(frames) - 1)
      /\ \A n \in 1..(Len(frames) - 1) : frames'[n] = frames[n]
      /\ Loading = frames[Len(frames)] /\ Loading \in TsConfigs
  <2>1. frames' = SubSeq(frames, 1, Len(frames) - 1)
    BY <1>2 DEF Front
  <2>2. /\ frames' \in Seq(TsConfigs) /\ Len(frames') = Len(frames) - 1
        /\ \A n \in 1..(Len(frames) - 1) : frames'[n] = frames[n]
    <3>1. PICK m \in Nat : m + 1 = Len(frames)
      BY <1>3
    <3>2. Len(frames) - 1 = m
      BY <3>1
    <3>3. frames' = SubSeq(frames, 1, m) /\ \A i \in 1..m : frames[i] \in TsConfigs
      BY <1>3, <2>1, <3>1, <3>2
    <3>4. /\ frames' \in Seq(TsConfigs)
          /\ Len(frames') = IF 1 <= m THEN (m - 1) + 1 ELSE 0
          /\ \A i \in 1..((m - 1) + 1) : frames'[i] = frames[(1 + i) - 1]
      <4>1. 1 \in Int /\ m \in Int
        OBVIOUS
      <4> QED
        BY <3>3, <4>1, SubSeqProperties
    <3>5. (m - 1) + 1 = m /\ \A i \in 1..m : (1 + i) - 1 = i
      OBVIOUS
    <3>6. Len(frames') = m
      BY <3>4, <3>5
    <3> QED
      BY <3>2, <3>4, <3>5, <3>6
  <2> QED
    BY <1>3, <2>2 DEF Loading, Last
<1>5. ASSUME IsReadable(Loading)
      PROVE  /\ loaded' = [loaded EXCEPT ![Loading] = Merged(Loading, Inherited)]
             /\ Merged(Loading, Inherited) \in LoadedConfig
             /\ Tame => /\ Merged(Loading, Inherited).paths = PathsTogether(Loading)
                        /\ Merged(Loading, Inherited).base = BaseTogether(Loading)
  BY <1>2, <1>5, MergedIs DEF IsReadable
<1>6. ~IsReadable(Loading) => loaded' = loaded
  BY <1>2, <1>4 DEF IsReadable
<1>7. DOMAIN loaded' = TsConfigs /\ \A d \in TsConfigs \ {Loading} : loaded'[d] = loaded[d]
  BY <1>5, <1>6 DEF LoadingInv
<1>8. IsReadable(Loading) => loaded'[Loading] = Merged(Loading, Inherited)
  BY <1>4, <1>5 DEF LoadingInv
<1>9. \A d \in TsConfigs : loaded'[d] \in LoadedConfig \cup {NotLoaded, NotSet}
  <2>1. loaded'[Loading] \in LoadedConfig \cup {NotLoaded, NotSet}
    BY <1>4, <1>5, <1>6, <1>8 DEF LoadingInv
  <2> QED
    BY <1>7, <2>1 DEF LoadingInv
<1>10. ASSUME NEW n \in 1..(Len(frames') - 1) PROVE FrameOK(n)'
  <2>1. n \in 1..(Len(frames) - 1) /\ frames'[n] = frames[n] /\ frames'[n + 1] = frames[n + 1]
    BY <1>3, <1>4
  <2>2. FrameOK(n)
    BY <2>1 DEF LoadingInv
  <2> QED
    BY <1>1, <2>1, <2>2 DEF FrameOK
<1>11. ASSUME NEW d \in TsConfigs, loaded'[d] = NotSet, IsReadable(d)
       PROVE  \E n \in DOMAIN frames' : frames'[n] = d
  <2>1. d # Loading
    BY <1>5, <1>8, <1>11, ResolverAssumption
  <2>2. loaded[d] = NotSet
    BY <1>7, <1>11, <2>1
  <2>3. PICK n \in DOMAIN frames : frames[n] = d
    BY <1>11, <2>2 DEF LoadingInv
  <2>4. n \in 1..(Len(frames) - 1)
    BY <1>3, <1>4, <2>1, <2>3
  <2> QED
    BY <1>4, <2>3, <2>4
<1>12. LoadedAsWritten'
  <2>1. ASSUME Tame, NEW d \in TsConfigs, loaded'[d] \notin {NotLoaded, NotSet}
        PROVE  loaded'[d].paths = PathsTogether(d) /\ loaded'[d].base = BaseTogether(d)
    <3>1. CASE d = Loading /\ IsReadable(Loading)
      BY <1>5, <1>8, <2>1, <3>1
    <3>2. CASE ~(d = Loading /\ IsReadable(Loading))
      <4>1. loaded'[d] = loaded[d]
        BY <1>6, <1>7, <3>2
      <4> QED
        BY <2>1, <4>1 DEF LoadingInv, LoadedAsWritten
    <3> QED
      BY <3>1, <3>2
  <2> QED
    BY <1>1, <2>1 DEF LoadedAsWritten
<1>13. Len(frames') <= MaxExtendsDepth + 1 /\ (source \in Checkouts)'
  BY <1>1, <1>3, <1>4, CheckoutIs DEF LoadingInv
<1> QED
  BY <1>1, <1>4, <1>7, <1>9, <1>10, <1>11, <1>12, <1>13 DEF LoadingInv

THEOREM TsConfigsAreLoadedAsWritten == ResolverSpec => []LoadedAsWritten
<1>1. ASSUME ResolverInit PROVE LoadingInv
  <2>1. source \in Checkouts /\ loaded = [c \in TsConfigs |-> NotLoaded] /\ frames = << >>
    BY <1>1 DEF ResolverInit, TsConfigs
  <2>2. frames \in Seq(TsConfigs) /\ Len(frames) = 0
    BY <2>1
  <2>3. MaxExtendsDepth \in Nat /\ NotSet # NotLoaded
    BY ResolverAssumption
  <2>4. LoadedAsWritten
    BY <2>1 DEF LoadedAsWritten
  <2> QED
    BY <2>1, <2>2, <2>3, <2>4 DEF LoadingInv
<1>2. ASSUME LoadingInv, ResolverNext \/ UNCHANGED resolverVars PROVE LoadingInv'
  <2>1. CASE ResolvePython
    BY <1>2, <2>1, LoadingRests DEF ResolvePython
  <2>2. CASE ResolveJs
    <3>1. source' = source /\ frames = << >>
      BY <2>2 DEF ResolveJs
    <3>2. PICK imported \in JsImports :
            ResolveRelative(imported) \/ ResolveAbsolute(imported) \/ ResolveAlias(imported)
      BY <2>2 DEF ResolveJs
    <3>3. CASE UNCHANGED <<loaded, frames>>
      BY <1>2, <3>1, <3>3, LoadingRests
    <3>4. CASE \E c \in NearestConfig(imported.importer) : Begins(c)
      <4>1. PICK c \in NearestConfig(imported.importer) : Begins(c)
        BY <3>4
      <4>2. c \in TsConfigs
        BY <4>1 DEF NearestConfig
      <4>3. Len(frames) <= MaxExtendsDepth
        BY <3>1, ResolverAssumption
      <4> QED
        BY <1>2, <3>1, <4>1, <4>2, <4>3, BeginsLoading
    <3> QED
      BY <3>2, <3>3, <3>4 DEF ResolveRelative, ResolveAbsolute, ResolveAlias
  <2>3. CASE LoadParent
    <3>1. /\ frames # << >> /\ IsReadable(Loading) /\ Parent \in TsConfigs /\ Begins(Parent)
          /\ UNCHANGED source
      <4>1. Loading \in TsConfigs
        <5>1. frames \in Seq(TsConfigs) /\ frames # << >>
          BY <1>2, <2>3 DEF LoadingInv, LoadParent
        <5>2. Len(frames) \in 1..Len(frames)
          BY <5>1, EmptySeq, LenProperties
        <5> QED
          BY <5>1, <5>2, ElementOfSeq DEF Loading, Last
      <4> QED
        BY <2>3, <4>1 DEF LoadParent, HasParent, IsReadable
    <3>2. Len(frames) <= MaxExtendsDepth
      <4>1. Len(frames) - 1 < MaxExtendsDepth /\ MaxExtendsDepth \in Nat /\ Len(frames) \in Nat
        BY <1>2, <2>3, ResolverAssumption DEF LoadParent, HasParent, ExtendsDepth, LoadingInv
      <4> QED
        BY <4>1
    <3> QED
      BY <1>2, <3>1, <3>2, BeginsLoading
  <2>4. CASE LoadEnds
    BY <1>2, <2>4, EndsLoading
  <2>5. CASE NextImport
    BY <1>2, <2>5, LoadingRests DEF NextImport
  <2>6. CASE UNCHANGED resolverVars
    BY <1>2, <2>6, LoadingRests DEF resolverVars
  <2> QED
    BY <1>2, <2>1, <2>2, <2>3, <2>4, <2>5, <2>6 DEF ResolverNext
<1>3. LoadingInv => LoadedAsWritten
  BY DEF LoadingInv
<1> QED
  BY <1>1, <1>2, <1>3, PTL DEF ResolverSpec

-----------------------------------------------------------------------------
(* Python.                                                                 *)

LEMMA FirstFileIs ==
  ASSUME NEW candidates, DOMAIN candidates \in SUBSET Nat
  PROVE  \/ FirstFile(candidates) = << >> /\ \A n \in DOMAIN candidates : candidates[n] \notin Paths
         \/ \E n \in DOMAIN candidates :
              candidates[n] \in Paths /\ FirstFile(candidates) = <<candidates[n]>>
<1> DEFINE existing == {n \in DOMAIN candidates : candidates[n] \in Paths}
<1>1. CASE existing = {}
  BY <1>1 DEF FirstFile
<1>2. CASE existing # {}
  <2>1. Min(existing) \in existing
    BY <1>2, MinIsLeast
  <2>2. FirstFile(candidates) = <<candidates[Min(existing)]>>
    BY <1>2 DEF FirstFile
  <2> QED
    BY <2>1, <2>2
<1> QED
  BY <1>1, <1>2

(* A directory.                                                            *)
LEMMA DirIs ==
  ASSUME NEW file \in SourceFile
  PROVE  /\ file = File(file.path, file.ext)
         /\ file.path \in Place /\ file.path # << >> /\ Len(file.path) \in Nat \ {0}
         /\ Dir(file) \in Place /\ Len(Dir(file)) = Len(file.path) - 1
         /\ \A n \in 1..(Len(file.path) - 1) : Dir(file)[n] = file.path[n]
<1>1. file = File(file.path, file.ext) /\ file.path \in Place /\ file.path # << >>
  BY DEF SourceFile, File
<1>2. Len(file.path) \in Nat \ {0}
  BY <1>1, EmptySeq, LenProperties DEF Place
<1>3. PICK m \in Nat : m + 1 = Len(file.path)
  BY <1>2
<1>4. Len(file.path) - 1 = m /\ Dir(file) = SubSeq(file.path, 1, m)
  BY <1>3 DEF Dir, Front
<1>5. /\ Dir(file) \in Seq(STRING)
      /\ Len(Dir(file)) = IF 1 <= m THEN (m - 1) + 1 ELSE 0
      /\ \A i \in 1..((m - 1) + 1) : Dir(file)[i] = file.path[(1 + i) - 1]
  <2>1. 1 \in Int /\ m \in Int /\ \A i \in 1..m : file.path[i] \in STRING
    BY <1>1, <1>3 DEF Place
  <2> QED
    BY <1>4, <2>1, SubSeqProperties
<1>6. (m - 1) + 1 = m /\ \A i \in 1..m : (1 + i) - 1 = i
  OBVIOUS
<1>7. Len(Dir(file)) = m
  BY <1>5, <1>6
<1> QED
  BY <1>1, <1>2, <1>4, <1>5, <1>6, <1>7 DEF Place

(* The file of a package, of a module and of the stub of a module.         *)
LEMMA PartsAre ==
  ASSUME NEW name \in Place, name # << >>, NEW ext
  PROVE  /\ Parts(File(Append(name, "__init__"), ext)) = name
         /\ Last(name) # "__init__" => Parts(File(name, ext)) = name
<1> DEFINE path == Append(name, "__init__")
<1>1. /\ Len(name) \in Nat /\ Len(path) = Len(name) + 1 /\ path[Len(name) + 1] = "__init__"
      /\ \A i \in 1..Len(name) : path[i] = name[i]
  BY AppendProperties DEF Place
<1>2. Last(path) = "__init__"
  BY <1>1 DEF Last
<1>3. Front(path) = name
  <2>1. (Len(name) + 1) - 1 = Len(name)
    BY <1>1
  <2>2. Front(path) = SubSeq(path, 1, Len(name))
    BY <1>1, <2>1 DEF Front
  <2>3. SubSeq(path, 1, Len(name)) = name
    BY DEF Place
  <2> QED
    BY <2>2, <2>3
<1> HIDE DEF path
<1>4. Parts(File(path, ext)) = name
  BY <1>2, <1>3 DEF Parts, File, Dir
<1>5. Last(name) # "__init__" => Parts(File(name, ext)) = name
  BY DEF Parts, File
<1> QED
  BY <1>4, <1>5 DEF path

(* A file in its own place is a candidate for its name.                    *)
LEMMA PlaceIsCandidate ==
  ASSUME NEW name \in Place, name # << >>, ToSet(name) \subseteq Identifiers,
         NEW file \in Paths, file.ext \in {"py", "pyi"}, Parts(file) = name
  PROVE  file \in Candidates(name)
<1>1. Len(name) \in Nat \ {0}
  BY EmptySeq, LenProperties DEF Place
<1>2. SubSeq(name, 0 + 1, Len(name)) = name
  BY <1>1 DEF Place
<1>3. 0 \in 0..(Len(Parts(file)) - 1)
  BY <1>1
<1>4. Provides(file, name)
  BY <1>2, <1>3 DEF Provides
<1> QED
  BY <1>4 DEF Candidates

LEMMA ModuleFileIs ==
  ASSUME NEW name \in Place, name # << >>
  PROVE  LET files == {File(name, "py"), File(Append(name, "__init__"), "py"), File(name, "pyi")}
         IN \/ ModuleFile(name) = << >> /\ files \cap Paths = {}
            \/ \E file \in files \cap Paths : ModuleFile(name) = <<file>>
<1> DEFINE c == <<File(name, "py"), File(Append(name, "__init__"), "py"), File(name, "pyi")>>
<1>1. DOMAIN c = 1..3 /\ DOMAIN c \in SUBSET Nat
  OBVIOUS
<1>2. ModuleFile(name) = FirstFile(c)
  BY DEF ModuleFile
<1>3. /\ c[1] = File(name, "py") /\ c[2] = File(Append(name, "__init__"), "py")
      /\ c[3] = File(name, "pyi")
  OBVIOUS
<1> HIDE DEF c
<1>4. \/ FirstFile(c) = << >> /\ \A n \in DOMAIN c : c[n] \notin Paths
      \/ \E n \in DOMAIN c : c[n] \in Paths /\ FirstFile(c) = <<c[n]>>
  BY <1>1, FirstFileIs
<1>5. 1 \in DOMAIN c /\ 2 \in DOMAIN c /\ 3 \in DOMAIN c /\ \A n \in DOMAIN c : n = 1 \/ n = 2 \/ n = 3
  BY <1>1
<1> QED
  BY <1>2, <1>3, <1>4, <1>5

(* What a relative import of a name finds.                                 *)
LEMMA RelativeIs ==
  ASSUME source \in Checkouts, NEW name \in Place
  PROVE  /\ \A target \in Relative(name) :
              /\ target.strategy = "relative"
              /\ IsIndexed(name) => target.file \in Candidates(name)
         /\ Relative(name) = {} => name = << >> \/ FilesAt(name) = {}
<1> DEFINE files == {File(name, "py"), File(Append(name, "__init__"), "py"), File(name, "pyi")}
<1>1. Relative(name) = {Resolved(file, "confirmed", "relative") : file \in ToSet(ModuleFile(name))}
  BY DEF Relative
<1>2. CASE name = << >>
  <2>1. ModuleFile(name) = << >>
    BY <1>2 DEF ModuleFile
  <2>2. ToSet(<< >>) = {}
    BY DEF ToSet
  <2> QED
    BY <1>1, <1>2, <2>1, <2>2
<1>3. CASE name # << >>
  <2>1. \/ ModuleFile(name) = << >> /\ files \cap Paths = {}
        \/ \E file \in files \cap Paths : ModuleFile(name) = <<file>>
    BY <1>3, ModuleFileIs
  <2>2. ASSUME NEW file \in files \cap Paths, IsIndexed(name)
        PROVE  file \in Candidates(name)
    <3>1. /\ ToSet(name) \subseteq Identifiers
          /\ Parts(File(Append(name, "__init__"), "py")) = name
          /\ Parts(File(name, "py")) = name /\ Parts(File(name, "pyi")) = name
      BY <1>3, <2>2, PartsAre DEF IsIndexed
    <3>2. Parts(file) = name
      BY <3>1
    <3>3. file.ext \in {"py", "pyi"}
      BY DEF File
    <3> QED
      BY <1>3, <3>1, <3>2, <3>3, PlaceIsCandidate
  <2>3. ASSUME NEW file \in FilesAt(name) PROVE file \in files
    <3>1. file \in Paths /\ (file.ext = "py" \/ (file.ext = "pyi" /\ Last(file.path) # "__init__"))
          /\ Parts(file) = name
      BY DEF FilesAt
    <3>2. file \in SourceFile
      BY <3>1, CheckoutIs
    <3>3. /\ file = File(file.path, file.ext)
          /\ file.path \in Place /\ Len(file.path) \in Nat \ {0}
          /\ Dir(file) \in Place /\ Len(Dir(file)) = Len(file.path) - 1
          /\ \A n \in 1..(Len(file.path) - 1) : Dir(file)[n] = file.path[n]
      BY <3>2, DirIs
    <3>4. CASE Last(file.path) # "__init__"
      <4>1. file.path = name
        BY <3>1, <3>4 DEF Parts
      <4> QED
        BY <3>1, <3>3, <4>1
    <3>5. CASE Last(file.path) = "__init__"
      <4>1. Dir(file) = name /\ file.ext = "py"
        BY <3>1, <3>5 DEF Parts
      <4>2. PICK m \in Nat : m + 1 = Len(file.path)
        BY <3>3
      <4>3. Len(name) = m /\ \A n \in 1..m : name[n] = file.path[n]
        BY <3>3, <4>1, <4>2
      <4>4. file.path[m + 1] = "__init__"
        BY <3>5, <4>2 DEF Last
      <4> DEFINE T == STRING \cup {"__init__"}
      <4>5. /\ Append(name, "__init__") \in Seq(T) /\ Len(Append(name, "__init__")) = m + 1
            /\ Append(name, "__init__")[m + 1] = "__init__"
            /\ \A n \in 1..m : Append(name, "__init__")[n] = name[n]
        <5>1. name \in Seq(T) /\ "__init__" \in T
          BY DEF Place
        <5> HIDE DEF T
        <5>2. /\ Append(name, "__init__") \in Seq(T)
              /\ Len(Append(name, "__init__")) = Len(name) + 1
              /\ \A i \in 1..Len(name) : Append(name, "__init__")[i] = name[i]
              /\ Append(name, "__init__")[Len(name) + 1] = "__init__"
          BY <5>1, AppendProperties
        <5> QED
          BY <4>3, <5>2
      <4>6. \A n \in 1..(m + 1) : file.path[n] = Append(name, "__init__")[n]
        BY <4>2, <4>3, <4>4, <4>5
      <4>7. file.path = Append(name, "__init__")
        <5>1. file.path \in Seq(T)
          BY <3>3 DEF Place
        <5> HIDE DEF T
        <5> QED
          BY <4>2, <4>5, <4>6, <5>1, SeqEqual
      <4> QED
        BY <3>3, <4>1, <4>7
    <3> QED
      BY <3>4, <3>5
  <2>4. CASE ModuleFile(name) = << >> /\ files \cap Paths = {}
    <3>1. FilesAt(name) = {}
      BY <2>3, <2>4 DEF FilesAt
    <3>2. Relative(name) = {}
      BY <1>1, <2>4 DEF ToSet
    <3> QED
      BY <3>1, <3>2
  <2>5. ASSUME NEW file \in files \cap Paths, ModuleFile(name) = <<file>>
        PROVE  /\ Relative(name) = {Resolved(file, "confirmed", "relative")}
               /\ IsIndexed(name) => file \in Candidates(name)
    <3>1. ToSet(<<file>>) = {file}
      BY DEF ToSet
    <3> QED
      BY <1>1, <2>2, <2>5, <3>1
  <2> HIDE DEF files
  <2>6. CASE \E file \in files \cap Paths : ModuleFile(name) = <<file>>
    <3>1. PICK file \in files \cap Paths : ModuleFile(name) = <<file>>
      BY <2>6
    <3>2. /\ Relative(name) = {Resolved(file, "confirmed", "relative")}
          /\ IsIndexed(name) => file \in Candidates(name)
      BY <2>5, <3>1
    <3> DEFINE only == Resolved(file, "confirmed", "relative")
    <3>3. only.strategy = "relative" /\ only.file = file
      BY DEF Resolved
    <3> HIDE DEF only
    <3>4. Relative(name) = {only}
      BY <3>2 DEF only
    <3> QED
      BY <3>2, <3>3, <3>4
  <2> QED
    BY <2>1, <2>4, <2>6
<1> QED
  BY <1>2, <1>3

(* How much of a directory and of a path agree.                            *)
LEMMA SharedPrefixIs ==
  ASSUME NEW dir \in Place, NEW file \in SourceFile
  PROVE  SharedPrefix(dir, file) \in Nat /\ SharedPrefix(dir, file) <= Len(dir)
<1> DEFINE agree == {n \in 0..Len(dir) : n <= Len(Dir(file)) /\ SubSeq(dir, 1, n) = SubSeq(Dir(file), 1, n)}
<1>1. Len(dir) \in Nat /\ Len(Dir(file)) \in Nat
  BY DirIs, LenProperties DEF Place
<1>2. 0 \in agree
  <2>1. SubSeq(dir, 1, 0) = << >> /\ SubSeq(Dir(file), 1, 0) = << >>
    BY SubSeqEmpty
  <2> QED
    BY <1>1, <2>1
<1>3. agree \in SUBSET Nat /\ agree # {} /\ \A n \in agree : n <= Len(dir)
  BY <1>1, <1>2
<1>4. SharedPrefix(dir, file) = CHOOSE n \in agree : \A k \in agree : k <= n
  BY DEF SharedPrefix
<1> HIDE DEF agree
<1>5. Max(agree) \in agree /\ \A k \in agree : Max(agree) >= k
  BY <1>1, <1>3, MaxIsGreatest
<1>6. \E n \in agree : \A k \in agree : k <= n
  <2>1. \A k \in agree : k <= Max(agree)
    BY <1>3, <1>5
  <2> QED
    BY <1>5, <2>1
<1>7. SharedPrefix(dir, file) \in agree
  BY <1>4, <1>6
<1> QED
  BY <1>3, <1>7

(* Among candidates there is a closest one.                                *)
LEMMA ClosestExists ==
  ASSUME source \in Checkouts, NEW importer \in Paths, NEW files \in SUBSET Paths, files # {}
  PROVE  Closest(importer, files) # {}
<1> DEFINE dir == Dir(importer)
           shared == {SharedPrefix(dir, f) : f \in files}
<1>1. Paths \subseteq SourceFile
  BY CheckoutIs
<1>2. dir \in Place /\ Len(dir) \in Nat
  BY <1>1, DirIs, LenProperties DEF Place
<1> HIDE DEF dir
<1>3. \A f \in files : SharedPrefix(dir, f) \in Nat /\ SharedPrefix(dir, f) <= Len(dir)
  BY <1>1, <1>2, SharedPrefixIs
<1>4. shared \in SUBSET Nat /\ shared # {} /\ \A n \in shared : n <= Len(dir)
  BY <1>3
<1>5. Max(shared) \in shared /\ \A n \in shared : Max(shared) >= n
  <2> HIDE DEF shared
  <2> QED
    BY <1>2, <1>4, MaxIsGreatest
<1>6. PICK f \in files : SharedPrefix(dir, f) = Max(shared)
  BY <1>5
<1>7. \A g \in files : SharedPrefix(dir, f) >= SharedPrefix(dir, g)
  BY <1>5, <1>6
<1> QED
  BY <1>7 DEF Closest, dir

(* What an absolute import of a name finds.                                *)
LEMMA AbsoluteIs ==
  ASSUME source \in Checkouts, NEW importer \in Paths, NEW dotted
  PROVE  LET files == Candidates(dotted)
         IN /\ \A target \in Absolute(importer, dotted) :
                 \/ target.strategy = "package" /\ files = {target.file}
                 \/ target.strategy = "ambiguous" /\ target.file \in files /\ Cardinality(files) > 1
            /\ Absolute(importer, dotted) = {} => files = {}
<1> DEFINE files == Candidates(dotted)
<1>1. files \in SUBSET Paths /\ IsFiniteSet(files) /\ Cardinality(files) \in Nat
  <2>1. files \in SUBSET Paths
    BY DEF Candidates
  <2>2. IsFiniteSet(files)
    BY <2>1, CheckoutIs, FS_Subset
  <2> QED
    BY <2>1, <2>2, FS_CardinalityType
<1>2. CASE Cardinality(files) = 1
  <2>1. Absolute(importer, dotted) = {Resolved(CHOOSE f \in files : TRUE, "confirmed", "package")}
    BY <1>2 DEF Absolute
  <2>2. PICK f : files = {f}
    BY <1>1, <1>2, FS_Singleton
  <2>3. (CHOOSE g \in files : TRUE) = f
    BY <2>2
  <2> DEFINE only == Resolved(f, "confirmed", "package")
  <2>4. only.strategy = "package" /\ only.file = f
    BY DEF Resolved
  <2> HIDE DEF files, only
  <2>5. Absolute(importer, dotted) = {only}
    BY <2>1, <2>3 DEF only
  <2>6. \A target \in Absolute(importer, dotted) :
          target.strategy = "package" /\ files = {target.file}
    BY <2>2, <2>4, <2>5
  <2> QED
    BY <2>5, <2>6 DEF files
<1>3. CASE Cardinality(files) # 1
  <2>1. Absolute(importer, dotted)
          = {Resolved(f, "inferred", "ambiguous") : f \in Closest(importer, files)}
    BY <1>3 DEF Absolute
  <2>2. Closest(importer, files) \subseteq files
    BY DEF Closest
  <2> HIDE DEF files
  <2>3. CASE files = {}
    <3>1. Absolute(importer, dotted) = {}
      BY <2>1, <2>2, <2>3
    <3> QED
      BY <2>3, <3>1 DEF files
  <2>4. CASE files # {}
    <3>1. Cardinality(files) > 1
      <4>1. Cardinality(files) # 0
        BY <1>1, <2>4, FS_EmptySet
      <4> QED
        BY <1>1, <1>3, <4>1
    <3>2. PICK f : f \in Closest(importer, files)
      BY <1>1, <2>4, ClosestExists
    <3>3. Absolute(importer, dotted) # {}
      BY <2>1, <3>2
    <3>4. \A target \in Absolute(importer, dotted) :
            target.strategy = "ambiguous" /\ target.file \in files
      BY <2>1, <2>2 DEF Resolved
    <3> QED
      BY <3>1, <3>3, <3>4 DEF files
  <2> QED
    BY <2>3, <2>4 DEF files
<1> QED
  BY <1>2, <1>3

LEMMA StartIs ==
  ASSUME NEW importer \in SourceFile, NEW level \in Nat \ {0}
  PROVE  LET dir == Dir(importer)
             kept == {n \in DOMAIN dir : n + level <= Len(dir) + 1}
         IN /\ RelativeStart(importer, level) = [n \in 1..Cardinality(kept) |-> dir[n]]
            /\ RelativeStart(importer, level) \in Place
<1> DEFINE dir == Dir(importer)
           kept == {n \in DOMAIN dir : n + level <= Len(dir) + 1}
<1>1. dir \in Seq(STRING) /\ Len(dir) \in Nat /\ DOMAIN dir = 1..Len(dir)
  BY DirIs, LenProperties DEF Place
<1> HIDE DEF dir
<1>2. PICK k \in Int : k = Len(dir) - (level - 1) /\ k <= Len(dir)
  <2>1. PICK m \in Nat : m = Len(dir)
    BY <1>1
  <2>2. m - (level - 1) \in Int /\ m - (level - 1) <= m
    OBVIOUS
  <2> QED
    BY <2>1, <2>2
<1>3. \A i \in 1..k : dir[i] \in STRING
  BY <1>1, <1>2
<1>4. RelativeStart(importer, level) = SubSeq(dir, 1, k)
  BY <1>2 DEF RelativeStart, dir
<1>5. /\ SubSeq(dir, 1, k) \in Seq(STRING)
      /\ Len(SubSeq(dir, 1, k)) = IF 1 <= k THEN (k - 1) + 1 ELSE 0
      /\ \A i \in 1..((k - 1) + 1) : SubSeq(dir, 1, k)[i] = dir[(1 + i) - 1]
  <2>1. 1 \in Int
    OBVIOUS
  <2> QED
    BY <1>2, <1>3, <2>1, SubSeqProperties
<1>6. kept = 1..k
  BY <1>1, <1>2
<1> HIDE DEF kept
<1>7. CASE 1 <= k
  <2>1. Cardinality(kept) = k
    <3>1. Cardinality(1..k) = IF 1 > k THEN 0 ELSE (k - 1) + 1
      <4>1. 1 \in Int /\ k \in Int
        OBVIOUS
      <4> QED
        BY <4>1, FS_Interval
    <3> QED
      BY <1>2, <1>6, <1>7, <3>1
  <2>2. Len(SubSeq(dir, 1, k)) = k /\ \A i \in 1..k : SubSeq(dir, 1, k)[i] = dir[i]
    <3>1. (k - 1) + 1 = k /\ \A i \in 1..k : (1 + i) - 1 = i
      BY <1>2
    <3> QED
      BY <1>5, <1>7, <3>1
  <2>3. SubSeq(dir, 1, k) = [n \in 1..k |-> dir[n]]
    BY <1>5, <2>2
  <2> QED
    BY <1>4, <1>5, <2>1, <2>3 DEF dir, kept, Place
<1>8. CASE k < 1
  <2>1. kept = {}
    BY <1>2, <1>6, <1>8
  <2>2. Cardinality(kept) = 0
    BY <2>1, FS_EmptySet
  <2>3. SubSeq(dir, 1, k) = << >>
    BY <1>2, <1>8, SubSeqEmpty
  <2>4. [n \in 1..0 |-> dir[n]] = << >>
    OBVIOUS
  <2> QED
    BY <1>4, <1>5, <2>2, <2>3, <2>4 DEF dir, kept, Place
<1> QED
  BY <1>2, <1>7, <1>8

(* The places and the targets of an import.                                *)
LEMMA TargetsAre ==
  ASSUME source \in Checkouts, NEW imported \in PythonImports, imported.importer \in Paths,
         NEW extra \in Extras(imported)
  PROVE  /\ imported.level \in Nat
         /\ extra \in DOMAIN PythonTargets(imported)
         /\ imported.level = 0 =>
              PythonTargets(imported)[extra]
                = Absolute(imported.importer, imported.dotted \o extra)
         /\ imported.level # 0 =>
              /\ PythonTargets(imported)[extra] = Relative(FullName(imported, extra))
              /\ FullName(imported, extra) \in Place
<1>1. imported.level \in Nat /\ imported.dotted \in Place /\ \A name \in imported.names : name \in STRING
  BY ResolverAssumption
<1>2. extra \in Place
  <2>1. extra = << >> \/ \E name \in imported.names : extra = <<name>>
    BY DEF Extras
  <2>2. << >> \in Seq(STRING) /\ \A name \in STRING : <<name>> \in Seq(STRING)
    OBVIOUS
  <2> QED
    BY <1>1, <2>1, <2>2 DEF Place
<1> DEFINE start == RelativeStart(imported.importer, imported.level)
<1>3. PythonTargets(imported)[extra] =
        IF imported.level > 0 THEN Relative(start \o imported.dotted \o extra)
        ELSE Absolute(imported.importer, imported.dotted \o extra)
  BY DEF PythonTargets
<1>4. extra \in DOMAIN PythonTargets(imported)
  BY DEF PythonTargets
<1>5. ASSUME imported.level # 0
      PROVE  /\ FullName(imported, extra) = start \o imported.dotted \o extra
             /\ FullName(imported, extra) \in Place
  <2>1. imported.importer \in SourceFile /\ imported.level \in Nat \ {0}
    BY <1>1, <1>5, CheckoutIs
  <2>2. /\ start = [n \in 1..Cardinality({n \in DOMAIN Dir(imported.importer) :
                                            n + imported.level <= Len(Dir(imported.importer)) + 1})
                      |-> Dir(imported.importer)[n]]
        /\ start \in Place
    BY <2>1, StartIs
  <2>3. FullName(imported, extra) = start \o imported.dotted \o extra
    BY <2>2 DEF FullName
  <2> HIDE DEF start
  <2>4. start \o imported.dotted \in Place
    BY <1>1, <2>2, ConcatProperties DEF Place
  <2>5. start \o imported.dotted \o extra \in Place
    BY <1>2, <2>4, ConcatProperties DEF Place
  <2> QED
    BY <2>3, <2>5
<1> HIDE DEF start
<1>6. imported.level = 0 => ~(imported.level > 0)
  BY <1>1
<1>7. imported.level # 0 => imported.level > 0
  BY <1>1
<1> QED
  BY <1>1, <1>3, <1>4, <1>5, <1>6, <1>7

LEMMA TargetsAgree ==
  ASSUME source \in Checkouts, NEW imported \in PythonImports, imported.importer \in Paths,
         NEW extra \in Extras(imported), NEW targets,
         extra \in DOMAIN targets => targets[extra] \in PythonTargets(imported)[extra],
         extra \notin DOMAIN targets => PythonTargets(imported)[extra] = {}
  PROVE  FormsAgree(imported, extra, targets)
<1> DEFINE files == Candidates(imported.dotted \o extra)
           name == FullName(imported, extra)
           found == PythonTargets(imported)[extra]
<1>1. CASE imported.level = 0
  <2>1. found = Absolute(imported.importer, imported.dotted \o extra)
    BY <1>1, TargetsAre
  <2>2. /\ \A target \in found :
             \/ target.strategy = "package" /\ files = {target.file}
             \/ target.strategy = "ambiguous" /\ target.file \in files /\ Cardinality(files) > 1
        /\ found = {} => files = {}
    BY <2>1, AbsoluteIs
  <2> HIDE DEF files, name, found
  <2>3. extra \in DOMAIN targets => targets[extra] \in found
    BY DEF found
  <2>4. extra \notin DOMAIN targets => found = {}
    BY DEF found
  <2> QED
    BY <1>1, <2>2, <2>3, <2>4 DEF FormsAgree, files
<1>2. CASE imported.level # 0
  <2>1. found = Relative(name) /\ name \in Place
    BY <1>2, TargetsAre
  <2> HIDE DEF name
  <2>2. /\ \A target \in found :
             target.strategy = "relative" /\ (IsIndexed(name) => target.file \in Candidates(name))
        /\ found = {} => name = << >> \/ FilesAt(name) = {}
    BY <2>1, RelativeIs
  <2> HIDE DEF files, found
  <2>3. extra \in DOMAIN targets => targets[extra] \in found
    BY DEF found
  <2>4. extra \notin DOMAIN targets => found = {}
    BY DEF found
  <2> QED
    BY <1>2, <2>2, <2>3, <2>4 DEF FormsAgree, name
<1> QED
  BY <1>1, <1>2

LEMMA SameAgreement ==
  ASSUME source' = source
  PROVE  \A imported, extra, targets :
           FormsAgree(imported, extra, targets)' <=> FormsAgree(imported, extra, targets)
BY DEF FormsAgree, Candidates, Provides, FullName, FilesAt, Paths, Dir, Parts, File, IsIndexed

(* Only an import of a script loads tsconfig files, before its answer.     *)
ImportsInv ==
  /\ source \in Checkouts
  /\ frames # << >> => asked \in JsImports /\ answer = Nothing
  /\ RelativeAgreesWithAbsolute

Given == IF answer.status = "resolved" THEN answer.targets ELSE << >>

(* An answer to a Python import.                                           *)
LEMMA AnswersAgree ==
  ASSUME ImportsInv, ResolvePython
  PROVE  RelativeAgreesWithAbsolute'
<1>1. PICK imported \in PythonImports :
        /\ imported.importer \in Paths
        /\ asked' = imported
        /\ LET targets == PythonTargets(imported)
               known == {extra \in DOMAIN targets : targets[extra] # {}}
           IN \E chosen \in [known -> UNION {targets[extra] : extra \in known}] :
                /\ \A extra \in known : chosen[extra] \in targets[extra]
                /\ answer' = IF known # {} THEN [status |-> "resolved", targets |-> chosen]
                             ELSE IF imported.level > 0 THEN Unresolved ELSE External
  BY DEF ResolvePython
<1> DEFINE targets == PythonTargets(imported)
           known == {extra \in DOMAIN targets : targets[extra] # {}}
<1>2. PICK chosen \in [known -> UNION {targets[extra] : extra \in known}] :
        /\ \A extra \in known : chosen[extra] \in targets[extra]
        /\ answer' = IF known # {} THEN [status |-> "resolved", targets |-> chosen]
                     ELSE IF imported.level > 0 THEN Unresolved ELSE External
  BY <1>1
<1>3. source' = source /\ source \in Checkouts
  BY DEF ResolvePython, ImportsInv
<1>4. DOMAIN chosen = known
  BY <1>2
<1>5. \A extra \in Extras(imported) : extra \in DOMAIN targets
  BY <1>1, <1>3, TargetsAre
<1>6. \A extra \in Extras(imported) : extra \notin known => targets[extra] = {}
  BY <1>5
<1> HIDE DEF targets, known
<1>7. DOMAIN Given' = known /\ \A extra \in known : Given'[extra] \in targets[extra]
  <2>1. CASE known # {}
    <3>1. answer' = [status |-> "resolved", targets |-> chosen]
      BY <1>2, <2>1
    <3>2. Given' = chosen
      BY <3>1 DEF Given
    <3> QED
      BY <1>2, <1>4, <3>2
  <2>2. CASE known = {}
    <3>1. answer' = Unresolved \/ answer' = External
      BY <1>2, <2>2
    <3>2. answer'.status # "resolved"
      BY <3>1 DEF Unresolved, External
    <3>3. Given' = << >>
      BY <3>2 DEF Given
    <3>4. DOMAIN Given' = {}
      BY <3>3
    <3> QED
      BY <2>2, <3>4
  <2> QED
    BY <2>1, <2>2
<1>8. ASSUME NEW extra \in Extras(imported) PROVE FormsAgree(imported, extra, Given')
  <2>1. extra \in DOMAIN Given' => Given'[extra] \in PythonTargets(imported)[extra]
    BY <1>7 DEF targets
  <2>2. extra \notin DOMAIN Given' => PythonTargets(imported)[extra] = {}
    BY <1>6, <1>7 DEF targets
  <2> QED
    BY <1>1, <1>3, <2>1, <2>2, TargetsAgree
<1> QED
  BY <1>1, <1>3, <1>8, SameAgreement DEF RelativeAgreesWithAbsolute, Given, Extras

(* Nothing about a Python answer changes.                                  *)
LEMMA AnswerRests ==
  ASSUME ImportsInv, UNCHANGED <<source, asked, answer>>
  PROVE  RelativeAgreesWithAbsolute' /\ (source \in Checkouts)'
<1>1. Given' = Given
  BY DEF Given
<1>2. \A extra \in Extras(asked) : FormsAgree(asked, extra, Given)' <=> FormsAgree(asked, extra, Given)
  BY <1>1, SameAgreement
<1> QED
  BY <1>2 DEF RelativeAgreesWithAbsolute, IsPython, Given, Extras, ImportsInv

LEMMA NotPython ==
  ASSUME ImportsInv, source' = source, asked' \in JsImports \/ answer' = Nothing
  PROVE  RelativeAgreesWithAbsolute' /\ (source \in Checkouts)'
BY ResolverAssumption DEF RelativeAgreesWithAbsolute, IsPython, ImportsInv, Nothing

THEOREM RelativeAndAbsoluteImportsAgree == ResolverSpec => []RelativeAgreesWithAbsolute
<1>1. ASSUME ResolverInit PROVE ImportsInv
  BY <1>1 DEF ResolverInit, ImportsInv, RelativeAgreesWithAbsolute, IsPython
<1>2. ASSUME ImportsInv, ResolverNext \/ UNCHANGED resolverVars PROVE ImportsInv'
  <2>1. CASE ResolvePython
    <3>1. UNCHANGED <<source, frames>> /\ frames = << >>
      BY <2>1 DEF ResolvePython
    <3> QED
      BY <1>2, <2>1, <3>1, AnswersAgree DEF ImportsInv
  <2>2. CASE ResolveJs
    <3>1. source' = source /\ asked' \in JsImports
      BY <2>2 DEF ResolveJs, ResolveRelative, ResolveAbsolute, ResolveAlias, Answers
    <3>2. frames' # << >> => answer' = Nothing
      BY <2>2 DEF ResolveJs, ResolveRelative, ResolveAbsolute, ResolveAlias, Answers
    <3> QED
      BY <1>2, <3>1, <3>2, NotPython DEF ImportsInv
  <2>3. CASE LoadParent
    <3>1. UNCHANGED <<source, asked, answer>> /\ frames # << >>
      BY <2>3 DEF LoadParent
    <3> QED
      BY <1>2, <3>1, AnswerRests DEF ImportsInv
  <2>4. CASE LoadEnds
    <3>1. UNCHANGED <<source, asked>> /\ frames # << >>
      BY <2>4 DEF LoadEnds
    <3>2. frames' # << >> => answer' = Nothing
      <4>1. CASE Len(frames) = 1
        <5>1. frames' = SubSeq(frames, 1, 1 - 1)
          BY <2>4, <4>1 DEF LoadEnds, Front
        <5>2. frames' = << >>
          BY <5>1, SubSeqEmpty
        <5> QED
          BY <5>2
      <4>2. CASE Len(frames) # 1
        BY <1>2, <2>4, <4>2 DEF LoadEnds, ImportsInv
      <4> QED
        BY <4>1, <4>2
    <3> QED
      BY <1>2, <3>1, <3>2, NotPython DEF ImportsInv
  <2>5. CASE NextImport
    <3>1. UNCHANGED <<source, frames>> /\ frames = << >> /\ answer' = Nothing
      BY <1>2, <2>5 DEF NextImport, ImportsInv
    <3> QED
      BY <1>2, <3>1, NotPython DEF ImportsInv
  <2>6. CASE UNCHANGED resolverVars
    <3>1. UNCHANGED <<source, frames, asked, answer>>
      BY <2>6 DEF resolverVars
    <3> QED
      BY <1>2, <3>1, AnswerRests DEF ImportsInv
  <2> QED
    BY <1>2, <2>1, <2>2, <2>3, <2>4, <2>5, <2>6 DEF ResolverNext
<1>3. ImportsInv => RelativeAgreesWithAbsolute
  BY DEF ImportsInv
<1> QED
  BY <1>1, <1>2, <1>3, PTL DEF ResolverSpec

=============================================================================
