-------------------------- MODULE StandingsProofs ---------------------------
(***************************************************************************)
(* What the aggregations of Standings return, for any finite set of rows:  *)
(* an ordered set has each element at its rank, a sum of integers is one   *)
(* and depends on the summands only, and the arithmetic of a week stays in *)
(* its ranges.                                                             *)
(***************************************************************************)
EXTENDS Standings, FiniteSetTheorems, SequenceTheorems, TLAPS

-----------------------------------------------------------------------------
(* Ranks.  B[x] is what comes before x. *)

IsOrder(S, B) ==
    /\ B \in [S -> SUBSET S]
    /\ \A x \in S : x \notin B[x]
    /\ \A x, y \in S : y \in B[x] => B[y] \subseteq B[x]
    /\ \A x, y \in S : x = y \/ x \in B[y] \/ y \in B[x]

(* With fewer before it, an element comes earlier. *)
LEMMA FewerComeBefore ==
    ASSUME NEW S, IsFiniteSet(S), NEW B, IsOrder(S, B), NEW x \in S, NEW y \in S
    PROVE  /\ Cardinality(B[x]) \in 0 .. Cardinality(S) - 1
           /\ y \in B[x] <=> Cardinality(B[y]) < Cardinality(B[x])
           /\ Cardinality(B[x]) = Cardinality(B[y]) => x = y
  <1>1. ASSUME NEW u \in S
        PROVE  /\ IsFiniteSet(B[u])
               /\ Cardinality(B[u]) \in 0 .. Cardinality(S) - 1
    <2>1. B[u] \in SUBSET (S \ {u})
      BY DEF IsOrder
    <2>2. /\ IsFiniteSet(S \ {u})
          /\ Cardinality(S \ {u}) = Cardinality(S) - 1
      BY FS_RemoveElement
    <2>3. IsFiniteSet(B[u]) /\ Cardinality(B[u]) <= Cardinality(S \ {u})
      BY <2>1, <2>2, FS_Subset
    <2>4. Cardinality(B[u]) \in Nat /\ Cardinality(S) \in Nat
      BY <2>3, FS_CardinalityType
    <2>5. QED
      BY <2>2, <2>3, <2>4
  <1>2. ASSUME NEW u \in S, NEW v \in S, v \in B[u]
        PROVE  Cardinality(B[v]) < Cardinality(B[u])
    <2>1. B[v] \in SUBSET B[u] /\ B[v] # B[u]
      BY <1>2 DEF IsOrder
    <2>2. /\ Cardinality(B[v]) <= Cardinality(B[u])
          /\ Cardinality(B[u]) = Cardinality(B[v]) => B[u] = B[v]
      BY <1>1, <2>1, FS_Subset
    <2>3. Cardinality(B[v]) \in Int /\ Cardinality(B[u]) \in Int
      BY <1>1, FS_CardinalityType
    <2>4. QED
      BY <2>1, <2>2, <2>3
  <1>3. x = y \/ x \in B[y] \/ y \in B[x]
    BY DEF IsOrder
  <1>4. Cardinality(B[x]) \in Int /\ Cardinality(B[y]) \in Int
    BY <1>1, FS_CardinalityType
  <1>5. x = y => y \notin B[x]
    BY DEF IsOrder
  <1>6. QED
    BY <1>1, <1>2, <1>3, <1>4, <1>5

(* Every rank is somebody's: ranks are an injection into as many numbers.  *)
LEMMA EveryRankIsTaken ==
    ASSUME NEW S, IsFiniteSet(S), NEW B, IsOrder(S, B), NEW i \in 1 .. Cardinality(S)
    PROVE  \E x \in S : Cardinality(B[x]) = i - 1
  <1> DEFINE n == Cardinality(S)
             rank == [x \in S |-> Cardinality(B[x]) + 1]
  <1>1. n \in Nat
    BY FS_CardinalityType
  <1>2. ASSUME NEW x \in S
        PROVE  rank[x] \in 1 .. n /\ rank[x] = Cardinality(B[x]) + 1 /\ Cardinality(B[x]) \in Int
    <2>1. Cardinality(B[x]) \in 0 .. Cardinality(S) - 1
      BY FewerComeBefore
    <2>2. QED
      BY <1>1, <2>1
  <1>3. rank \in [S -> 1 .. n]
    BY <1>2
  <1>4. ASSUME NEW x \in S, NEW y \in S, rank[x] = rank[y]
        PROVE  x = y
    <2>1. Cardinality(B[x]) = Cardinality(B[y])
      BY <1>2, <1>4
    <2>2. QED
      BY <2>1, FewerComeBefore
  <1>5. rank \in Injection(S, 1 .. n)
    <2>1. \A x, y \in S : rank[x] = rank[y] => x = y
      BY <1>4
    <2>2. QED
      BY <1>3, <2>1 DEF Injection, IsInjective
  <1>6. IsFiniteSet(1 .. n) /\ Cardinality(1 .. n) = n
    BY <1>1, FS_Interval
  <1>7. rank \in Surjection(S, 1 .. n)
    BY <1>5, <1>6, FS_Injection
  <1>8. \A k \in 1 .. n : \E x \in S : rank[x] = k
    BY <1>7 DEF Surjection
  <1>9. PICK x \in S : rank[x] = i
    BY <1>8
  <1>10. Cardinality(B[x]) + 1 = i /\ Cardinality(B[x]) \in Int
    BY <1>2, <1>9
  <1>11. i \in Int
    BY <1>1
  <1>12. QED
    BY <1>10, <1>11

(* A sequence s lists S by rank. *)
ListsByRank(s, S, B) ==
    /\ s \in [1 .. Cardinality(S) -> S]
    /\ \A i \in 1 .. Cardinality(S) : Cardinality(B[s[i]]) = i - 1

(* Then each element is listed once, at its rank. *)
LEMMA ListedAtItsRank ==
    ASSUME NEW S, IsFiniteSet(S), NEW B, IsOrder(S, B), NEW s, ListsByRank(s, S, B), NEW x \in S
    PROVE  /\ Cardinality(B[x]) + 1 \in 1 .. Cardinality(S)
           /\ s[Cardinality(B[x]) + 1] = x
  <1> DEFINE i == Cardinality(B[x]) + 1
  <1>1. Cardinality(B[x]) \in 0 .. Cardinality(S) - 1
    BY FewerComeBefore
  <1>2. Cardinality(S) \in Nat
    BY FS_CardinalityType
  <1>3. i \in 1 .. Cardinality(S) /\ i - 1 = Cardinality(B[x])
    BY <1>1, <1>2
  <1>4. s[i] \in S /\ Cardinality(B[s[i]]) = Cardinality(B[x])
    BY <1>3 DEF ListsByRank
  <1>5. s[i] = x
    BY <1>4, FewerComeBefore
  <1>6. QED
    BY <1>3, <1>5

(* Filtered's indices: those kept, in their order. *)
Lower(K) == [j \in K |-> {i \in K : i < j}]

LEMMA NumbersAreOrdered ==
    ASSUME NEW K \in SUBSET Nat
    PROVE  IsOrder(K, Lower(K))
  <1>1. Lower(K) \in [K -> SUBSET K] /\ \A x \in K : Lower(K)[x] = {i \in K : i < x}
    BY DEF Lower
  <1>2. \A x \in K : x \in Nat
    OBVIOUS
  <1>3. \A x, y \in K : x = y \/ x < y \/ y < x
    BY <1>2
  <1>4. \A x \in K : ~(x < x)
    BY <1>2
  <1>5. ASSUME NEW x \in K, NEW y \in K, y < x
        PROVE  {i \in K : i < y} \subseteq {i \in K : i < x}
    <2>1. ASSUME NEW i \in K, i < y
          PROVE  i < x
      <3>1. i \in Nat /\ x \in Nat /\ y \in Nat
        BY <1>2
      <3>2. QED
        BY <1>5, <2>1, <3>1
    <2>2. QED
      BY <2>1
  <1>6. ASSUME NEW x \in K, NEW y \in K, y \in Lower(K)[x]
        PROVE  Lower(K)[y] \subseteq Lower(K)[x]
    <2>1. y < x
      BY <1>1, <1>6
    <2>2. QED
      BY <1>1, <1>5, <2>1
  <1>7. \A x \in K : x \notin Lower(K)[x]
    BY <1>1, <1>4
  <1>8. \A x, y \in K : x = y \/ x \in Lower(K)[y] \/ y \in Lower(K)[x]
    BY <1>1, <1>3
  <1>9. QED
    BY <1>1, <1>6, <1>7, <1>8 DEF IsOrder

LEMMA KeptIndices ==
    ASSUME NEW K \in SUBSET Nat, IsFiniteSet(K)
    PROVE  ListsByRank(InOrder(K, LAMBDA i, j : i < j), K, Lower(K))
  <1> DEFINE s == InOrder(K, LAMBDA i, j : i < j)
  <1>1. s = [k \in 1 .. Cardinality(K) |->
                CHOOSE x \in K : Cardinality({y \in K : y < x}) = k - 1]
    BY Zenon DEF InOrder
  <1>2. ASSUME NEW k \in 1 .. Cardinality(K)
        PROVE  s[k] \in K /\ Cardinality({y \in K : y < s[k]}) = k - 1
    <2>1. \E x \in K : Cardinality(Lower(K)[x]) = k - 1
      BY NumbersAreOrdered, EveryRankIsTaken
    <2>2. \E x \in K : Cardinality({y \in K : y < x}) = k - 1
      BY <2>1 DEF Lower
    <2>3. s[k] = CHOOSE x \in K : Cardinality({y \in K : y < x}) = k - 1
      BY <1>1
    <2> HIDE DEF s
    <2>4. QED
      BY <2>2, <2>3
  <1>3. s \in [1 .. Cardinality(K) -> K]
    <2>1. \A k \in 1 .. Cardinality(K) : (CHOOSE x \in K : Cardinality({y \in K : y < x}) = k - 1) \in K
      BY <1>1, <1>2
    <2> HIDE DEF s
    <2>2. QED
      BY <1>1, <2>1
  <1> HIDE DEF s
  <1>4. \A k \in 1 .. Cardinality(K) : Lower(K)[s[k]] = {y \in K : y < s[k]}
    BY <1>2 DEF Lower
  <1>5. ListsByRank(s, K, Lower(K))
    BY <1>2, <1>3, <1>4 DEF ListsByRank
  <1>6. QED
    BY <1>5 DEF s
-----------------------------------------------------------------------------
(* Sums.  The fold behind MapThenSumSet is a function on the subsets of S, *)
(* defined by recursion; that there is one, and only one, follows from a   *)
(* smallest subset on which it fails.                                      *)

Pick(s) == CHOOSE x \in s : TRUE

IsSum(f, g, S) ==
    f = [s \in SUBSET S |-> IF s = {} THEN 0 ELSE g[Pick(s)] + f[s \ {Pick(s)}]]

LEMMA Picked ==
    ASSUME NEW s, s # {}
    PROVE  Pick(s) \in s
  BY Zenon DEF Pick

LEMMA SmallestSubset ==
    ASSUME NEW S, IsFiniteSet(S), NEW Bad \in SUBSET SUBSET S, Bad # {}
    PROVE  \E T \in Bad : \A U \in Bad : U \subseteq T => U = T
  <1>1. FiniteSubsetsOf(S) = SUBSET S
    BY FS_FiniteSubsetsOfFinite
  <1>2. IsWellFoundedOn(StrictSubsetOrdering(S), SUBSET S)
    BY <1>1, FS_StrictSubsetOrderingWellFounded
  <1>3. \E T \in Bad : \A U \in Bad : <<U, T>> \notin StrictSubsetOrdering(S)
    BY <1>2, WFMin
  <1>4. PICK T \in Bad : \A U \in Bad : <<U, T>> \notin StrictSubsetOrdering(S)
    BY <1>3
  <1>5. ASSUME NEW U \in Bad, U \subseteq T, U # T
        PROVE  FALSE
    <2>1. <<U, T>> \in StrictSubsetOrdering(S)
      BY <1>5 DEF StrictSubsetOrdering
    <2>2. QED
      BY <1>4, <2>1
  <1>6. QED
    BY <1>4, <1>5

LEMMA SumsAgree ==
    ASSUME NEW S, IsFiniteSet(S), NEW T, NEW g, NEW f, NEW h,
           IsSum(f, g, S), IsSum(h, g, T), NEW s, s \subseteq S, s \subseteq T
    PROVE  f[s] = h[s]
  <1> DEFINE Bad == {u \in SUBSET S : u \subseteq T /\ f[u] # h[u]}
  <1>1. SUFFICES ASSUME Bad # {}
                 PROVE  FALSE
    OBVIOUS
  <1>2. PICK u \in Bad : \A v \in Bad : v \subseteq u => v = u
    <2>1. Bad \in SUBSET SUBSET S
      OBVIOUS
    <2> HIDE DEF Bad
    <2>2. QED
      BY <1>1, <2>1, SmallestSubset
  <1>3. /\ f[u] = IF u = {} THEN 0 ELSE g[Pick(u)] + f[u \ {Pick(u)}]
        /\ h[u] = IF u = {} THEN 0 ELSE g[Pick(u)] + h[u \ {Pick(u)}]
    <2>1. u \in SUBSET S /\ u \in SUBSET T
      OBVIOUS
    <2>2. QED
      BY <2>1, Zenon DEF IsSum
  <1>4. u # {}
    BY <1>3
  <1>5. Pick(u) \in u
    BY <1>4, Picked
  <1>6. u \ {Pick(u)} \in SUBSET S /\ u \ {Pick(u)} \subseteq T /\ u \ {Pick(u)} \subseteq u
    OBVIOUS
  <1>7. f[u \ {Pick(u)}] = h[u \ {Pick(u)}]
    BY <1>2, <1>5, <1>6
  <1>8. f[u] = h[u]
    BY <1>3, <1>4, <1>7
  <1>9. QED
    BY <1>8

LEMMA SumExists ==
    ASSUME NEW S, IsFiniteSet(S), NEW g \in [S -> Int]
    PROVE  \E f \in [SUBSET S -> Int] : IsSum(f, g, S)
  <1> DEFINE Has(T) == \E f \in [SUBSET T -> Int] : IsSum(f, g, T)
             Bad == {T \in SUBSET S : ~Has(T)}
  <1>1. SUFFICES ASSUME Bad # {}
                 PROVE  FALSE
    BY Zenon
  <1>2. PICK T \in Bad : \A U \in Bad : U \subseteq T => U = T
    <2>1. Bad \in SUBSET SUBSET S
      OBVIOUS
    <2> HIDE DEF Bad
    <2>2. QED
      BY <1>1, <2>1, SmallestSubset
  <1> DEFINE sum == [s \in (SUBSET T) \ {T} |-> CHOOSE f \in [SUBSET s -> Int] : IsSum(f, g, s)]
  <1>3. ASSUME NEW s \in (SUBSET T) \ {T}
        PROVE  sum[s] \in [SUBSET s -> Int] /\ IsSum(sum[s], g, s)
    <2>1. Has(s)
      BY <1>2, <1>3
    <2>2. sum[s] = CHOOSE f \in [SUBSET s -> Int] : IsSum(f, g, s)
      OBVIOUS
    <2> HIDE DEF sum
    <2>3. QED
      BY <2>1, <2>2, Zenon
  <1> HIDE DEF sum
  <1> DEFINE last == IF T = {} THEN 0 ELSE g[Pick(T)] + sum[T \ {Pick(T)}][T \ {Pick(T)}]
             f == [s \in SUBSET T |-> IF s = T THEN last ELSE sum[s][s]]
  <1>4. T \in SUBSET S /\ IsFiniteSet(T)
    BY FS_Subset
  <1>5. ASSUME NEW s \in SUBSET T, s # {}
        PROVE  /\ Pick(s) \in s /\ g[Pick(s)] \in Int
               /\ s \ {Pick(s)} \in (SUBSET T) \ {T} /\ s \ {Pick(s)} \in SUBSET s
    BY <1>4, <1>5, Picked
  <1>6. ASSUME NEW s \in (SUBSET T) \ {T}
        PROVE  sum[s][s] \in Int
    BY <1>3, <1>6
  <1>7. last \in Int
    <2>1. CASE T = {}
      BY <2>1
    <2>2. CASE T # {}
      <3>1. T \in SUBSET T
        OBVIOUS
      <3>2. g[Pick(T)] \in Int /\ T \ {Pick(T)} \in (SUBSET T) \ {T}
        BY <1>5, <2>2, <3>1
      <3>3. sum[T \ {Pick(T)}][T \ {Pick(T)}] \in Int
        BY <1>6, <3>2
      <3>4. QED
        BY <2>2, <3>2, <3>3
    <2>3. QED
      BY <2>1, <2>2
  <1>8. f \in [SUBSET T -> Int]
    <2> HIDE DEF last
    <2>1. QED
      BY <1>6, <1>7
  <1>9. ASSUME NEW s \in SUBSET T
        PROVE  f[s] = IF s = {} THEN 0 ELSE g[Pick(s)] + f[s \ {Pick(s)}]
    <2> DEFINE r == s \ {Pick(s)}
    <2>1. s # {} => f[r] = sum[r][r]
      BY <1>5
    <2>2. CASE s = T
      <3>1. f[s] = last
        BY <2>2
      <3>2. QED
        BY <2>1, <2>2, <3>1
    <2>3. CASE s # T
      <3>1. f[s] = sum[s][s] /\ s \in (SUBSET T) \ {T}
        BY <2>3
      <3>2. sum[s][s] = IF s = {} THEN 0 ELSE g[Pick(s)] + sum[s][r]
        <4>1. IsSum(sum[s], g, s) /\ s \in SUBSET s
          BY <1>3, <3>1
        <4>2. QED
          BY <4>1, Zenon DEF IsSum
      <3>3. s # {} => sum[s][r] = sum[r][r]
        <4>1. SUFFICES ASSUME s # {}
                       PROVE  sum[s][r] = sum[r][r]
          OBVIOUS
        <4>2. r \in (SUBSET T) \ {T} /\ r \subseteq s /\ r \subseteq r
          BY <1>5, <4>1
        <4>3. IsSum(sum[s], g, s) /\ IsSum(sum[r], g, r)
          BY <1>3, <3>1, <4>2
        <4>4. IsFiniteSet(s)
          BY <1>4, FS_Subset
        <4> HIDE DEF r
        <4>5. QED
          BY <4>2, <4>3, <4>4, SumsAgree
      <3>4. QED
        BY <2>1, <3>1, <3>2, <3>3
    <2>4. QED
      BY <2>2, <2>3
  <1>10. IsSum(f, g, T)
    <2>1. f = [s \in SUBSET T |-> f[s]]
      BY <1>8
    <2> HIDE DEF f
    <2>2. QED
      BY <1>9, <2>1 DEF IsSum
  <1>11. Has(T)
    <2> HIDE DEF f
    <2>1. QED
      BY <1>8, <1>10
  <1>12. QED
    BY <1>11
-----------------------------------------------------------------------------
(* The arithmetic of one row. *)

Totals(r) == r.userTotal \in Int /\ r.officialTotal \in Int /\ r.optimalTotal \in Int

LEMMA ClampRange ==
    ASSUME NEW v \in Int
    PROVE  Clamp01(v) \in 0 .. Precision
  BY StandingsAssumption DEF Clamp01

LEMMA RatioIsInt ==
    ASSUME NEW a \in Int, NEW b \in Int, b # 0
    PROVE  Ratio(a, b) \in Int
  <1>1. Precision * a \in Int /\ Precision * (-a) \in Int
    BY StandingsAssumption
  <1>2. \A x, y \in Int : y > 0 => x \div y \in Int
    OBVIOUS
  <1>3. CASE b > 0
    BY <1>1, <1>2, <1>3 DEF Ratio
  <1>4. CASE ~(b > 0)
    <2>1. -b \in Int /\ -b > 0
      BY <1>4
    <2>2. QED
      BY <1>1, <1>2, <1>4, <2>1 DEF Ratio
  <1>5. QED
    BY <1>3, <1>4

(* A clamped ratio lies between 0 and 1, NULL and a negative optimum       *)
(* included.                                                               *)
LEMMA SqlClampRange ==
    ASSUME NEW a \in Int, NEW b \in Int
    PROVE  SqlClamp(SqlRatio(a, b)) \in 0 .. Precision
  <1>1. CASE b = 0
    BY <1>1, StandingsAssumption DEF SqlClamp, SqlRatio
  <1>2. CASE b # 0
    <2>1. SqlRatio(a, b) \in Int
      BY <1>2, RatioIsInt DEF SqlRatio
    <2>2. SqlRatio(a, b) # Null
      BY <2>1, StandingsAssumption
    <2>3. QED
      BY <2>1, <2>2, ClampRange DEF SqlClamp
  <1>3. QED
    BY <1>1, <1>2

LEMMA EfficiencyType ==
    ASSUME NEW r, Totals(r)
    PROVE  /\ Efficiency(r) # Null => Efficiency(r) \in Int
           /\ SqlClamp(Efficiency(r)) \in 0 .. Precision
  BY RatioIsInt, SqlClampRange DEF Efficiency, SqlRatio, Totals

LEMMA EdgeType ==
    ASSUME NEW r, Totals(r)
    PROVE  Edge(r) \in -Precision .. Precision /\ Edge(r) \in Int /\ Edge(r) # Null
  <1>1. /\ SqlClamp(Efficiency(r)) \in 0 .. Precision
        /\ SqlClamp(SqlRatio(r.officialTotal, r.optimalTotal)) \in 0 .. Precision
    BY EfficiencyType, SqlClampRange DEF Totals
  <1>2. QED
    BY <1>1, StandingsAssumption DEF Edge

(* The query's edge is GradeWeek's for every week with a positive optimum. *)
LEMMA EdgeOfScoredWeek ==
    ASSUME NEW r, Totals(r), r.optimalTotal > 0
    PROVE  GradeWeek(r.userTotal, r.officialTotal, r.optimalTotal).edge = Edge(r)
  <1>1. r.optimalTotal # 0
    BY DEF Totals
  <1>2. ASSUME NEW t \in Int
        PROVE  SqlClamp(SqlRatio(t, r.optimalTotal)) = Clamp01(Ratio(t, r.optimalTotal))
    <2>1. SqlRatio(t, r.optimalTotal) = Ratio(t, r.optimalTotal)
      BY <1>1 DEF SqlRatio
    <2>2. Ratio(t, r.optimalTotal) # Null
      BY <1>1, RatioIsInt, StandingsAssumption DEF Totals
    <2>3. QED
      BY <2>1, <2>2 DEF SqlClamp
  <1>3. GradeWeek(r.userTotal, r.officialTotal, r.optimalTotal).edge =
          Clamp01(Ratio(r.userTotal, r.optimalTotal)) - Clamp01(Ratio(r.officialTotal, r.optimalTotal))
    BY DEF GradeWeek
  <1>4. QED
    BY <1>2, <1>3 DEF Edge, Efficiency, Totals

-----------------------------------------------------------------------------
(* The aggregates of a finite set of rows. *)

LEMMA EfficiencySum ==
    ASSUME NEW rows, IsFiniteSet(rows), \A r \in rows : Efficiency(r) \in Int
    PROVE  MapThenSumSet(Efficiency, rows) \in Int
  <1> DEFINE g == [r \in rows |-> Efficiency(r)]
             sum == CHOOSE f : f = [s \in SUBSET rows |-> IF s = {} THEN 0
                                       ELSE Efficiency(Pick(s)) + f[s \ {Pick(s)}]]
  <1>1. MapThenSumSet(Efficiency, rows) = sum[rows]
    BY Zenon DEF MapThenSumSet, MapThenFoldSet, Pick
  <1>2. PICK h \in [SUBSET rows -> Int] : IsSum(h, g, rows)
    BY SumExists
  <1>3. \A s \in SUBSET rows : s # {} => g[Pick(s)] = Efficiency(Pick(s))
    BY Picked
  <1>4. ASSUME NEW f
        PROVE  IsSum(f, g, rows) <=> f = [s \in SUBSET rows |-> IF s = {} THEN 0
                                            ELSE Efficiency(Pick(s)) + f[s \ {Pick(s)}]]
    <2>1. \A s \in SUBSET rows : (IF s = {} THEN 0 ELSE g[Pick(s)] + f[s \ {Pick(s)}])
                                = (IF s = {} THEN 0 ELSE Efficiency(Pick(s)) + f[s \ {Pick(s)}])
      BY <1>3
    <2> HIDE DEF g
    <2>2. QED
      BY <2>1, Zenon DEF IsSum
  <1>5. h = [s \in SUBSET rows |-> IF s = {} THEN 0 ELSE Efficiency(Pick(s)) + h[s \ {Pick(s)}]]
    BY <1>2, <1>4
  <1>6. sum = [s \in SUBSET rows |-> IF s = {} THEN 0 ELSE Efficiency(Pick(s)) + sum[s \ {Pick(s)}]]
    BY <1>5, Zenon
  <1> HIDE DEF sum, g
  <1>7. sum[rows] = h[rows]
    <2>1. IsSum(sum, g, rows)
      BY <1>4, <1>6
    <2>2. QED
      BY <1>2, <2>1, SumsAgree
  <1>8. QED
    BY <1>1, <1>2, <1>7

LEMMA EdgeSum ==
    ASSUME NEW rows, IsFiniteSet(rows), \A r \in rows : Edge(r) \in Int,
           NEW h, IsSum(h, [r \in rows |-> Edge(r)], rows)
    PROVE  MapThenSumSet(Edge, rows) = h[rows]
  <1> DEFINE g == [r \in rows |-> Edge(r)]
             sum == CHOOSE f : f = [s \in SUBSET rows |-> IF s = {} THEN 0
                                       ELSE Edge(Pick(s)) + f[s \ {Pick(s)}]]
  <1>1. MapThenSumSet(Edge, rows) = sum[rows]
    BY Zenon DEF MapThenSumSet, MapThenFoldSet, Pick
  <1>3. \A s \in SUBSET rows : s # {} => g[Pick(s)] = Edge(Pick(s))
    BY Picked
  <1>4. ASSUME NEW f
        PROVE  IsSum(f, g, rows) <=> f = [s \in SUBSET rows |-> IF s = {} THEN 0
                                            ELSE Edge(Pick(s)) + f[s \ {Pick(s)}]]
    <2>1. \A s \in SUBSET rows : (IF s = {} THEN 0 ELSE g[Pick(s)] + f[s \ {Pick(s)}])
                                = (IF s = {} THEN 0 ELSE Edge(Pick(s)) + f[s \ {Pick(s)}])
      BY <1>3
    <2> HIDE DEF g
    <2>2. QED
      BY <2>1, Zenon DEF IsSum
  <1>5. h = [s \in SUBSET rows |-> IF s = {} THEN 0 ELSE Edge(Pick(s)) + h[s \ {Pick(s)}]]
    BY <1>4
  <1>6. sum = [s \in SUBSET rows |-> IF s = {} THEN 0 ELSE Edge(Pick(s)) + sum[s \ {Pick(s)}]]
    BY <1>5, Zenon
  <1>7. IsSum(h, g, rows)
    OBVIOUS
  <1> HIDE DEF sum, g
  <1>8. sum[rows] = h[rows]
    <2>1. IsSum(sum, g, rows)
      BY <1>4, <1>6
    <2>2. QED
      BY <1>7, <2>1, SumsAgree
  <1>9. QED
    BY <1>1, <1>8

LEMMA MeanEfficiencyIsInt ==
    ASSUME NEW rows, IsFiniteSet(rows), \A r \in rows : Totals(r)
    PROVE  Avg(rows, Efficiency) \in Int
  <1> DEFINE counted == {r \in rows : Efficiency(r) # Null}
  <1>1. Avg(rows, Efficiency) = IF counted = {} THEN 0
                                ELSE MapThenSumSet(Efficiency, counted) \div Cardinality(counted)
    BY DEF Avg
  <1>2. CASE counted = {}
    BY <1>1, <1>2
  <1>3. CASE counted # {}
    <2>1. IsFiniteSet(counted)
      BY FS_Subset
    <2>2. Cardinality(counted) \in Nat /\ Cardinality(counted) # 0
      BY <1>3, <2>1, FS_CardinalityType, FS_EmptySet
    <2>3. \A r \in counted : Efficiency(r) \in Int
      BY EfficiencyType
    <2> HIDE DEF counted
    <2>4. MapThenSumSet(Efficiency, counted) \in Int
      BY <2>1, <2>3, EfficiencySum
    <2>5. \A x, y \in Int : y > 0 => x \div y \in Int
      OBVIOUS
    <2>6. QED
      BY <1>1, <1>3, <2>2, <2>4, <2>5
  <1>4. QED
    BY <1>2, <1>3
-----------------------------------------------------------------------------
(* The season's board is listed by rank. *)

BoardRows(board) == {BoardRow(board, r.user) : r \in board}

BoardBefore(S) == [x \in S |-> {y \in S : BoardOrder(y, x)}]

LEMMA BoardRowType ==
    ASSUME NEW board, IsFiniteSet(board), \A r \in board : Totals(r), NEW u
    PROVE  /\ BoardRow(board, u).user = u
           /\ BoardRow(board, u).meanEfficiency \in Int
           /\ BoardRow(board, u).weeksPlayed \in Nat
  <1> DEFINE mine == {r \in board : r.user = u}
  <1>1. IsFiniteSet(mine) /\ \A r \in mine : Totals(r)
    BY FS_Subset
  <1>2. IsFiniteSet({r \in mine : r.optimalTotal > 0})
    BY <1>1, FS_Subset
  <1>3. /\ BoardRow(board, u).user = u
        /\ BoardRow(board, u).meanEfficiency = Avg(mine, Efficiency)
        /\ BoardRow(board, u).weeksPlayed = Cardinality({r \in mine : r.optimalTotal > 0})
    BY DEF BoardRow, WeeksPlayed
  <1> HIDE DEF mine
  <1>4. QED
    BY <1>1, <1>2, <1>3, MeanEfficiencyIsInt, FS_CardinalityType

LEMMA BoardRowsAreFinite ==
    ASSUME NEW board, IsFiniteSet(board)
    PROVE  IsFiniteSet(BoardRows(board))
  <1> DEFINE f == [r \in board |-> BoardRow(board, r.user)]
  <1>1. f \in [board -> BoardRows(board)]
    BY DEF BoardRows
  <1>2. \A x \in BoardRows(board) : \E r \in board : f[r] = x
    BY DEF BoardRows
  <1>3. f \in Surjection(board, BoardRows(board))
    <2> HIDE DEF f
    <2>1. QED
      BY <1>1, <1>2 DEF Surjection
  <1>4. QED
    BY <1>3, FS_Surjection

LEMMA BoardIsOrdered ==
    ASSUME NEW board, IsFiniteSet(board), \A r \in board : Totals(r) /\ r.user \in Nat
    PROVE  IsOrder(BoardRows(board), BoardBefore(BoardRows(board)))
  <1> DEFINE S == BoardRows(board)
  <1>1. ASSUME NEW x \in S
        PROVE  /\ x.user \in Nat /\ x.meanEfficiency \in Int /\ x.weeksPlayed \in Nat
               /\ x = BoardRow(board, x.user)
    <2>1. PICK r \in board : x = BoardRow(board, r.user)
      BY DEF BoardRows
    <2>2. QED
      BY <2>1, BoardRowType
  <1> HIDE DEF S
  <1>2. \A x \in S : BoardBefore(S)[x] = {y \in S : BoardOrder(y, x)}
    BY DEF BoardBefore
  <1>3. \A x \in S : ~BoardOrder(x, x)
    BY <1>1 DEF BoardOrder
  <1>4. ASSUME NEW x \in S, NEW y \in S
        PROVE  x = y \/ BoardOrder(x, y) \/ BoardOrder(y, x)
    <2>1. x.user = y.user => x = y
      BY <1>1
    <2>2. QED
      BY <1>1, <2>1 DEF BoardOrder
  <1>5. ASSUME NEW x \in S, NEW y \in S, NEW z \in S, BoardOrder(z, y), BoardOrder(y, x)
        PROVE  BoardOrder(z, x)
    <2>1. /\ x.user \in Nat /\ x.meanEfficiency \in Int /\ x.weeksPlayed \in Nat
          /\ y.user \in Nat /\ y.meanEfficiency \in Int /\ y.weeksPlayed \in Nat
          /\ z.user \in Nat /\ z.meanEfficiency \in Int /\ z.weeksPlayed \in Nat
      BY <1>1
    <2>2. QED
      BY <1>5, <2>1 DEF BoardOrder
  <1>6. BoardBefore(S) \in [S -> SUBSET S]
    BY DEF BoardBefore
  <1>7. ASSUME NEW x \in S, NEW y \in S, y \in BoardBefore(S)[x]
        PROVE  BoardBefore(S)[y] \subseteq BoardBefore(S)[x]
    <2>1. BoardOrder(y, x)
      BY <1>2, <1>7
    <2>2. \A z \in S : BoardOrder(z, y) => BoardOrder(z, x)
      BY <1>5, <2>1
    <2>3. QED
      BY <1>2, <2>2
  <1>8. /\ \A x \in S : x \notin BoardBefore(S)[x]
        /\ \A x, y \in S : x = y \/ x \in BoardBefore(S)[y] \/ y \in BoardBefore(S)[x]
    BY <1>2, <1>3, <1>4
  <1>9. IsOrder(S, BoardBefore(S))
    BY <1>6, <1>7, <1>8 DEF IsOrder
  <1>10. QED
    BY <1>9 DEF S

LEMMA BoardIsListed ==
    ASSUME NEW S, IsFiniteSet(S), IsOrder(S, BoardBefore(S))
    PROVE  ListsByRank(InOrder(S, BoardOrder), S, BoardBefore(S))
  <1> DEFINE s == InOrder(S, BoardOrder)
  <1>1. s = [k \in 1 .. Cardinality(S) |->
                CHOOSE x \in S : Cardinality({y \in S : BoardOrder(y, x)}) = k - 1]
    BY Zenon DEF InOrder
  <1> HIDE DEF s
  <1>2. \A x \in S : BoardBefore(S)[x] = {y \in S : BoardOrder(y, x)}
    BY DEF BoardBefore
  <1>3. ASSUME NEW k \in 1 .. Cardinality(S)
        PROVE  s[k] \in S /\ Cardinality({y \in S : BoardOrder(y, s[k])}) = k - 1
    <2>1. \E x \in S : Cardinality(BoardBefore(S)[x]) = k - 1
      BY EveryRankIsTaken
    <2>2. \E x \in S : Cardinality({y \in S : BoardOrder(y, x)}) = k - 1
      BY <1>2, <2>1
    <2>3. s[k] = CHOOSE x \in S : Cardinality({y \in S : BoardOrder(y, x)}) = k - 1
      BY <1>1
    <2>4. QED
      BY <2>2, <2>3
  <1>4. s \in [1 .. Cardinality(S) -> S]
    <2>1. \A k \in 1 .. Cardinality(S) :
             (CHOOSE x \in S : Cardinality({y \in S : BoardOrder(y, x)}) = k - 1) \in S
      BY <1>1, <1>3
    <2>2. QED
      BY <1>1, <2>1
  <1>5. ListsByRank(s, S, BoardBefore(S))
    BY <1>2, <1>3, <1>4 DEF ListsByRank
  <1>6. QED
    BY <1>5 DEF s

LEMMA LeaderboardIsListed ==
    ASSUME NEW rows, IsFiniteSet(rows), \A r \in rows : Totals(r), NEW season, NEW league
    PROVE  LET board == OnBoard(rows, season, league)
           IN  /\ IsFiniteSet(board)
               /\ IsFiniteSet(BoardRows(board))
               /\ IsOrder(BoardRows(board), BoardBefore(BoardRows(board)))
               /\ ListsByRank(Leaderboard(rows, season, league), BoardRows(board), BoardBefore(BoardRows(board)))
  <1> DEFINE board == OnBoard(rows, season, league)
  <1>1. board \in SUBSET rows /\ \A r \in board : r.user \in Nat
    BY StandingsAssumption DEF OnBoard
  <1>2. IsFiniteSet(board) /\ \A r \in board : Totals(r) /\ r.user \in Nat
    BY <1>1, FS_Subset
  <1>3. Leaderboard(rows, season, league) = InOrder(BoardRows(board), BoardOrder)
    BY Zenon DEF Leaderboard, BoardRows
  <1> HIDE DEF board
  <1>4. IsFiniteSet(BoardRows(board)) /\ IsOrder(BoardRows(board), BoardBefore(BoardRows(board)))
    BY <1>2, BoardRowsAreFinite, BoardIsOrdered
  <1>5. ListsByRank(InOrder(BoardRows(board), BoardOrder), BoardRows(board), BoardBefore(BoardRows(board)))
    BY <1>4, BoardIsListed
  <1>6. QED
    BY <1>2, <1>3, <1>4, <1>5 DEF board
-----------------------------------------------------------------------------
(* The results of a roster's week are listed by rank, those a search does  *)
(* not match left out.                                                     *)

Named(setters) == {r \in setters : r.user \in Registered}

Matching(setters, q) == {r \in Named(setters) : r.user \in q}

SetterBefore(S) == [x \in S |-> {y \in S : SetterOrder(y, x)}]

(* The rows of one roster's week: a row for each user. *)
Rows(setters) ==
    /\ IsFiniteSet(setters)
    /\ \A r \in setters : Totals(r)
    /\ \A r, s \in setters : r.user = s.user => r = s

LEMMA SettersAreOrdered ==
    ASSUME NEW setters, Rows(setters)
    PROVE  /\ IsFiniteSet(Named(setters))
           /\ IsOrder(Named(setters), SetterBefore(Named(setters)))
  <1> DEFINE S == Named(setters)
             value(x) == SqlClamp(Efficiency(x))
  <1>1. S \in SUBSET setters
    BY DEF Named
  <1>2. IsFiniteSet(S)
    BY <1>1, FS_Subset DEF Rows
  <1>3. ASSUME NEW x \in S
        PROVE  x.user \in Nat /\ value(x) \in Int
    <2>1. x.user \in Nat
      BY StandingsAssumption DEF Named
    <2>2. Totals(x)
      BY <1>1 DEF Rows
    <2>3. value(x) \in 0 .. Precision
      BY <2>2, EfficiencyType
    <2>4. QED
      BY <2>1, <2>3, StandingsAssumption
  <1>4. \A x, y : SetterOrder(x, y) <=> value(x) > value(y) \/ (value(x) = value(y) /\ x.user < y.user)
    BY DEF SetterOrder
  <1>5. \A x, y \in S : x.user = y.user => x = y
    BY <1>1 DEF Rows
  <1> HIDE DEF S, value
  <1>6. \A x \in S : SetterBefore(S)[x] = {y \in S : SetterOrder(y, x)}
    BY DEF SetterBefore
  <1>7. \A x \in S : ~SetterOrder(x, x)
    BY <1>3, <1>4
  <1>8. \A x, y \in S : x = y \/ SetterOrder(x, y) \/ SetterOrder(y, x)
    BY <1>3, <1>4, <1>5
  <1>9. ASSUME NEW x \in S, NEW y \in S, NEW z \in S, SetterOrder(z, y), SetterOrder(y, x)
        PROVE  SetterOrder(z, x)
    <2>1. /\ x.user \in Nat /\ value(x) \in Int
          /\ y.user \in Nat /\ value(y) \in Int
          /\ z.user \in Nat /\ value(z) \in Int
      BY <1>3
    <2>2. QED
      BY <1>4, <1>9, <2>1
  <1>10. SetterBefore(S) \in [S -> SUBSET S]
    BY DEF SetterBefore
  <1>11. ASSUME NEW x \in S, NEW y \in S, y \in SetterBefore(S)[x]
         PROVE  SetterBefore(S)[y] \subseteq SetterBefore(S)[x]
    <2>1. SetterOrder(y, x)
      BY <1>6, <1>11
    <2>2. \A z \in S : SetterOrder(z, y) => SetterOrder(z, x)
      BY <1>9, <2>1
    <2>3. QED
      BY <1>6, <2>2
  <1>12. /\ \A x \in S : x \notin SetterBefore(S)[x]
         /\ \A x, y \in S : x = y \/ x \in SetterBefore(S)[y] \/ y \in SetterBefore(S)[x]
    BY <1>6, <1>7, <1>8
  <1>13. IsOrder(S, SetterBefore(S))
    BY <1>10, <1>11, <1>12 DEF IsOrder
  <1>14. QED
    BY <1>2, <1>13 DEF S

LEMMA SettersListed ==
    ASSUME NEW S, IsFiniteSet(S), IsOrder(S, SetterBefore(S))
    PROVE  ListsByRank(InOrder(S, SetterOrder), S, SetterBefore(S))
  <1> DEFINE s == InOrder(S, SetterOrder)
  <1>1. s = [k \in 1 .. Cardinality(S) |->
                CHOOSE x \in S : Cardinality({y \in S : SetterOrder(y, x)}) = k - 1]
    BY Zenon DEF InOrder
  <1> HIDE DEF s
  <1>2. \A x \in S : SetterBefore(S)[x] = {y \in S : SetterOrder(y, x)}
    BY DEF SetterBefore
  <1>3. ASSUME NEW k \in 1 .. Cardinality(S)
        PROVE  s[k] \in S /\ Cardinality({y \in S : SetterOrder(y, s[k])}) = k - 1
    <2>1. \E x \in S : Cardinality(SetterBefore(S)[x]) = k - 1
      BY EveryRankIsTaken
    <2>2. \E x \in S : Cardinality({y \in S : SetterOrder(y, x)}) = k - 1
      BY <1>2, <2>1
    <2>3. s[k] = CHOOSE x \in S : Cardinality({y \in S : SetterOrder(y, x)}) = k - 1
      BY <1>1
    <2>4. QED
      BY <2>2, <2>3
  <1>4. s \in [1 .. Cardinality(S) -> S]
    <2>1. \A k \in 1 .. Cardinality(S) :
             (CHOOSE x \in S : Cardinality({y \in S : SetterOrder(y, x)}) = k - 1) \in S
      BY <1>1, <1>3
    <2>2. QED
      BY <1>1, <2>1
  <1>5. ListsByRank(s, S, SetterBefore(S))
    BY <1>2, <1>3, <1>4 DEF ListsByRank
  <1>6. QED
    BY <1>5 DEF s

(* What Filtered returns: the entries at the kept indices, in their order. *)
LEMMA KeptEntries ==
    ASSUME NEW s, NEW K \in SUBSET Nat, IsFiniteSet(K)
    PROVE  LET kept == InOrder(K, LAMBDA i, j : i < j)
           IN  /\ ListsByRank(kept, K, Lower(K))
               /\ [i \in DOMAIN kept |-> s[kept[i]]] = [i \in 1 .. Cardinality(K) |-> s[kept[i]]]
  <1> DEFINE kept == InOrder(K, LAMBDA i, j : i < j)
  <1>1. ListsByRank(kept, K, Lower(K))
    BY KeptIndices
  <1> HIDE DEF kept
  <1>2. DOMAIN kept = 1 .. Cardinality(K)
    BY <1>1 DEF ListsByRank
  <1>3. [i \in DOMAIN kept |-> s[kept[i]]] = [i \in 1 .. Cardinality(K) |-> s[kept[i]]]
    BY <1>2
  <1>4. QED
    BY <1>1, <1>3 DEF kept

(* Who did better than a setter, whom a search matches or not. *)
Better(setters, x) == {y \in Named(setters) : SetterOrder(y, x)}

SetterEntry(o, k) == [user |-> o[k].user, edge |-> Edge(o[k]), rank |-> k]

(* o is the ranking, kept the ranks of the matches. *)
MatchesOf(setters, q, o, kept) ==
    LET S == Named(setters)
        K == {i \in 1 .. Cardinality(S) : o[i].user \in q}
    IN  /\ ListsByRank(o, S, SetterBefore(S))
        /\ IsFiniteSet(K)
        /\ ListsByRank(kept, K, Lower(K))
        /\ MatchingSetters(setters, q) = [i \in 1 .. Cardinality(K) |-> SetterEntry(o, kept[i])]

LEMMA MatchesAreListed ==
    ASSUME NEW setters, Rows(setters), NEW q
    PROVE  \E o, kept : MatchesOf(setters, q, o, kept)
  <1> DEFINE S == Named(setters)
             n == Cardinality(S)
             o == InOrder(S, SetterOrder)
             ranked == [i \in DOMAIN o |-> SetterEntry(o, i)]
             K == {i \in 1 .. n : o[i].user \in q}
             kept == InOrder(K, LAMBDA i, j : i < j)
  <1>1. IsFiniteSet(S) /\ IsOrder(S, SetterBefore(S))
    BY SettersAreOrdered
  <1>2. n \in Nat
    BY <1>1, FS_CardinalityType
  <1>3. ListsByRank(o, S, SetterBefore(S))
    BY <1>1, SettersListed
  <1>4. DOMAIN o = 1 .. n
    <2> HIDE DEF o
    <2>1. QED
      BY <1>3 DEF ListsByRank
  <1>5. RankSetters(setters) = ranked
    BY Zenon DEF RankSetters, Named, SetterEntry
  <1>6. DOMAIN ranked = 1 .. n /\ \A i \in 1 .. n : ranked[i] = SetterEntry(o, i) /\ ranked[i].user = o[i].user
    <2> HIDE DEF o
    <2>1. QED
      BY <1>4 DEF SetterEntry
  <1>7. K = {i \in DOMAIN ranked : ranked[i].user \in q}
    <2> HIDE DEF o, ranked
    <2>1. QED
      BY <1>6
  <1>8. K \in SUBSET Nat /\ IsFiniteSet(K)
    <2> HIDE DEF o
    <2>1. K \in SUBSET (1 .. n) /\ IsFiniteSet(1 .. n)
      BY <1>2, FS_Interval
    <2> HIDE DEF K, n
    <2>2. IsFiniteSet(K)
      BY <2>1, FS_Subset
    <2>3. 1 .. n \in SUBSET Nat
      BY <1>2
    <2>4. QED
      BY <2>1, <2>2, <2>3
  <1>9. MatchingSetters(setters, q) =
          [k \in DOMAIN InOrder({m \in DOMAIN ranked : ranked[m].user \in q}, LAMBDA i, j : i < j) |->
              ranked[InOrder({m \in DOMAIN ranked : ranked[m].user \in q}, LAMBDA i, j : i < j)[k]]]
    <2> HIDE DEF ranked
    <2>1. QED
      BY <1>5, Zenon DEF MatchingSetters, Filtered
  <1>10. MatchingSetters(setters, q) = [i \in DOMAIN kept |-> ranked[kept[i]]]
    <2> HIDE DEF ranked, K
    <2>1. QED
      BY <1>7, <1>9, Zenon
  <1>11. /\ ListsByRank(kept, K, Lower(K))
         /\ MatchingSetters(setters, q) = [i \in 1 .. Cardinality(K) |-> ranked[kept[i]]]
    <2> HIDE DEF ranked, K
    <2>1. QED
      BY <1>8, <1>10, KeptEntries
  <1> HIDE DEF kept, ranked
  <1>12. \A i \in 1 .. Cardinality(K) : ranked[kept[i]] = SetterEntry(o, kept[i])
    <2> HIDE DEF o
    <2>1. \A i \in 1 .. Cardinality(K) : kept[i] \in 1 .. n
      BY <1>11 DEF ListsByRank
    <2>2. QED
      BY <1>6, <2>1
  <1>13. MatchingSetters(setters, q) = [i \in 1 .. Cardinality(K) |-> SetterEntry(o, kept[i])]
    <2> HIDE DEF K, o
    <2>1. QED
      BY <1>11, <1>12, Zenon
  <1>14. MatchesOf(setters, q, o, kept)
    <2> HIDE DEF o
    <2>1. QED
      BY <1>3, <1>8, <1>11, <1>13, Zenon DEF MatchesOf
  <1>15. QED
    BY <1>14, Zenon
(* A listing repeats nobody, so that as many are listed as there are ranks.*)
LEMMA ListedOnce ==
    ASSUME NEW S, IsFiniteSet(S), NEW B, NEW o, ListsByRank(o, S, B),
           NEW J \in SUBSET (1 .. Cardinality(S))
    PROVE  Cardinality({o[j] : j \in J}) = Cardinality(J)
  <1> DEFINE T == {o[j] : j \in J}
             f == [j \in J |-> o[j]]
  <1>1. Cardinality(S) \in Nat
    BY FS_CardinalityType
  <1>2. IsFiniteSet(J)
    <2>1. IsFiniteSet(1 .. Cardinality(S))
      BY <1>1, FS_Interval
    <2>2. QED
      BY <2>1, FS_Subset
  <1>3. ASSUME NEW i \in J, NEW j \in J, o[i] = o[j]
        PROVE  i = j
    <2>1. i \in 1 .. Cardinality(S) /\ j \in 1 .. Cardinality(S)
      OBVIOUS
    <2>2. Cardinality(B[o[i]]) = i - 1 /\ Cardinality(B[o[j]]) = j - 1
      BY <2>1 DEF ListsByRank
    <2>3. i - 1 = j - 1 /\ i \in Int /\ j \in Int
      BY <1>1, <1>3, <2>1, <2>2
    <2>4. QED
      BY <2>3
  <1>4. f \in [J -> T] /\ \A j \in J : f[j] = o[j]
    OBVIOUS
  <1>5. \A t \in T : \E j \in J : f[j] = t
    OBVIOUS
  <1>6. f \in Bijection(J, T)
    <2> HIDE DEF f, T
    <2>1. f \in Injection(J, T)
      BY <1>3, <1>4 DEF Injection, IsInjective
    <2>2. f \in Surjection(J, T)
      BY <1>4, <1>5 DEF Surjection
    <2>3. QED
      BY <2>1, <2>2 DEF Bijection
  <1>7. ExistsBijection(J, T)
    BY <1>6 DEF ExistsBijection
  <1>8. QED
    BY <1>2, <1>7, FS_Bijection

(* What a search returns has the rank it has without the search. *)
LEMMA MatchesKeepTheirRanks ==
    ASSUME NEW setters, Rows(setters), NEW q, NEW i \in DOMAIN MatchingSetters(setters, q)
    PROVE  \E x \in Matching(setters, q) :
              /\ MatchingSetters(setters, q)[i].user = x.user
              /\ MatchingSetters(setters, q)[i].rank =
                    1 + Cardinality(Better(setters, x))
  <1> DEFINE S == Named(setters)
  <1>1. PICK o, kept : MatchesOf(setters, q, o, kept)
    BY MatchesAreListed
  <1> DEFINE K == {k \in 1 .. Cardinality(S) : o[k].user \in q}
  <1>2. /\ ListsByRank(o, S, SetterBefore(S))
        /\ ListsByRank(kept, K, Lower(K))
        /\ MatchingSetters(setters, q) = [k \in 1 .. Cardinality(K) |-> SetterEntry(o, kept[k])]
    BY <1>1, Zenon DEF MatchesOf
  <1>3. /\ i \in 1 .. Cardinality(K)
        /\ MatchingSetters(setters, q)[i] = SetterEntry(o, kept[i])
    <2> HIDE DEF K
    <2>1. QED
      BY <1>2
  <1>4. kept[i] \in K
    BY <1>2, <1>3 DEF ListsByRank
  <1> DEFINE k == kept[i]
             x == o[k]
  <1>5. k \in 1 .. Cardinality(S) /\ x.user \in q
    BY <1>4
  <1>6. x \in S /\ Cardinality(SetterBefore(S)[x]) = k - 1
    BY <1>2, <1>5 DEF ListsByRank
  <1>7. SetterBefore(S)[x] = {y \in S : SetterOrder(y, x)}
    BY <1>6 DEF SetterBefore
  <1>8. x \in Matching(setters, q)
    BY <1>5, <1>6 DEF Matching
  <1>9. Cardinality(S) \in Nat
    BY SettersAreOrdered, FS_CardinalityType
  <1>10. k = 1 + Cardinality(Better(setters, x))
    <2>1. Better(setters, x) = {y \in S : SetterOrder(y, x)}
      BY DEF Better
    <2> HIDE DEF k, x, S
    <2>2. QED
      BY <1>5, <1>6, <1>7, <1>9, <2>1
  <1>11. /\ MatchingSetters(setters, q)[i].user = x.user
         /\ MatchingSetters(setters, q)[i].rank = k
    BY <1>3 DEF SetterEntry
  <1>12. QED
    BY <1>8, <1>10, <1>11

(* Everyone who matches is listed, after the matches who did better. *)
LEMMA MatchesAreInOrder ==
    ASSUME NEW setters, Rows(setters), NEW q
    PROVE  /\ DOMAIN MatchingSetters(setters, q) = 1 .. Cardinality(Matching(setters, q))
           /\ \A x \in Matching(setters, q) :
                 LET i == 1 + Cardinality({y \in Matching(setters, q) : SetterOrder(y, x)})
                 IN  /\ i \in 1 .. Cardinality(Matching(setters, q))
                     /\ MatchingSetters(setters, q)[i].user = x.user
  <1> DEFINE S == Named(setters)
             B == SetterBefore(S)
             M == Matching(setters, q)
  <1>1. PICK o, kept : MatchesOf(setters, q, o, kept)
    BY MatchesAreListed
  <1> DEFINE K == {k \in 1 .. Cardinality(S) : o[k].user \in q}
  <1>2. /\ ListsByRank(o, S, B)
        /\ IsFiniteSet(K)
        /\ ListsByRank(kept, K, Lower(K))
        /\ MatchingSetters(setters, q) = [k \in 1 .. Cardinality(K) |-> SetterEntry(o, kept[k])]
    BY <1>1, Zenon DEF MatchesOf
  <1>3. IsFiniteSet(S) /\ IsOrder(S, B) /\ Cardinality(S) \in Nat
    BY SettersAreOrdered, FS_CardinalityType
  <1>4. ASSUME NEW x \in M
        PROVE  /\ x \in S
               /\ Cardinality(B[x]) + 1 \in K
               /\ o[Cardinality(B[x]) + 1] = x
    <2>1. x \in S /\ x.user \in q
      BY DEF Matching
    <2>2. Cardinality(B[x]) + 1 \in 1 .. Cardinality(S) /\ o[Cardinality(B[x]) + 1] = x
      <3> HIDE DEF S, B
      <3>1. QED
        BY <1>2, <1>3, <2>1, ListedAtItsRank
    <2>3. QED
      BY <2>1, <2>2
  <1>5. ASSUME NEW k \in K
        PROVE  o[k] \in M /\ Cardinality(B[o[k]]) = k - 1 /\ k \in Int
    <2>1. k \in 1 .. Cardinality(S) /\ o[k].user \in q
      OBVIOUS
    <2>2. o[k] \in S /\ Cardinality(B[o[k]]) = k - 1
      BY <1>2, <2>1 DEF ListsByRank
    <2>3. QED
      BY <1>3, <2>1, <2>2 DEF Matching
  <1>6. M = {o[k] : k \in K}
    <2> HIDE DEF K, M, B
    <2>1. QED
      BY <1>4, <1>5
  <1>7. Cardinality(M) = Cardinality(K)
    <2>1. K \in SUBSET (1 .. Cardinality(S))
      OBVIOUS
    <2> HIDE DEF K, M, B, S
    <2>2. QED
      BY <1>2, <1>3, <1>6, <2>1, ListedOnce
  <1>8. DOMAIN MatchingSetters(setters, q) = 1 .. Cardinality(M)
    <2> HIDE DEF K, M
    <2>1. QED
      BY <1>2, <1>7
  <1>9. ASSUME NEW x \in M
        PROVE  /\ 1 + Cardinality({y \in M : SetterOrder(y, x)}) \in 1 .. Cardinality(M)
               /\ MatchingSetters(setters, q)[1 + Cardinality({y \in M : SetterOrder(y, x)})].user = x.user
    <2> DEFINE k == Cardinality(B[x]) + 1
               J == Lower(K)[k]
               i == Cardinality(J) + 1
    <2>1. k \in K /\ o[k] = x /\ x \in S
      BY <1>4
    <2>2. J = {j \in K : j < k}
      BY <2>1 DEF Lower
    <2>3. {y \in M : SetterOrder(y, x)} = {o[j] : j \in J}
      <3>1. ASSUME NEW y \in M, SetterOrder(y, x)
            PROVE  \E j \in J : o[j] = y
        <4>1. y \in B[x]
          BY <1>4, <2>1, <3>1 DEF SetterBefore
        <4>2. Cardinality(B[y]) < Cardinality(B[x])
          <5> HIDE DEF B, S
          <5>1. QED
            BY <1>3, <1>4, <2>1, <4>1, FewerComeBefore
        <4>3. Cardinality(B[y]) + 1 \in K /\ o[Cardinality(B[y]) + 1] = y
          BY <1>4
        <4>4. Cardinality(B[y]) \in Int /\ Cardinality(B[x]) \in Int
          <5> HIDE DEF B, S
          <5>1. QED
            BY <1>3, <1>4, FewerComeBefore
        <4>5. Cardinality(B[y]) + 1 < k
          <5> HIDE DEF B
          <5>1. QED
            BY <4>2, <4>4
        <4> HIDE DEF B, K, J, k
        <4>6. QED
          BY <2>2, <4>3, <4>5
      <3>2. ASSUME NEW j \in J
            PROVE  o[j] \in M /\ SetterOrder(o[j], x)
        <4>1. j \in K /\ j < k
          <5> HIDE DEF K, J, k
          <5>1. QED
            BY <2>2
        <4>2. o[j] \in M /\ Cardinality(B[o[j]]) = j - 1 /\ j \in Int
          <5> HIDE DEF K, J, M, B
          <5>1. QED
            BY <1>5, <4>1
        <4>3. Cardinality(B[o[k]]) = k - 1 /\ k \in Int
          <5> HIDE DEF K, J, M, B, k
          <5>1. QED
            BY <1>5, <2>1
        <4>4. Cardinality(B[o[j]]) < Cardinality(B[x])
          <5> HIDE DEF K, J, M, B, k
          <5>1. QED
            BY <2>1, <4>1, <4>2, <4>3
        <4>5. o[j] \in S
          BY <4>2 DEF Matching
        <4>6. o[j] \in B[x]
          <5> HIDE DEF K, J, M, B, k, S
          <5>1. QED
            BY <1>3, <2>1, <4>4, <4>5, FewerComeBefore
        <4>7. QED
          BY <2>1, <4>2, <4>6 DEF SetterBefore
      <3> HIDE DEF J, M
      <3>3. QED
        BY <3>1, <3>2
    <2>4. Cardinality({y \in M : SetterOrder(y, x)}) = Cardinality(J)
      <3>1. J \in SUBSET (1 .. Cardinality(S))
        <4> HIDE DEF J
        <4>1. QED
          BY <2>2
      <3> HIDE DEF K, M, B, S, J
      <3>2. Cardinality({o[j] : j \in J}) = Cardinality(J)
        BY <1>2, <1>3, <3>1, ListedOnce
      <3>3. QED
        BY <2>3, <3>2, Zenon
    <2>5. i \in 1 .. Cardinality(K) /\ kept[i] = k
      <3>1. K \in SUBSET Nat
        OBVIOUS
      <3> HIDE DEF K, k
      <3>2. IsOrder(K, Lower(K))
        BY <3>1, NumbersAreOrdered
      <3>3. QED
        BY <1>2, <2>1, <3>2, ListedAtItsRank
    <2>6. MatchingSetters(setters, q)[i].user = x.user
      <3>1. MatchingSetters(setters, q)[i] = SetterEntry(o, k)
        <4> HIDE DEF K, k, i
        <4>1. QED
          BY <1>2, <2>5
      <3>2. QED
        BY <2>1, <3>1 DEF SetterEntry
    <2>7. 1 + Cardinality({y \in M : SetterOrder(y, x)}) = i
      <3> HIDE DEF J, M
      <3>1. Cardinality(J) \in Int
        <4>1. IsFiniteSet(J)
          <5> HIDE DEF K, k
          <5>1. QED
            BY <1>2, <2>2, FS_Subset
        <4>2. QED
          BY <4>1, FS_CardinalityType
      <3>2. QED
        BY <2>4, <3>1
    <2>8. QED
      <3> HIDE DEF i, M, K
      <3>1. QED
        BY <1>7, <2>5, <2>6, <2>7
  <1>10. QED
    <2> HIDE DEF M
    <2>1. QED
      BY <1>8, <1>9 DEF M
(* A listing is as long as its domain says. *)
LEMMA LengthOf ==
    ASSUME NEW n \in Nat, NEW V, NEW s \in [1 .. n -> V]
    PROVE  s \in Seq(V) /\ Len(s) = n
  <1>1. s \in Seq(V)
    BY SeqDef
  <1>2. Len(s) \in Nat /\ DOMAIN s = 1 .. Len(s) /\ DOMAIN s = 1 .. n
    BY <1>1, LenProperties
  <1>3. QED
    BY <1>1, <1>2

LEMMA MatchesAreAsMany ==
    ASSUME NEW setters, Rows(setters), NEW q
    PROVE  /\ IsFiniteSet(Matching(setters, q))
           /\ Cardinality(Matching(setters, q)) \in Nat
           /\ Len(MatchingSetters(setters, q)) = Cardinality(Matching(setters, q))
  <1> DEFINE M == Matching(setters, q)
             t == MatchingSetters(setters, q)
             V == {t[i] : i \in DOMAIN t}
  <1>1. IsFiniteSet(M) /\ Cardinality(M) \in Nat
    <2>1. M \in SUBSET Named(setters)
      BY DEF Matching
    <2> HIDE DEF M
    <2>2. IsFiniteSet(M)
      BY <2>1, SettersAreOrdered, FS_Subset
    <2>3. QED
      BY <2>2, FS_CardinalityType
  <1>2. DOMAIN t = 1 .. Cardinality(M)
    BY MatchesAreInOrder
  <1>3. t = [i \in DOMAIN t |-> t[i]]
    <2>1. PICK o, kept : MatchesOf(setters, q, o, kept)
      BY MatchesAreListed
    <2>2. \E K : t = [i \in 1 .. Cardinality(K) |-> SetterEntry(o, kept[i])]
      BY <2>1, Zenon DEF MatchesOf
    <2> HIDE DEF t
    <2>3. QED
      BY <2>2
  <1> HIDE DEF t, M
  <1>4. t \in [1 .. Cardinality(M) -> V]
    BY <1>2, <1>3
  <1> HIDE DEF V
  <1>5. Len(t) = Cardinality(M)
    BY <1>1, <1>4, LengthOf
  <1>6. QED
    BY <1>1, <1>5 DEF M, t

(* A page that begins within the listing has the next entries of it. *)
SizeOfPage(m, limit, offset) == IF offset + limit > m THEN m - offset ELSE limit

ShowsFrom(s, offset, page, size) == \A i \in 1 .. size : page[i] = s[offset + i]

LEMMA PageOf ==
    ASSUME NEW s, NEW m \in Nat, Len(s) = m,
           NEW limit \in Nat \ {0}, NEW offset \in Nat, offset <= m
    PROVE  /\ Len(Page(s, limit, offset)) = SizeOfPage(m, limit, offset)
           /\ DOMAIN Page(s, limit, offset) = 1 .. SizeOfPage(m, limit, offset)
           /\ ShowsFrom(s, offset, Page(s, limit, offset), SizeOfPage(m, limit, offset))
  <1> DEFINE last == IF offset + limit > m THEN m ELSE offset + limit
             size == IF offset + limit > m THEN m - offset ELSE limit
             V == {s[i] : i \in 1 .. m}
             page == SubSeq(s, offset + 1, last)
  <1>1. Page(s, limit, offset) = page
    BY DEF Page
  <1>2. /\ offset + 1 \in Int /\ last \in Int
        /\ last - (offset + 1) + 1 = size
        /\ (IF offset + 1 <= last THEN last - (offset + 1) + 1 ELSE 0) = size
        /\ \A i \in offset + 1 .. last : i \in 1 .. m
    OBVIOUS
  <1>3. \A i \in offset + 1 .. last : s[i] \in V
    BY <1>2
  <1> HIDE DEF V, last, size
  <1>4. /\ page \in Seq(V)
        /\ Len(page) = IF offset + 1 <= last THEN last - (offset + 1) + 1 ELSE 0
        /\ \A i \in 1 .. last - (offset + 1) + 1 : page[i] = s[offset + 1 + i - 1]
    BY <1>2, <1>3, SubSeqProperties
  <1>5. Len(page) = size /\ DOMAIN page = 1 .. size
    BY <1>2, <1>4, LenProperties
  <1>6. ASSUME NEW i \in 1 .. size
        PROVE  page[i] = s[offset + i]
    <2>1. page[i] = s[offset + 1 + i - 1]
      BY <1>2, <1>4
    <2>2. size \in Int
      BY <1>2
    <2>3. offset + 1 + i - 1 = offset + i
      BY <2>2
    <2>4. QED
      BY <2>1, <2>3
  <1>7. QED
    BY <1>1, <1>5, <1>6 DEF size, SizeOfPage, ShowsFrom

-----------------------------------------------------------------------------
(* The handlers' ranking keeps the rows it is given: first those with      *)
(* enough weeks, ranked by their places, then the others, unranked.        *)

RankedTo(m, board, S, minWeeks) ==
    \A i \in DOMAIN board :
        /\ i \in Nat \ {0}
        /\ board[i].row \in S
        /\ i <= m => board[i].rank = i /\ board[i].row.weeksPlayed >= minWeeks
        /\ i > m => board[i].rank = 0 /\ board[i].row.weeksPlayed < minWeeks

LEMMA RankedEntries ==
    ASSUME NEW n \in Nat, NEW S, NEW rows \in [1 .. n -> S], NEW minWeeks
    PROVE  \E m \in Nat : RankedTo(m, applyRanking(rows, minWeeks), S, minWeeks)
  <1> DEFINE K == {i \in DOMAIN rows : rows[i].weeksPlayed >= minWeeks}
             L == {i \in DOMAIN rows : rows[i].weeksPlayed < minWeeks}
             keptK == InOrder(K, LAMBDA i, j : i < j)
             keptL == InOrder(L, LAMBDA i, j : i < j)
             ranked == [i \in DOMAIN keptK |-> rows[keptK[i]]]
             provisional == [i \in DOMAIN keptL |-> rows[keptL[i]]]
             first == [i \in DOMAIN ranked |-> [row |-> ranked[i], rank |-> i]]
             rest == [i \in DOMAIN provisional |-> [row |-> provisional[i], rank |-> 0]]
             k == Cardinality(K)
             l == Cardinality(L)
             V == {first[i] : i \in 1 .. k} \cup {rest[i] : i \in 1 .. l}
  <1>1. applyRanking(rows, minWeeks) = first \o rest
    BY Zenon DEF applyRanking, Filtered
  <1>2. DOMAIN rows = 1 .. n /\ 1 .. n \in SUBSET Nat /\ IsFiniteSet(1 .. n)
    BY FS_Interval
  <1>3. K \in SUBSET Nat /\ IsFiniteSet(K) /\ L \in SUBSET Nat /\ IsFiniteSet(L)
    BY <1>2, FS_Subset
  <1>4. k \in Nat /\ l \in Nat
    BY <1>3, FS_CardinalityType
  <1>5. /\ keptK \in [1 .. k -> K]
        /\ keptL \in [1 .. l -> L]
    <2> HIDE DEF K, L
    <2>1. ListsByRank(keptK, K, Lower(K)) /\ ListsByRank(keptL, L, Lower(L))
      BY <1>3, KeptIndices
    <2>2. QED
      BY <2>1 DEF ListsByRank
  <1> HIDE DEF keptK, keptL, k, l
  <1>6. /\ DOMAIN first = 1 .. k
        /\ \A i \in 1 .. k : first[i] = [row |-> rows[keptK[i]], rank |-> i]
        /\ first = [i \in 1 .. k |-> first[i]]
    BY <1>5
  <1>7. /\ DOMAIN rest = 1 .. l
        /\ \A i \in 1 .. l : rest[i] = [row |-> rows[keptL[i]], rank |-> 0]
        /\ rest = [i \in 1 .. l |-> rest[i]]
    BY <1>5
  <1> HIDE DEF first, rest
  <1>8. first \in [1 .. k -> V] /\ rest \in [1 .. l -> V]
    BY <1>6, <1>7
  <1> HIDE DEF V
  <1>9. first \in Seq(V) /\ Len(first) = k /\ rest \in Seq(V) /\ Len(rest) = l
    BY <1>4, <1>8, LengthOf
  <1>10. /\ first \o rest \in Seq(V)
         /\ Len(first \o rest) = k + l
         /\ \A i \in 1 .. k + l : (first \o rest)[i] = IF i <= k THEN first[i] ELSE rest[i - k]
    BY <1>9, ConcatProperties
  <1>11. DOMAIN (first \o rest) = 1 .. k + l
    BY <1>10, LenProperties
  <1>12. ASSUME NEW i \in 1 .. k + l
         PROVE  LET entry == (first \o rest)[i]
                IN  /\ i \in Nat \ {0}
                    /\ entry.row \in S
                    /\ i <= k => entry.rank = i /\ entry.row.weeksPlayed >= minWeeks
                    /\ i > k => entry.rank = 0 /\ entry.row.weeksPlayed < minWeeks
    <2>1. i \in Nat \ {0}
      BY <1>4
    <2>2. CASE i <= k
      <3>1. i \in 1 .. k /\ (first \o rest)[i] = first[i]
        BY <1>4, <1>10, <2>1, <2>2
      <3>2. first[i] = [row |-> rows[keptK[i]], rank |-> i]
        BY <1>6, <3>1
      <3>3. keptK[i] \in DOMAIN rows /\ rows[keptK[i]].weeksPlayed >= minWeeks
        BY <1>5, <3>1
      <3>4. rows[keptK[i]] \in S
        BY <3>3
      <3>5. ~(i > k)
        BY <1>4, <2>1, <2>2
      <3>6. QED
        BY <2>1, <3>1, <3>2, <3>3, <3>4, <3>5
    <2>3. CASE i > k
      <3>1. i - k \in 1 .. l /\ (first \o rest)[i] = rest[i - k]
        BY <1>4, <1>10, <2>1, <2>3
      <3>2. rest[i - k] = [row |-> rows[keptL[i - k]], rank |-> 0]
        BY <1>7, <3>1
      <3>3. keptL[i - k] \in DOMAIN rows /\ rows[keptL[i - k]].weeksPlayed < minWeeks
        BY <1>5, <3>1
      <3>4. rows[keptL[i - k]] \in S
        BY <3>3
      <3>5. ~(i <= k)
        BY <1>4, <2>1, <2>3
      <3>6. QED
        BY <2>1, <3>1, <3>2, <3>3, <3>4, <3>5
    <2>4. i <= k \/ i > k
      BY <1>4, <2>1
    <2>5. QED
      BY <2>2, <2>3, <2>4, Zenon
  <1>13. RankedTo(k, first \o rest, S, minWeeks)
    BY <1>11, <1>12 DEF RankedTo
  <1>14. QED
    BY <1>1, <1>4, <1>13
=============================================================================
