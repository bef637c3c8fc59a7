------------------------ MODULE OptimalLineupProofs -------------------------
(***************************************************************************)
(* The solver is right, for any roster, league and points of either sign:  *)
(* potentials show that a flow is the cheapest of its size, the labels of  *)
(* a finished search are potentials, and a search that fails leaves more   *)
(* slots than players for them.                                            *)
(***************************************************************************)
EXTENDS OptimalLineup, StandingsProofs

-----------------------------------------------------------------------------
(* Sums over a finite set, an element at a time. *)

SumOver(g, S) == (CHOOSE f \in [SUBSET S -> Int] : IsSum(f, g, S))[S]

Ints(g, S) == \A x \in S : g[x] \in Int

(* A sum over any finite set exists and is an integer.                     *)
LEMMA SumExistsFor ==
    ASSUME NEW S, IsFiniteSet(S), NEW g, Ints(g, S)
    PROVE  \E f \in [SUBSET S -> Int] : IsSum(f, g, S) /\ SumOver(g, S) = f[S]
  <1> DEFINE h == [x \in S |-> g[x]]
  <1>1. h \in [S -> Int]
    BY DEF Ints
  <1>2. PICK f \in [SUBSET S -> Int] : IsSum(f, h, S)
    <2> HIDE DEF h
    <2>1. QED
      BY <1>1, SumExists
  <1>3. ASSUME NEW s \in SUBSET S, s # {}
        PROVE  h[Pick(s)] = g[Pick(s)]
    BY <1>3, Picked
  <1>4. \A s \in SUBSET S : (IF s = {} THEN 0 ELSE h[Pick(s)] + f[s \ {Pick(s)}])
                          = (IF s = {} THEN 0 ELSE g[Pick(s)] + f[s \ {Pick(s)}])
    BY <1>3
  <1> HIDE DEF h
  <1>5. IsSum(f, g, S)
    BY <1>2, <1>4, Zenon DEF IsSum
  <1>6. \E k \in [SUBSET S -> Int] : IsSum(k, g, S)
    BY <1>5
  <1>7. QED
    BY <1>6, Zenon DEF SumOver

LEMMA SumType ==
    ASSUME NEW S, IsFiniteSet(S), NEW g, Ints(g, S)
    PROVE  SumOver(g, S) \in Int
  <1>1. PICK f \in [SUBSET S -> Int] : SumOver(g, S) = f[S]
    BY SumExistsFor
  <1>2. QED
    BY <1>1

LEMMA SumIs ==
    ASSUME NEW S, IsFiniteSet(S), NEW g, Ints(g, S), NEW f, IsSum(f, g, S), NEW s \in SUBSET S
    PROVE  f[s] = SumOver(g, s)
  <1>1. IsFiniteSet(s)
    BY FS_Subset
  <1>2. Ints(g, s)
    BY DEF Ints
  <1>3. PICK h \in [SUBSET s -> Int] : IsSum(h, g, s) /\ SumOver(g, s) = h[s]
    BY <1>1, <1>2, SumExistsFor
  <1>4. f[s] = h[s]
    BY <1>3, SumsAgree
  <1>5. QED
    BY <1>3, <1>4

LEMMA SumEmpty ==
    ASSUME NEW g
    PROVE  SumOver(g, {}) = 0
  <1>1. IsFiniteSet({})
    BY FS_EmptySet
  <1>2. Ints(g, {})
    BY DEF Ints
  <1>3. PICK f \in [SUBSET {} -> Int] : IsSum(f, g, {}) /\ SumOver(g, {}) = f[{}]
    BY <1>1, <1>2, SumExistsFor
  <1>4. {} \in SUBSET {}
    OBVIOUS
  <1>5. f[{}] = 0
    BY <1>3, <1>4, Zenon DEF IsSum
  <1>6. QED
    BY <1>3, <1>5

LEMMA SumPicked ==
    ASSUME NEW S, IsFiniteSet(S), NEW g, Ints(g, S), S # {}
    PROVE  SumOver(g, S) = g[Pick(S)] + SumOver(g, S \ {Pick(S)})
  <1>1. PICK f \in [SUBSET S -> Int] : IsSum(f, g, S) /\ SumOver(g, S) = f[S]
    BY SumExistsFor
  <1>2. S \in SUBSET S /\ S \ {Pick(S)} \in SUBSET S
    OBVIOUS
  <1>3. f[S] = g[Pick(S)] + f[S \ {Pick(S)}]
    BY <1>1, <1>2, Zenon DEF IsSum
  <1>4. f[S \ {Pick(S)}] = SumOver(g, S \ {Pick(S)})
    BY <1>1, <1>2, SumIs
  <1>5. QED
    BY <1>1, <1>3, <1>4

(* Whichever element is taken out first, the rest adds up to the rest.     *)
LEMMA SumRemove ==
    ASSUME NEW S, IsFiniteSet(S), NEW g, Ints(g, S), NEW x \in S
    PROVE  SumOver(g, S) = g[x] + SumOver(g, S \ {x})
  <1> DEFINE Good(T) == \A y \in T : SumOver(g, T) = g[y] + SumOver(g, T \ {y})
             Bad == {T \in SUBSET S : ~Good(T)}
  <1>1. SUFFICES ASSUME Bad # {}
                 PROVE  FALSE
    BY Zenon
  <1>2. PICK T \in Bad : \A U \in Bad : U \subseteq T => U = T
    <2>1. Bad \in SUBSET SUBSET S
      OBVIOUS
    <2> HIDE DEF Bad
    <2>2. QED
      BY <1>1, <2>1, SmallestSubset
  <1>3. T \in SUBSET S /\ \A U \in SUBSET T : U # T => Good(U)
    BY <1>2
  <1>4. PICK y \in T : SumOver(g, T) # g[y] + SumOver(g, T \ {y})
    BY <1>2
  <1> HIDE DEF Bad
  <1> DEFINE p == Pick(T)
  <1>5. p \in T
    BY <1>4, Picked
  <1>6. \A U \in SUBSET T : IsFiniteSet(U) /\ Ints(g, U) /\ SumOver(g, U) \in Int
    <2>1. ASSUME NEW U \in SUBSET T
          PROVE  IsFiniteSet(U) /\ Ints(g, U)
      <3>1. U \in SUBSET S
        BY <1>3
      <3>2. QED
        BY <3>1, FS_Subset DEF Ints
    <2>2. QED
      BY <2>1, SumType
  <1>7. SumOver(g, T) = g[p] + SumOver(g, T \ {p})
    BY <1>4, <1>6, SumPicked
  <1>8. y # p
    BY <1>4, <1>7
  <1> HIDE DEF p
  <1> DEFINE A == T \ {p}
             B == T \ {y}
             C == (T \ {p}) \ {y}
  <1>9. A \in SUBSET T /\ A # T /\ y \in A /\ B \in SUBSET T /\ B # T /\ p \in B
    BY <1>5, <1>8
  <1>10. SumOver(g, A) = g[y] + SumOver(g, C)
    <2> HIDE DEF A
    <2>1. Good(A)
      BY <1>3, <1>9
    <2>2. QED
      BY <1>9, <2>1 DEF A
  <1>11. SumOver(g, B) = g[p] + SumOver(g, C)
    <2>1. B \ {p} = C
      OBVIOUS
    <2> HIDE DEF B, C
    <2>2. Good(B)
      BY <1>3, <1>9
    <2>3. QED
      BY <1>9, <2>1, <2>2
  <1>12. SumOver(g, C) \in Int /\ g[y] \in Int /\ g[p] \in Int
    <2>1. C \in SUBSET T /\ T \in SUBSET T
      OBVIOUS
    <2> HIDE DEF C
    <2>2. QED
      BY <1>5, <1>6, <2>1 DEF Ints
  <1> HIDE DEF A, B, C
  <1>13. SumOver(g, T) = g[y] + SumOver(g, B)
    BY <1>7, <1>10, <1>11, <1>12 DEF A
  <1>14. QED
    BY <1>4, <1>13 DEF B

(* A sum is no larger when its summands are no larger, those it has alone  *)
(* are not positive and those it lacks not negative.                       *)
LEMMA SumCompare ==
    ASSUME NEW S, IsFiniteSet(S), NEW R, IsFiniteSet(R), NEW g, Ints(g, S), NEW h, Ints(h, R),
           \A x \in S \cap R : g[x] <= h[x], \A x \in S \ R : g[x] <= 0, \A x \in R \ S : 0 <= h[x]
    PROVE  SumOver(g, S) <= SumOver(h, R)
  <1> DEFINE Good(T) == SumOver(g, S \cap T) <= SumOver(h, R \cap T)
             Bad == {T \in SUBSET (S \cup R) : ~Good(T)}
  <1>1. SUFFICES ASSUME Bad # {}
                 PROVE  FALSE
    <2>1. S \cup R \notin Bad
      BY <1>1
    <2>2. S \cap (S \cup R) = S /\ R \cap (S \cup R) = R
      OBVIOUS
    <2>3. QED
      BY <2>1, <2>2
  <1>2. PICK T \in Bad : \A U \in Bad : U \subseteq T => U = T
    <2>1. Bad \in SUBSET SUBSET (S \cup R)
      OBVIOUS
    <2>2. IsFiniteSet(S \cup R)
      BY FS_Union
    <2> HIDE DEF Bad
    <2>3. QED
      BY <1>1, <2>1, <2>2, SmallestSubset
  <1>3. ~Good(T)
    BY <1>2
  <1>4. T # {}
    <2>1. S \cap {} = {} /\ R \cap {} = {}
      OBVIOUS
    <2>2. SumOver(g, {}) = 0 /\ SumOver(h, {}) = 0
      BY SumEmpty
    <2>3. Good({})
      BY <2>1, <2>2
    <2>4. QED
      BY <1>3, <2>3
  <1>5. PICK x \in T : TRUE
    BY <1>4
  <1>6. Good(T \ {x})
    <2>1. T \ {x} \in SUBSET (S \cup R) /\ T \ {x} \subseteq T /\ T \ {x} # T
      BY <1>2, <1>5
    <2>2. T \ {x} \notin Bad
      <3> HIDE DEF Bad
      <3>1. QED
        BY <1>2, <2>1
    <2>3. QED
      BY <2>1, <2>2
  <1> DEFINE A == S \cap T
             B == R \cap T
  <1>7. S \cap (T \ {x}) = A \ {x} /\ R \cap (T \ {x}) = B \ {x}
    OBVIOUS
  <1>8. x \in S \cup R /\ (x \in A <=> x \in S) /\ (x \in B <=> x \in R)
    BY <1>2, <1>5
  <1>9. A \in SUBSET S /\ B \in SUBSET R
    OBVIOUS
  <1>10. ~(SumOver(g, A) <= SumOver(h, B)) /\ SumOver(g, A \ {x}) <= SumOver(h, B \ {x})
    BY <1>3, <1>6, <1>7
  <1> HIDE DEF A, B, Bad
  <1>11. /\ IsFiniteSet(A) /\ Ints(g, A) /\ Ints(g, A \ {x}) /\ IsFiniteSet(A \ {x})
         /\ IsFiniteSet(B) /\ Ints(h, B) /\ Ints(h, B \ {x}) /\ IsFiniteSet(B \ {x})
    <2>1. A \ {x} \in SUBSET S /\ B \ {x} \in SUBSET R
      BY <1>9
    <2>2. QED
      BY <1>9, <2>1, FS_Subset DEF Ints
  <1>12. /\ SumOver(g, A) \in Int /\ SumOver(g, A \ {x}) \in Int
         /\ SumOver(h, B) \in Int /\ SumOver(h, B \ {x}) \in Int
    BY <1>11, SumType
  <1>13. SumOver(g, A) = IF x \in S THEN g[x] + SumOver(g, A \ {x}) ELSE SumOver(g, A \ {x})
    <2>1. x \notin A => A \ {x} = A
      OBVIOUS
    <2>2. x \in A => SumOver(g, A) = g[x] + SumOver(g, A \ {x})
      BY <1>11, SumRemove
    <2>3. QED
      BY <1>8, <2>1, <2>2
  <1>14. SumOver(h, B) = IF x \in R THEN h[x] + SumOver(h, B \ {x}) ELSE SumOver(h, B \ {x})
    <2>1. x \notin B => B \ {x} = B
      OBVIOUS
    <2>2. x \in B => SumOver(h, B) = h[x] + SumOver(h, B \ {x})
      BY <1>11, SumRemove
    <2>3. QED
      BY <1>8, <2>1, <2>2
  <1>15. (x \in S => g[x] \in Int) /\ (x \in R => h[x] \in Int)
    BY DEF Ints
  <1>16. /\ x \in S /\ x \in R => g[x] <= h[x]
         /\ x \in S /\ x \notin R => g[x] <= 0
         /\ x \in R /\ x \notin S => 0 <= h[x]
    OBVIOUS
  <1>17. QED
    BY <1>8, <1>10, <1>12, <1>13, <1>14, <1>15, <1>16

(* Summing along a one-to-one function f. *)
LEMMA SumAlong ==
    ASSUME NEW S, IsFiniteSet(S), NEW f, \A x, y \in S : f[x] = f[y] => x = y,
           NEW g, Ints(g, S), NEW c, Ints(c, S), NEW t, \A x \in S : t[f[x]] \in Int,
           \A x \in S : g[x] = c[x] + t[f[x]]
    PROVE  SumOver(g, S) = SumOver(c, S) + SumOver(t, {f[x] : x \in S})
  <1> DEFINE Good(T) == SumOver(g, T) = SumOver(c, T) + SumOver(t, {f[x] : x \in T})
             Bad == {T \in SUBSET S : ~Good(T)}
  <1>1. SUFFICES ASSUME Bad # {}
                 PROVE  FALSE
    BY Zenon
  <1>2. PICK T \in Bad : \A U \in Bad : U \subseteq T => U = T
    <2>1. Bad \in SUBSET SUBSET S
      OBVIOUS
    <2> HIDE DEF Bad
    <2>2. QED
      BY <1>1, <2>1, SmallestSubset
  <1>3. ~Good(T) /\ T \in SUBSET S
    BY <1>2
  <1>4. T # {}
    <2>1. {f[x] : x \in {}} = {}
      OBVIOUS
    <2>2. SumOver(g, {}) = 0 /\ SumOver(c, {}) = 0 /\ SumOver(t, {}) = 0
      BY SumEmpty
    <2>3. SumOver(t, {f[x] : x \in {}}) = 0
      BY <2>1, <2>2, Zenon
    <2>4. Good({})
      BY <2>2, <2>3
    <2>5. QED
      BY <1>3, <2>4
  <1>5. PICK x \in T : TRUE
    BY <1>4
  <1>6. Good(T \ {x})
    <2>1. T \ {x} \in SUBSET S /\ T \ {x} \subseteq T /\ T \ {x} # T
      BY <1>2, <1>5
    <2>2. T \ {x} \notin Bad
      <3> HIDE DEF Bad
      <3>1. QED
        BY <1>2, <2>1
    <2>3. QED
      BY <2>1, <2>2
  <1> DEFINE A == {f[y] : y \in T}
             B == {f[y] : y \in T \ {x}}
  <1>7. A \ {f[x]} = B /\ f[x] \in A
    BY <1>3, <1>5
  <1>8. /\ SumOver(g, T) # SumOver(c, T) + SumOver(t, A)
        /\ SumOver(g, T \ {x}) = SumOver(c, T \ {x}) + SumOver(t, B)
    BY <1>3, <1>6
  <1>9. \A y \in T : f[y] \in A
    OBVIOUS
  <1>10. Ints(t, A) /\ IsFiniteSet(A)
    <2>1. \A y \in T : t[f[y]] \in Int
      BY <1>3
    <2>2. IsFiniteSet(T)
      BY <1>3, FS_Subset
    <2>3. IsFiniteSet(A)
      <3> DEFINE image == [y \in T |-> f[y]]
      <3>1. image \in Surjection(T, A)
        BY DEF Surjection
      <3> HIDE DEF image, A
      <3>2. QED
        BY <2>2, <3>1, FS_Surjection
    <2>4. QED
      BY <2>1, <2>3 DEF Ints
  <1> HIDE DEF A, B, Bad
  <1>11. /\ IsFiniteSet(T) /\ IsFiniteSet(T \ {x}) /\ IsFiniteSet(B)
         /\ Ints(g, T) /\ Ints(g, T \ {x}) /\ Ints(c, T) /\ Ints(c, T \ {x}) /\ Ints(t, B)
    <2>1. T \ {x} \in SUBSET S /\ B \in SUBSET A
      BY <1>3, <1>7
    <2>2. QED
      BY <1>3, <1>10, <2>1, FS_Subset DEF Ints
  <1>12. /\ SumOver(g, T \ {x}) \in Int /\ SumOver(c, T \ {x}) \in Int /\ SumOver(t, B) \in Int
         /\ g[x] \in Int /\ c[x] \in Int /\ t[f[x]] \in Int /\ g[x] = c[x] + t[f[x]]
    BY <1>3, <1>5, <1>11, SumType DEF Ints
  <1>13. /\ SumOver(g, T) = g[x] + SumOver(g, T \ {x})
         /\ SumOver(c, T) = c[x] + SumOver(c, T \ {x})
    BY <1>5, <1>11, SumRemove
  <1>14. SumOver(t, A) = t[f[x]] + SumOver(t, B)
    BY <1>7, <1>10, SumRemove
  <1>15. QED
    BY <1>8, <1>12, <1>13, <1>14

(* A constant counts once for each element.                                *)
LEMMA SumOfDifferences ==
    ASSUME NEW S, IsFiniteSet(S), NEW D \in Int, NEW w, Ints(w, S), NEW g,
           \A x \in S : g[x] = D - w[x]
    PROVE  SumOver(g, S) = D * Cardinality(S) - SumOver(w, S)
  <1> DEFINE Good(T) == SumOver(g, T) = D * Cardinality(T) - SumOver(w, T)
             Bad == {T \in SUBSET S : ~Good(T)}
  <1>1. SUFFICES ASSUME Bad # {}
                 PROVE  FALSE
    BY Zenon
  <1>2. PICK T \in Bad : \A U \in Bad : U \subseteq T => U = T
    <2>1. Bad \in SUBSET SUBSET S
      OBVIOUS
    <2> HIDE DEF Bad
    <2>2. QED
      BY <1>1, <2>1, SmallestSubset
  <1>3. ~Good(T) /\ T \in SUBSET S
    BY <1>2
  <1>4. T # {}
    <2>1. SumOver(g, {}) = 0 /\ SumOver(w, {}) = 0 /\ Cardinality({}) = 0
      BY SumEmpty, FS_EmptySet
    <2>2. Good({})
      BY <2>1
    <2>3. QED
      BY <1>3, <2>2
  <1>5. PICK x \in T : TRUE
    BY <1>4
  <1>6. Good(T \ {x})
    <2>1. T \ {x} \in SUBSET S /\ T \ {x} \subseteq T /\ T \ {x} # T
      BY <1>2, <1>5
    <2>2. T \ {x} \notin Bad
      <3> HIDE DEF Bad
      <3>1. QED
        BY <1>2, <2>1
    <2>3. QED
      BY <2>1, <2>2
  <1>7. /\ SumOver(g, T) # D * Cardinality(T) - SumOver(w, T)
        /\ SumOver(g, T \ {x}) = D * Cardinality(T \ {x}) - SumOver(w, T \ {x})
    BY <1>3, <1>6
  <1> HIDE DEF Bad
  <1>8. IsFiniteSet(T) /\ IsFiniteSet(T \ {x})
    BY <1>3, FS_Subset
  <1>9. Ints(w, T) /\ Ints(w, T \ {x}) /\ Ints(g, T)
    <2>1. \A y \in S : w[y] \in Int /\ g[y] \in Int
      BY DEF Ints
    <2>2. QED
      BY <1>3, <2>1 DEF Ints
  <1>10. /\ SumOver(g, T) = g[x] + SumOver(g, T \ {x})
         /\ SumOver(w, T) = w[x] + SumOver(w, T \ {x})
    BY <1>5, <1>8, <1>9, SumRemove
  <1>11. Cardinality(T \ {x}) = Cardinality(T) - 1 /\ Cardinality(T) \in Nat
    BY <1>5, <1>8, FS_RemoveElement, FS_CardinalityType
  <1>12. SumOver(w, T \ {x}) \in Int /\ w[x] \in Int /\ g[x] = D - w[x]
    BY <1>3, <1>5, <1>8, <1>9, SumType DEF Ints
  <1>13. D * (Cardinality(T) - 1) = D * Cardinality(T) - D /\ D * Cardinality(T) \in Int
    BY <1>11
  <1>14. QED
    BY <1>7, <1>10, <1>11, <1>12, <1>13

(* Finitely many integers have a bound. *)
LEMMA HasBound ==
    ASSUME NEW S, IsFiniteSet(S), NEW g, Ints(g, S)
    PROVE  \E K \in Int : \A x \in S : g[x] <= K
  <1> DEFINE Good(T) == \E K \in Int : \A x \in T : g[x] <= K
             Bad == {T \in SUBSET S : ~Good(T)}
  <1>1. SUFFICES ASSUME Bad # {}
                 PROVE  FALSE
    BY Zenon
  <1>2. PICK T \in Bad : \A U \in Bad : U \subseteq T => U = T
    <2>1. Bad \in SUBSET SUBSET S
      OBVIOUS
    <2> HIDE DEF Bad
    <2>2. QED
      BY <1>1, <2>1, SmallestSubset
  <1>3. ~Good(T) /\ T \in SUBSET S
    BY <1>2
  <1>4. T # {}
    <2>1. Good({})
      OBVIOUS
    <2>2. QED
      BY <1>3, <2>1
  <1>5. PICK x \in T : TRUE
    BY <1>4
  <1>6. Good(T \ {x})
    <2>1. T \ {x} \in SUBSET S /\ T \ {x} \subseteq T /\ T \ {x} # T
      BY <1>2, <1>5
    <2>2. T \ {x} \notin Bad
      <3> HIDE DEF Bad
      <3>1. QED
        BY <1>2, <2>1
    <2>3. QED
      BY <2>1, <2>2
  <1>7. PICK K \in Int : \A y \in T \ {x} : g[y] <= K
    BY <1>6
  <1>8. \A y \in T : g[y] \in Int
    BY <1>3 DEF Ints
  <1>9. PICK L \in Int : K <= L /\ g[x] <= L
    <2>1. g[x] \in Int
      BY <1>5, <1>8
    <2>2. CASE K <= g[x]
      BY <2>1, <2>2
    <2>3. CASE g[x] <= K
      BY <2>1, <2>3
    <2>4. QED
      BY <2>1, <2>2, <2>3
  <1>10. \A y \in T : g[y] <= L
    BY <1>7, <1>8, <1>9
  <1>11. QED
    BY <1>3, <1>10

-----------------------------------------------------------------------------
(* The network of one problem. *)

Points(v) == PointsOf(in.points, player(v))

Problem ==
    /\ numSlots \in Nat
    /\ Len(in.players) \in Nat
    /\ \A v \in playerNodes : Points(v) \in Int

(* Source, slots, players and sink: four kinds of nodes, apart. *)
LEMMA Numbering ==
    ASSUME Problem
    PROVE  /\ Nodes = {source, sink} \cup slotNodes \cup playerNodes
           /\ source # sink
           /\ source \notin slotNodes \cup playerNodes
           /\ sink \notin slotNodes \cup playerNodes
           /\ slotNodes \cap playerNodes = {}
           /\ -1 \notin Nodes
           /\ Nodes \subseteq Int
           /\ IsFiniteSet(Nodes) /\ IsFiniteSet(slotNodes) /\ IsFiniteSet(playerNodes)
           /\ Cardinality(slotNodes) = numSlots
  <1> DEFINE n == numSlots
             k == Len(in.players)
  <1>1. n \in Nat /\ k \in Nat
    BY DEF Problem
  <1>2. playerBase = 1 + n /\ sink = 1 + n + k /\ source = 0
    BY DEF sink, playerBase, source
  <1>3. slotNodes = 1 .. n /\ playerNodes = 1 + n .. sink - 1 /\ Nodes = 0 .. sink
    BY <1>2 DEF Nodes, slotNodes, playerNodes
  <1>4. n = numSlots
    OBVIOUS
  <1> HIDE DEF n, k
  <1>5. sink \in Nat /\ sink - 1 = n + k
    BY <1>1, <1>2
  <1>6. /\ IsFiniteSet(0 .. sink) /\ IsFiniteSet(1 .. n)
        /\ IsFiniteSet(1 + n .. sink - 1) /\ Cardinality(1 .. n) = n
    <2>1. 0 \in Int /\ sink \in Int /\ 1 \in Int /\ n \in Int /\ 1 + n \in Int /\ sink - 1 \in Int
      BY <1>1, <1>5
    <2>2. IsFiniteSet(0 .. sink)
      BY <2>1, FS_Interval
    <2>3. IsFiniteSet(1 + n .. sink - 1)
      BY <2>1, FS_Interval
    <2>4. IsFiniteSet(1 .. n) /\ Cardinality(1 .. n) = IF 1 > n THEN 0 ELSE n - 1 + 1
      BY <2>1, FS_Interval
    <2>5. QED
      BY <1>1, <2>2, <2>3, <2>4
  <1>7. 0 .. sink = {0, sink} \cup (1 .. n) \cup (1 + n .. n + k)
    BY <1>1, <1>2
  <1>8. QED
    BY <1>1, <1>2, <1>3, <1>4, <1>5, <1>6, <1>7

(* What the kind of one end of an edge says of the other.                  *)
LEMMA EdgeEnds ==
    ASSUME Problem, NEW u, NEW v, IsEdge(u, v)
    PROVE  /\ u \in Nodes /\ v \in Nodes
           /\ u = source => v \in slotNodes
           /\ u \in slotNodes => v \in playerNodes /\ Fits(u, v)
           /\ u \in playerNodes => v = sink
           /\ u # sink /\ v # source
           /\ v \in slotNodes => u = source
           /\ v \in playerNodes => u \in slotNodes
           /\ v = sink => u \in playerNodes
  BY Numbering DEF IsEdge

(* Points are earned on the edge from slot to player and given back on its *)
(* reverse.                                                                *)
LEMMA CostType ==
    ASSUME Problem, NEW u, NEW v
    PROVE  /\ Cost(u, v) \in Int
           /\ u \in slotNodes /\ v \in playerNodes => Cost(u, v) = -Points(v) /\ Cost(v, u) = Points(v)
           /\ IsEdge(u, v) => Cost(v, u) = -Cost(u, v)
           /\ ~(u \in slotNodes /\ v \in playerNodes) /\ ~(v \in slotNodes /\ u \in playerNodes)
                => Cost(u, v) = 0
  <1>1. slotNodes \cap playerNodes = {}
    BY Numbering
  <1>2. \A w \in playerNodes : Points(w) \in Int
    BY DEF Problem
  <1>3. Cost(u, v) = IF u \in slotNodes /\ v \in playerNodes THEN -Points(v)
                     ELSE IF u \in playerNodes /\ v \in slotNodes THEN Points(u) ELSE 0
    BY <1>1 DEF Cost, Points
  <1>4. Cost(v, u) = IF v \in slotNodes /\ u \in playerNodes THEN -Points(u)
                     ELSE IF v \in playerNodes /\ u \in slotNodes THEN Points(v) ELSE 0
    BY <1>1 DEF Cost, Points
  <1>5. u \in slotNodes => u \notin playerNodes
    BY <1>1
  <1>6. v \in slotNodes => v \notin playerNodes
    BY <1>1
  <1>7. QED
    BY <1>2, <1>3, <1>4, <1>5, <1>6

-----------------------------------------------------------------------------
(* Flows.  F is the set of edges that carry a unit. *)

OpenIn(F, u, v) == (IsEdge(u, v) /\ <<u, v>> \notin F) \/ <<v, u>> \in F

Conserved(F) ==
    /\ \A s \in slotNodes : <<source, s>> \in F <=> \E v \in playerNodes : <<s, v>> \in F
    /\ \A v \in playerNodes : <<v, sink>> \in F <=> \E s \in slotNodes : <<s, v>> \in F
    /\ \A s \in slotNodes, v, w \in playerNodes : <<s, v>> \in F /\ <<s, w>> \in F => v = w
    /\ \A r, s \in slotNodes, v \in playerNodes : <<r, v>> \in F /\ <<s, v>> \in F => r = s

OnEdges(F) == \A e \in F : e = <<e[1], e[2]>> /\ IsEdge(e[1], e[2])

IsFlow(F) == OnEdges(F) /\ Conserved(F)

Filled(F) == {s \in slotNodes : <<source, s>> \in F}

Assigned(F) == [s \in Filled(F) |-> CHOOSE v \in playerNodes : <<s, v>> \in F]

IsMatching(f, S) ==
    /\ S \subseteq slotNodes
    /\ f \in Injection(S, playerNodes)
    /\ \A s \in S : Fits(s, f[s])

(* A flow assigns each slot it fills an eligible player, no player twice.  *)
LEMMA AssignedTo ==
    ASSUME Problem, NEW F, IsFlow(F)
    PROVE  /\ \A s \in Filled(F) : Assigned(F)[s] \in playerNodes /\ <<s, Assigned(F)[s]>> \in F
           /\ \A s \in slotNodes, v \in playerNodes :
                 <<s, v>> \in F => s \in Filled(F) /\ Assigned(F)[s] = v
           /\ IsMatching(Assigned(F), Filled(F))
  <1>1. ASSUME NEW s \in Filled(F)
        PROVE  Assigned(F)[s] \in playerNodes /\ <<s, Assigned(F)[s]>> \in F
    <2>1. \E v \in playerNodes : <<s, v>> \in F
      BY DEF Filled, IsFlow, Conserved
    <2>2. Assigned(F)[s] = CHOOSE v \in playerNodes : <<s, v>> \in F
      BY DEF Assigned
    <2>3. QED
      BY <2>1, <2>2
  <1>2. ASSUME NEW s \in slotNodes, NEW v \in playerNodes, <<s, v>> \in F
        PROVE  s \in Filled(F) /\ Assigned(F)[s] = v
    <2>1. s \in Filled(F)
      BY <1>2 DEF Filled, IsFlow, Conserved
    <2>2. Assigned(F)[s] \in playerNodes /\ <<s, Assigned(F)[s]>> \in F
      BY <1>1, <2>1
    <2>3. QED
      BY <1>2, <2>1, <2>2 DEF IsFlow, Conserved
  <1>3. Filled(F) \subseteq slotNodes
    BY DEF Filled
  <1>4. Assigned(F) \in [Filled(F) -> playerNodes]
    <2> DEFINE A == Assigned(F)
    <2>1. A = [s \in Filled(F) |-> CHOOSE v \in playerNodes : <<s, v>> \in F]
      BY Zenon DEF Assigned
    <2>2. \A s \in Filled(F) : A[s] \in playerNodes
      BY <1>1
    <2> HIDE DEF A
    <2>3. A \in [Filled(F) -> playerNodes]
      BY <2>1, <2>2
    <2>4. QED
      BY <2>3 DEF A
  <1>5. ASSUME NEW r \in Filled(F), NEW s \in Filled(F), Assigned(F)[r] = Assigned(F)[s]
        PROVE  r = s
    <2> DEFINE v == Assigned(F)[r]
    <2>1. v \in playerNodes /\ <<r, v>> \in F /\ <<s, v>> \in F
      BY <1>1, <1>5
    <2> HIDE DEF v
    <2>2. QED
      BY <1>3, <2>1 DEF IsFlow, Conserved
  <1>6. \A s \in Filled(F) : Fits(s, Assigned(F)[s])
    <2> SUFFICES ASSUME NEW s \in Filled(F)
                 PROVE  Fits(s, Assigned(F)[s])
      OBVIOUS
    <2>1. IsEdge(s, Assigned(F)[s])
      BY <1>1 DEF IsFlow, OnEdges
    <2>2. QED
      BY <1>3, <2>1, EdgeEnds
  <1>7. QED
    BY <1>1, <1>2, <1>3, <1>4, <1>5, <1>6 DEF IsMatching, Injection, IsInjective

FromSource(F) == {e \in F : e[1] = source}

(* As much flow as slots filled. *)
LEMMA FlowFills ==
    ASSUME Problem, NEW F, IsFlow(F)
    PROVE  /\ IsFiniteSet(Filled(F)) /\ Filled(F) \subseteq slotNodes
           /\ Cardinality(FromSource(F)) = Cardinality(Filled(F))
           /\ Cardinality(Filled(F)) \in 0 .. numSlots
           /\ Cardinality(Filled(F)) = numSlots => Filled(F) = slotNodes
  <1>1. Filled(F) \in SUBSET slotNodes /\ IsFiniteSet(slotNodes) /\ Cardinality(slotNodes) = numSlots
    BY Numbering DEF Filled
  <1>2. /\ IsFiniteSet(Filled(F)) /\ Cardinality(Filled(F)) <= numSlots
        /\ Cardinality(Filled(F)) = numSlots => Filled(F) = slotNodes
        /\ Cardinality(Filled(F)) \in Nat
    BY <1>1, FS_Subset, FS_CardinalityType
  <1> DEFINE first == [s \in Filled(F) |-> <<source, s>>]
  <1>3. \A e \in FromSource(F) : e[2] \in Filled(F) /\ e = <<source, e[2]>>
    BY EdgeEnds DEF FromSource, Filled, IsFlow, OnEdges
  <1>4. first \in Bijection(Filled(F), FromSource(F))
    <2>1. \A s \in Filled(F) : first[s] \in FromSource(F) /\ first[s] = <<source, s>>
      BY DEF Filled, FromSource
    <2>2. \A e \in FromSource(F) : first[e[2]] = e
      BY <1>3
    <2>3. first \in [Filled(F) -> FromSource(F)]
      BY <2>1
    <2> HIDE DEF first
    <2>4. \A r, s \in Filled(F) : first[r] = first[s] => r = s
      BY <2>1
    <2>5. QED
      BY <1>3, <2>2, <2>3, <2>4 DEF Bijection, Injection, Surjection, IsInjective
  <1>5. Cardinality(FromSource(F)) = Cardinality(Filled(F))
    BY <1>2, <1>4, FS_Bijection DEF ExistsBijection
  <1>6. QED
    BY <1>1, <1>2, <1>5, Numbering DEF Problem

-----------------------------------------------------------------------------
(* What a lineup is worth, and potentials that show none is worth more. *)

PointsAlong(f) == [s \in DOMAIN f |-> Points(f[s])]

(* Worth is a sum in the sense of the lemmas above.                        *)
LEMMA WorthIsSum ==
    ASSUME Problem, NEW f, NEW S, IsMatching(f, S)
    PROVE  /\ IsFiniteSet(S) /\ DOMAIN f = S
           /\ \A s \in S : f[s] \in playerNodes /\ PointsAlong(f)[s] = Points(f[s])
           /\ Ints(PointsAlong(f), S)
           /\ Worth(f) = SumOver(PointsAlong(f), S)
           /\ Worth(f) \in Int
  <1>1. S \in SUBSET slotNodes /\ f \in [S -> playerNodes]
    BY DEF IsMatching, Injection
  <1>2. IsFiniteSet(S) /\ DOMAIN f = S
    BY <1>1, Numbering, FS_Subset
  <1> DEFINE g == PointsAlong(f)
             sum == CHOOSE h : h = [s \in SUBSET DOMAIN f |-> IF s = {} THEN 0
                      ELSE PointsOf(in.points, player(f[Pick(s)])) + h[s \ {Pick(s)}]]
  <1>3. \A s \in S : f[s] \in playerNodes /\ g[s] = Points(f[s])
    BY <1>1, <1>2 DEF PointsAlong
  <1>4. Ints(g, S)
    BY <1>3 DEF Ints, Problem
  <1>5. Worth(f) = sum[DOMAIN f]
    BY Zenon DEF Worth, MapThenSumSet, MapThenFoldSet, Pick
  <1>6. \A s \in SUBSET S : s # {} => g[Pick(s)] = PointsOf(in.points, player(f[Pick(s)]))
    BY <1>3, Picked DEF Points
  <1> HIDE DEF g
  <1>7. PICK h \in [SUBSET S -> Int] : IsSum(h, g, S) /\ SumOver(g, S) = h[S]
    BY <1>2, <1>4, SumExistsFor
  <1>8. ASSUME NEW k
        PROVE  IsSum(k, g, S) <=> k = [s \in SUBSET DOMAIN f |-> IF s = {} THEN 0
                      ELSE PointsOf(in.points, player(f[Pick(s)])) + k[s \ {Pick(s)}]]
    <2>1. \A s \in SUBSET S : (IF s = {} THEN 0 ELSE g[Pick(s)] + k[s \ {Pick(s)}])
             = (IF s = {} THEN 0 ELSE PointsOf(in.points, player(f[Pick(s)])) + k[s \ {Pick(s)}])
      BY <1>6
    <2>2. QED
      BY <1>2, <2>1, Zenon DEF IsSum
  <1>9. h = [s \in SUBSET DOMAIN f |-> IF s = {} THEN 0
               ELSE PointsOf(in.points, player(f[Pick(s)])) + h[s \ {Pick(s)}]]
    BY <1>7, <1>8
  <1>10. sum = [s \in SUBSET DOMAIN f |-> IF s = {} THEN 0
               ELSE PointsOf(in.points, player(f[Pick(s)])) + sum[s \ {Pick(s)}]]
    BY <1>9, Zenon
  <1> HIDE DEF sum
  <1>11. sum[S] = SumOver(g, S)
    <2>1. IsSum(sum, g, S)
      BY <1>8, <1>10
    <2>2. S \in SUBSET S
      OBVIOUS
    <2>3. QED
      BY <1>2, <1>4, <2>1, <2>2, SumIs
  <1>12. SumOver(g, S) \in Int
    BY <1>2, <1>4, SumType
  <1>13. QED
    BY <1>2, <1>3, <1>4, <1>5, <1>11, <1>12 DEF g

(* No residual edge costs less than the difference of its potentials. *)
Potential(F, pi) ==
    /\ pi \in [Nodes -> Int]
    /\ \A u, v \in Nodes : OpenIn(F, u, v) => pi[v] <= pi[u] + Cost(u, v)

(* What a filled slot, and a player in one, add to the reduced cost. *)
SlotPart(f, pi) == [s \in DOMAIN f |-> pi[source] - pi[f[s]] - Points(f[s])]

PlayerPart(pi) == [v \in playerNodes |-> pi[v] - pi[sink]]

Image(f) == {f[s] : s \in DOMAIN f}

LEMMA PotentialType ==
    ASSUME Problem, NEW F, NEW pi, Potential(F, pi)
    PROVE  /\ pi[source] \in Int /\ pi[sink] \in Int
           /\ \A s \in slotNodes : pi[s] \in Int
           /\ \A v \in playerNodes : pi[v] \in Int /\ Points(v) \in Int
  BY Numbering DEF Potential, Problem

(* What an assignment falls short of its potentials, slot by slot and      *)
(* player by player.                                                       *)
LEMMA WorthInParts ==
    ASSUME Problem, NEW F, NEW pi, Potential(F, pi), NEW f, NEW S, IsMatching(f, S)
    PROVE  /\ (pi[source] - pi[sink]) * Cardinality(S) - Worth(f)
                = SumOver(SlotPart(f, pi), S) + SumOver(PlayerPart(pi), Image(f))
           /\ Ints(SlotPart(f, pi), S)
           /\ IsFiniteSet(Image(f)) /\ Image(f) \subseteq playerNodes /\ Ints(PlayerPart(pi), Image(f))
  <1>1. /\ IsFiniteSet(S) /\ DOMAIN f = S
        /\ \A s \in S : f[s] \in playerNodes /\ PointsAlong(f)[s] = Points(f[s])
        /\ Ints(PointsAlong(f), S)
        /\ Worth(f) = SumOver(PointsAlong(f), S)
    BY WorthIsSum
  <1>2. \A r, s \in S : f[r] = f[s] => r = s
    BY <1>1 DEF IsMatching, Injection, IsInjective
  <1> DEFINE D == pi[source] - pi[sink]
             w == PointsAlong(f)
             c == SlotPart(f, pi)
             t == PlayerPart(pi)
             g == [s \in S |-> D - w[s]]
  <1>3. D \in Int /\ pi[source] \in Int /\ pi[sink] \in Int
    BY PotentialType
  <1>4. ASSUME NEW s \in S
        PROVE  /\ f[s] \in playerNodes /\ t[f[s]] \in Int /\ c[s] \in Int
               /\ D - w[s] = c[s] + t[f[s]] /\ D - w[s] \in Int
    <2>1. f[s] \in playerNodes /\ w[s] = Points(f[s])
      BY <1>1
    <2>2. pi[f[s]] \in Int /\ Points(f[s]) \in Int
      BY <2>1, PotentialType
    <2>3. c[s] = pi[source] - pi[f[s]] - Points(f[s])
      BY <1>1 DEF SlotPart
    <2>4. t[f[s]] = pi[f[s]] - pi[sink]
      BY <2>1 DEF PlayerPart
    <2> HIDE DEF c, t, w
    <2>5. QED
      BY <1>3, <2>1, <2>2, <2>3, <2>4
  <1>5. \A v \in playerNodes : t[v] \in Int
    <2>1. \A v \in playerNodes : pi[v] \in Int /\ pi[sink] \in Int
      BY PotentialType
    <2>2. QED
      BY <2>1 DEF PlayerPart
  <1>6. Image(f) \subseteq playerNodes /\ Image(f) = {f[s] : s \in S}
    BY <1>1 DEF Image
  <1>7. IsFiniteSet(Image(f))
    <2>1. Image(f) \in SUBSET playerNodes
      BY <1>6
    <2>2. QED
      BY <2>1, Numbering, FS_Subset
  <1> HIDE DEF D, w, c, t
  <1>8. Ints(c, S) /\ Ints(g, S) /\ Ints(t, Image(f)) /\ \A s \in S : g[s] = D - w[s] /\ g[s] = c[s] + t[f[s]]
    BY <1>4, <1>5, <1>6 DEF Ints
  <1>9. Ints(w, S)
    BY <1>1 DEF w
  <1> HIDE DEF g
  <1>10. SumOver(g, S) = D * Cardinality(S) - SumOver(w, S)
    BY <1>1, <1>3, <1>8, <1>9, SumOfDifferences
  <1>11. SumOver(g, S) = SumOver(c, S) + SumOver(t, {f[s] : s \in S})
    BY <1>1, <1>2, <1>4, <1>8, SumAlong
  <1>12. QED
    BY <1>1, <1>6, <1>7, <1>8, <1>10, <1>11 DEF D, w, c, t

(* The flow pays as little as any lineup: slot by slot and player by       *)
(* player, at reduced costs.                                               *)
LEMMA FlowPaysLeast ==
    ASSUME Problem, NEW F, IsFlow(F), NEW pi, Potential(F, pi), NEW f, NEW S, IsMatching(f, S)
    PROVE  (pi[source] - pi[sink]) * Cardinality(Filled(F)) - Worth(Assigned(F))
              <= (pi[source] - pi[sink]) * Cardinality(S) - Worth(f)
  <1> DEFINE M == Assigned(F)
             A == Filled(F)
             c == SlotPart(M, pi)
             d == SlotPart(f, pi)
             t == PlayerPart(pi)
  <1>1. /\ \A s \in A : M[s] \in playerNodes /\ <<s, M[s]>> \in F
        /\ \A s \in slotNodes, v \in playerNodes : <<s, v>> \in F => s \in A /\ M[s] = v
        /\ IsMatching(M, A)
    BY AssignedTo
  <1>2. /\ A \subseteq slotNodes /\ \A s \in slotNodes : s \in A <=> <<source, s>> \in F
        /\ S \subseteq slotNodes
    BY DEF Filled, IsMatching
  <1>3. /\ DOMAIN M = A /\ DOMAIN f = S /\ IsFiniteSet(A) /\ IsFiniteSet(S)
        /\ \A s \in S : f[s] \in playerNodes
    BY <1>1, WorthIsSum
  <1>4. /\ pi[source] \in Int /\ pi[sink] \in Int
        /\ \A s \in slotNodes : pi[s] \in Int
        /\ \A v \in playerNodes : pi[v] \in Int /\ Points(v) \in Int
    BY PotentialType
  <1>5. \A s \in S : IsEdge(s, f[s])
    BY <1>2, <1>3 DEF IsMatching, IsEdge
  <1>6. /\ source \in Nodes /\ sink \in Nodes /\ slotNodes \subseteq Nodes /\ playerNodes \subseteq Nodes
        /\ source \notin slotNodes /\ source \notin playerNodes /\ sink \notin slotNodes /\ sink \notin playerNodes
    BY Numbering
  <1>7. \A u, v \in Nodes : OpenIn(F, u, v) => pi[v] <= pi[u] + Cost(u, v)
    BY DEF Potential
  <1>8. ASSUME NEW s \in slotNodes
        PROVE  IF s \in A THEN pi[source] <= pi[s] ELSE pi[s] <= pi[source]
    <2>1. Cost(source, s) = 0 /\ Cost(s, source) = 0
      BY <1>6, CostType
    <2>2. IsEdge(source, s)
      BY DEF IsEdge
    <2>3. IF s \in A THEN OpenIn(F, s, source) ELSE OpenIn(F, source, s)
      BY <1>2, <2>2 DEF OpenIn
    <2>4. s \in Nodes /\ pi[s] \in Int
      BY <1>4, <1>6
    <2>5. QED
      BY <1>4, <1>6, <1>7, <2>1, <2>3, <2>4
  <1>9. ASSUME NEW s \in slotNodes, NEW v \in playerNodes, IsEdge(s, v)
        PROVE  IF <<s, v>> \in F THEN pi[s] <= pi[v] + Points(v) ELSE pi[v] <= pi[s] - Points(v)
    <2>1. Cost(s, v) = -Points(v) /\ Cost(v, s) = Points(v)
      BY CostType
    <2>2. IF <<s, v>> \in F THEN OpenIn(F, v, s) ELSE OpenIn(F, s, v)
      BY <1>9 DEF OpenIn
    <2>3. s \in Nodes /\ v \in Nodes /\ pi[s] \in Int /\ pi[v] \in Int /\ Points(v) \in Int
      BY <1>4, <1>6
    <2>4. QED
      BY <1>7, <2>1, <2>2, <2>3
  <1>10. ASSUME NEW v \in playerNodes
         PROVE  IF <<v, sink>> \in F THEN pi[v] <= pi[sink] ELSE pi[sink] <= pi[v]
    <2>1. Cost(v, sink) = 0 /\ Cost(sink, v) = 0
      BY <1>6, CostType
    <2>2. IsEdge(v, sink)
      BY DEF IsEdge
    <2>3. IF <<v, sink>> \in F THEN OpenIn(F, sink, v) ELSE OpenIn(F, v, sink)
      BY <2>2 DEF OpenIn
    <2>4. v \in Nodes /\ pi[v] \in Int
      BY <1>4, <1>6
    <2>5. QED
      BY <1>4, <1>6, <1>7, <2>1, <2>3, <2>4
  <1>11. ASSUME NEW s \in A
         PROVE  c[s] = pi[source] - pi[M[s]] - Points(M[s]) /\ c[s] <= pi[source] - pi[s] /\ c[s] <= 0
                /\ c[s] \in Int
    <2>1. M[s] \in playerNodes /\ <<s, M[s]>> \in F /\ s \in slotNodes
      BY <1>1, <1>2
    <2>2. IsEdge(s, M[s])
      BY <2>1 DEF IsFlow, OnEdges
    <2>3. c[s] = pi[source] - pi[M[s]] - Points(M[s])
      BY <1>3 DEF SlotPart
    <2> HIDE DEF c, M
    <2>4. pi[s] <= pi[M[s]] + Points(M[s]) /\ pi[source] <= pi[s]
      BY <1>8, <1>9, <2>1, <2>2
    <2>5. pi[s] \in Int /\ pi[M[s]] \in Int /\ Points(M[s]) \in Int
      BY <1>4, <2>1
    <2>6. QED
      BY <1>4, <2>3, <2>4, <2>5
  <1>12. ASSUME NEW s \in S
         PROVE  /\ d[s] = pi[source] - pi[f[s]] - Points(f[s]) /\ d[s] \in Int
                /\ (s \in A /\ M[s] = f[s]) \/ pi[source] - pi[s] <= d[s]
    <2>1. f[s] \in playerNodes /\ s \in slotNodes /\ IsEdge(s, f[s])
      BY <1>2, <1>3, <1>5
    <2>2. d[s] = pi[source] - pi[f[s]] - Points(f[s])
      BY <1>3 DEF SlotPart
    <2>3. <<s, f[s]>> \in F => s \in A /\ M[s] = f[s]
      BY <1>1, <2>1
    <2> HIDE DEF d, M, A
    <2>4. <<s, f[s]>> \notin F => pi[f[s]] <= pi[s] - Points(f[s])
      BY <1>9, <2>1
    <2>5. pi[s] \in Int /\ pi[f[s]] \in Int /\ Points(f[s]) \in Int
      BY <1>4, <2>1
    <2>6. QED
      BY <1>4, <2>2, <2>3, <2>4, <2>5
  <1> HIDE DEF c, d, M, A
  <1>13. SumOver(c, A) <= SumOver(d, S)
    <2>1. Ints(c, A) /\ Ints(d, S)
      BY <1>11, <1>12 DEF Ints
    <2>2. ASSUME NEW s \in A \cap S
          PROVE  c[s] <= d[s]
      <3>1. CASE M[s] = f[s]
        <4>1. c[s] = d[s]
          BY <1>11, <1>12, <3>1
        <4>2. QED
          BY <1>11, <4>1
      <3>2. CASE M[s] # f[s]
        <4>1. c[s] <= pi[source] - pi[s] /\ pi[source] - pi[s] <= d[s]
          BY <1>11, <1>12, <3>2
        <4>2. c[s] \in Int /\ d[s] \in Int /\ pi[source] \in Int /\ pi[s] \in Int
          BY <1>2, <1>4, <1>11, <1>12
        <4>3. QED
          BY <4>1, <4>2
      <3>3. QED
        BY <3>1, <3>2
    <2>3. \A s \in A \ S : c[s] <= 0
      BY <1>11
    <2>4. ASSUME NEW s \in S \ A
          PROVE  0 <= d[s]
      <3>1. pi[source] - pi[s] <= d[s] /\ pi[s] <= pi[source]
        BY <1>2, <1>8, <1>12
      <3>2. d[s] \in Int /\ pi[source] \in Int /\ pi[s] \in Int
        BY <1>2, <1>4, <1>12
      <3>3. QED
        BY <3>1, <3>2
    <2>5. QED
      BY <1>3, <2>1, <2>2, <2>3, <2>4, SumCompare
  <1>14. /\ IsFiniteSet(Image(M)) /\ Image(M) \subseteq playerNodes /\ Ints(t, Image(M))
         /\ IsFiniteSet(Image(f)) /\ Image(f) \subseteq playerNodes /\ Ints(t, Image(f))
    BY <1>1, WorthInParts
  <1>15. ASSUME NEW v \in playerNodes
         PROVE  t[v] \in Int /\ (<<v, sink>> \in F => t[v] <= 0) /\ (<<v, sink>> \notin F => 0 <= t[v])
    <2>1. t[v] = pi[v] - pi[sink] /\ pi[v] \in Int /\ pi[sink] \in Int
      BY <1>4 DEF PlayerPart
    <2> HIDE DEF t
    <2>2. QED
      BY <1>10, <2>1
  <1>16. ASSUME NEW v \in playerNodes
         PROVE  v \in Image(M) <=> <<v, sink>> \in F
    <2>1. <<v, sink>> \in F <=> \E s \in slotNodes : <<s, v>> \in F
      BY DEF IsFlow, Conserved
    <2>2. v \in Image(M) <=> \E s \in A : M[s] = v
      BY <1>3 DEF Image
    <2>3. QED
      BY <1>1, <1>2, <2>1, <2>2
  <1>17. SumOver(t, Image(M)) <= SumOver(t, Image(f))
    <2> HIDE DEF t
    <2>1. ASSUME NEW v \in Image(M) \cap Image(f)
          PROVE  t[v] <= t[v]
      <3>1. t[v] \in Int
        BY <1>14, <1>15
      <3>2. QED
        BY <3>1
    <2>2. \A v \in Image(M) \ Image(f) : t[v] <= 0
      BY <1>14, <1>15, <1>16
    <2>3. \A v \in Image(f) \ Image(M) : 0 <= t[v]
      BY <1>14, <1>15, <1>16
    <2>4. QED
      BY <1>14, <2>1, <2>2, <2>3, SumCompare
  <1>18. /\ SumOver(c, A) \in Int /\ SumOver(d, S) \in Int
         /\ SumOver(t, Image(M)) \in Int /\ SumOver(t, Image(f)) \in Int
    <2>1. Ints(c, A) /\ Ints(d, S)
      BY <1>11, <1>12 DEF Ints
    <2> HIDE DEF t
    <2>2. QED
      BY <1>3, <1>14, <2>1, SumType
  <1>19. (pi[source] - pi[sink]) * Cardinality(A) - Worth(M) = SumOver(c, A) + SumOver(t, Image(M))
    BY <1>1, WorthInParts DEF c
  <1>20. (pi[source] - pi[sink]) * Cardinality(S) - Worth(f) = SumOver(d, S) + SumOver(t, Image(f))
    BY WorthInParts DEF d
  <1>21. (pi[source] - pi[sink]) * Cardinality(A) - Worth(M)
            <= (pi[source] - pi[sink]) * Cardinality(S) - Worth(f)
    <2> HIDE DEF t
    <2>1. QED
      BY <1>13, <1>17, <1>18, <1>19, <1>20
  <1>22. QED
    BY <1>21 DEF A, M

(* So no lineup of as many players is worth more. *)
LEMMA FlowIsBest ==
    ASSUME Problem, NEW F, IsFlow(F), NEW pi, Potential(F, pi), NEW f, NEW S, IsMatching(f, S),
           Cardinality(S) = Cardinality(Filled(F))
    PROVE  Worth(f) <= Worth(Assigned(F))
  <1> DEFINE x == (pi[source] - pi[sink]) * Cardinality(S)
  <1>1. x - Worth(Assigned(F)) <= x - Worth(f)
    BY FlowPaysLeast
  <1>2. x \in Int
    <2>1. pi[source] - pi[sink] \in Int
      BY PotentialType
    <2>2. Cardinality(S) \in Int
      BY WorthIsSum, FS_CardinalityType
    <2>3. QED
      BY <2>1, <2>2
  <1>3. Worth(f) \in Int /\ Worth(Assigned(F)) \in Int
    BY AssignedTo, WorthIsSum
  <1> HIDE DEF x
  <1>4. QED
    BY <1>1, <1>2, <1>3

(* A unit sent at the difference of two flows' potentials is what their    *)
(* lineups differ by.                                                      *)
LEMMA WorthOfUnit ==
    ASSUME Problem, NEW F, IsFlow(F), NEW G, IsFlow(G), NEW pi, Potential(F, pi), Potential(G, pi),
           Cardinality(Filled(G)) = Cardinality(Filled(F)) + 1
    PROVE  Worth(Assigned(G)) = Worth(Assigned(F)) + pi[source] - pi[sink]
  <1> DEFINE D == pi[source] - pi[sink]
             k == Cardinality(Filled(F))
             x == Worth(Assigned(F))
             y == Worth(Assigned(G))
  <1>1. IsMatching(Assigned(F), Filled(F)) /\ IsMatching(Assigned(G), Filled(G))
    BY AssignedTo
  <1>2. D * k - x <= D * (k + 1) - y /\ D * (k + 1) - y <= D * k - x
    BY <1>1, FlowPaysLeast
  <1>3. x \in Int /\ y \in Int /\ D \in Int /\ k \in Int /\ pi[source] \in Int /\ pi[sink] \in Int
    BY <1>1, WorthIsSum, PotentialType, FlowFills
  <1> HIDE DEF D, k, x, y
  <1>4. D * (k + 1) = D * k + D /\ D * k \in Int
    BY <1>3
  <1>5. y = x + D
    BY <1>2, <1>3, <1>4
  <1>6. QED
    BY <1>3, <1>5 DEF D, x, y

-----------------------------------------------------------------------------
(* One search.  d and p label the nodes, q is the queue. *)

ReachedIn(d) == {v \in Nodes : d[v] # Infinity}

Labels(F, d, p) ==
    /\ d \in [Nodes -> Int \cup {Infinity}]
    /\ p \in [Nodes -> Nodes \cup {-1}]
    /\ d[source] = 0 /\ p[source] = -1
    /\ \A v \in Nodes \ {source} : d[v] # Infinity <=> p[v] # -1
    /\ \A v \in Nodes : p[v] # -1 => /\ p[v] \in ReachedIn(d)
                                     /\ OpenIn(F, p[v], v)
                                     /\ d[p[v]] + Cost(p[v], v) <= d[v]

(* A node off the queue has nothing left to relax. *)
Settled(F, d, q) ==
    \A u \in ReachedIn(d) \ ToSet(q), v \in Nodes :
        OpenIn(F, u, v) => v \in ReachedIn(d) /\ d[v] <= d[u] + Cost(u, v)

NotBelow(d, pi) == \A v \in ReachedIn(d) : pi[v] - pi[source] <= d[v]

(* Every way back ends at the source. *)
Acyclic(d, p) == \A C \in SUBSET (ReachedIn(d) \ {source}) : C = {} \/ \E v \in C : p[v] \notin C

Search(F, d, p, q, pi) ==
    /\ Potential(F, pi)
    /\ Labels(F, d, p)
    /\ q \in Seq(ReachedIn(d))
    /\ Settled(F, d, q)
    /\ NotBelow(d, pi)
    /\ Acyclic(d, p)

InSearch(pi) == Search(used, dist, prev, queue, pi)

(* A round starts with a search, whatever potentials the flow has.         *)
LEMMA SearchStarts ==
    ASSUME Problem, NEW F, NEW pi, Potential(F, pi)
    PROVE  Search(F, [v \in Nodes |-> IF v = source THEN 0 ELSE Infinity],
                  [v \in Nodes |-> -1], <<source>>, pi)
  <1> DEFINE d == [v \in Nodes |-> IF v = source THEN 0 ELSE Infinity]
             p == [v \in Nodes |-> -1]
             q == <<source>>
  <1>1. source \in Nodes /\ Infinity # 0 /\ pi[source] \in Int
    BY Numbering, SolverAssumption, PotentialType
  <1>2. ReachedIn(d) = {source}
    BY <1>1 DEF ReachedIn
  <1>3. /\ d \in [Nodes -> Int \cup {Infinity}] /\ p \in [Nodes -> Nodes \cup {-1}]
        /\ d[source] = 0 /\ \A v \in Nodes : p[v] = -1
        /\ \A v \in Nodes \ {source} : d[v] = Infinity
    BY <1>1
  <1>4. q \in Seq({source}) /\ ToSet(q) = {source}
    BY DEF ToSet
  <1> HIDE DEF d, p, q
  <1>5. Labels(F, d, p)
    BY <1>1, <1>3 DEF Labels
  <1>6. Settled(F, d, q) /\ NotBelow(d, pi) /\ Acyclic(d, p)
    BY <1>1, <1>2, <1>3, <1>4 DEF Settled, NotBelow, Acyclic
  <1>7. Search(F, d, p, q, pi)
    BY <1>2, <1>4, <1>5, <1>6 DEF Search
  <1>8. QED
    BY <1>7 DEF d, p, q

(* The nodes of the adjacency list, each once. *)
LEMMA AdjList ==
    ASSUME Problem, NEW S \in SUBSET Nodes
    PROVE  InAdjOrder(S) \in Seq(S) /\ ToSet(InAdjOrder(S)) = S
  <1> DEFINE B == [v \in S |-> {w \in S : w # v /\ (w = sink \/ (v # sink /\ w < v))}]
             s == InAdjOrder(S)
             n == Cardinality(S)
  <1>1. IsFiniteSet(S) /\ \A v \in S : v \in Int
    BY Numbering, FS_Subset
  <1>2. n \in Nat
    BY <1>1, FS_CardinalityType
  <1>3. IsOrder(S, B)
    <2>1. \A v \in S : B[v] = {w \in S : w # v /\ (w = sink \/ (v # sink /\ w < v))}
      OBVIOUS
    <2>2. B \in [S -> SUBSET S]
      OBVIOUS
    <2> HIDE DEF B
    <2>3. \A v \in S : v \notin B[v]
      BY <2>1
    <2>4. \A v, w \in S : v = w \/ v \in B[w] \/ w \in B[v]
      BY <1>1, <2>1
    <2>5. ASSUME NEW v \in S, NEW w \in S, w \in B[v]
          PROVE  B[w] \subseteq B[v]
      <3>1. ASSUME NEW x \in B[w]
            PROVE  x \in B[v]
        <4>1. x \in S /\ x # w /\ (x = sink \/ (w # sink /\ x < w))
          BY <2>1
        <4>2. w # v /\ (w = sink \/ (v # sink /\ w < v))
          BY <2>1, <2>5
        <4>3. v \in Int /\ w \in Int /\ x \in Int
          BY <1>1, <4>1
        <4>4. x # v /\ (x = sink \/ (v # sink /\ x < v))
          BY <4>1, <4>2, <4>3
        <4>5. QED
          BY <2>1, <4>1, <4>4
      <3>2. QED
        BY <3>1
    <2>6. QED
      BY <2>2, <2>3, <2>4, <2>5 DEF IsOrder
  <1>4. s = [i \in 1 .. n |-> CHOOSE v \in S :
               Cardinality({w \in S : w # v /\ (w = sink \/ (v # sink /\ w < v))}) = i - 1]
    BY Zenon DEF InAdjOrder, InOrder
  <1>5. \A v \in S : B[v] = {w \in S : w # v /\ (w = sink \/ (v # sink /\ w < v))}
    OBVIOUS
  <1> HIDE DEF B, s
  <1>6. ASSUME NEW i \in 1 .. n
        PROVE  s[i] \in S /\ Cardinality(B[s[i]]) = i - 1
    <2>1. \E v \in S : Cardinality(B[v]) = i - 1
      BY <1>1, <1>3, EveryRankIsTaken
    <2>2. \E v \in S : Cardinality({w \in S : w # v /\ (w = sink \/ (v # sink /\ w < v))}) = i - 1
      BY <1>5, <2>1
    <2>3. s[i] = CHOOSE v \in S :
                    Cardinality({w \in S : w # v /\ (w = sink \/ (v # sink /\ w < v))}) = i - 1
      BY <1>4
    <2>4. QED
      BY <1>5, <2>2, <2>3
  <1>7. s \in [1 .. n -> S]
    <2>1. \A i \in 1 .. n : (CHOOSE v \in S :
             Cardinality({w \in S : w # v /\ (w = sink \/ (v # sink /\ w < v))}) = i - 1) \in S
      BY <1>4, <1>6
    <2>2. QED
      BY <1>4, <2>1
  <1>8. ListsByRank(s, S, B)
    BY <1>6, <1>7 DEF ListsByRank
  <1>9. \A v \in S : \E i \in 1 .. n : s[i] = v
    BY <1>1, <1>3, <1>8, ListedAtItsRank
  <1>10. s \in Seq(S) /\ DOMAIN s = 1 .. n
    BY <1>2, <1>7
  <1>11. ToSet(s) = S
    BY <1>6, <1>9, <1>10 DEF ToSet
  <1>12. QED
    BY <1>10, <1>11 DEF s

(* What a concatenation is a sequence of, and what is in it.               *)
LEMMA InBoth ==
    ASSUME NEW S, NEW s \in Seq(S), NEW t \in Seq(S)
    PROVE  s \o t \in Seq(S) /\ ToSet(s \o t) = ToSet(s) \cup ToSet(t)
  <1>1. s \o t \in Seq(S) /\ Len(s \o t) = Len(s) + Len(t) /\ Len(s) \in Nat /\ Len(t) \in Nat
    OBVIOUS
  <1>2. /\ DOMAIN s = 1 .. Len(s) /\ DOMAIN t = 1 .. Len(t) /\ DOMAIN (s \o t) = 1 .. Len(s) + Len(t)
    OBVIOUS
  <1>3. \A i \in 1 .. Len(s) + Len(t) : (s \o t)[i] = IF i <= Len(s) THEN s[i] ELSE t[i - Len(s)]
    OBVIOUS
  <1>4. ASSUME NEW x \in ToSet(s \o t)
        PROVE  x \in ToSet(s) \cup ToSet(t)
    <2>1. PICK i \in 1 .. Len(s) + Len(t) : x = (s \o t)[i]
      BY <1>2 DEF ToSet
    <2>2. CASE i <= Len(s)
      BY <1>1, <1>2, <1>3, <2>1, <2>2 DEF ToSet
    <2>3. CASE ~(i <= Len(s))
      <3>1. i - Len(s) \in 1 .. Len(t) /\ x = t[i - Len(s)]
        BY <1>1, <1>3, <2>1, <2>3
      <3>2. QED
        BY <1>2, <3>1 DEF ToSet
    <2>4. QED
      BY <2>2, <2>3
  <1>5. ASSUME NEW x \in ToSet(s)
        PROVE  x \in ToSet(s \o t)
    <2>1. PICK i \in 1 .. Len(s) : x = s[i]
      BY <1>2 DEF ToSet
    <2>2. i \in 1 .. Len(s) + Len(t) /\ (s \o t)[i] = x
      BY <1>1, <1>3, <2>1
    <2>3. QED
      BY <1>2, <2>2 DEF ToSet
  <1>6. ASSUME NEW x \in ToSet(t)
        PROVE  x \in ToSet(s \o t)
    <2>1. PICK i \in 1 .. Len(t) : x = t[i]
      BY <1>2 DEF ToSet
    <2> DEFINE j == Len(s) + i
    <2>2. j \in 1 .. Len(s) + Len(t) /\ ~(j <= Len(s)) /\ j - Len(s) = i
      BY <1>1, <2>1
    <2> HIDE DEF j
    <2>3. (s \o t)[j] = x
      BY <1>3, <2>1, <2>2
    <2>4. QED
      BY <1>2, <2>2, <2>3 DEF ToSet
  <1>7. QED
    BY <1>1, <1>4, <1>5, <1>6

(* What is in a sequence that is not empty.                                *)
LEMMA HeadAndTail ==
    ASSUME NEW S, NEW s \in Seq(S), s # <<>>
    PROVE  /\ Head(s) \in S /\ Tail(s) \in Seq(S)
           /\ ToSet(s) = {Head(s)} \cup ToSet(Tail(s))
  <1>1. /\ Head(s) = s[1] /\ Tail(s) \in Seq(S) /\ Len(s) \in Nat /\ Len(s) > 0
        /\ Len(Tail(s)) = Len(s) - 1
    OBVIOUS
  <1>2. DOMAIN s = 1 .. Len(s) /\ DOMAIN Tail(s) = 1 .. Len(s) - 1
    BY <1>1
  <1>3. \A i \in 1 .. Len(s) - 1 : Tail(s)[i] = s[i + 1]
    BY <1>1
  <1>4. ASSUME NEW x \in ToSet(s)
        PROVE  x = Head(s) \/ x \in ToSet(Tail(s))
    <2>1. PICK i \in 1 .. Len(s) : x = s[i]
      BY <1>2 DEF ToSet
    <2>2. CASE i = 1
      BY <1>1, <2>1, <2>2
    <2>3. CASE i # 1
      <3> DEFINE j == i - 1
      <3>1. j \in 1 .. Len(s) - 1 /\ j + 1 = i
        BY <1>1, <2>1, <2>3
      <3> HIDE DEF j
      <3>2. Tail(s)[j] = x
        BY <1>3, <2>1, <3>1
      <3>3. QED
        BY <1>2, <3>1, <3>2 DEF ToSet
    <2>4. QED
      BY <2>2, <2>3
  <1>5. Head(s) \in ToSet(s) /\ Head(s) \in S
    BY <1>1, <1>2 DEF ToSet
  <1>6. ASSUME NEW x \in ToSet(Tail(s))
        PROVE  x \in ToSet(s)
    <2>1. PICK i \in 1 .. Len(s) - 1 : x = Tail(s)[i]
      BY <1>2 DEF ToSet
    <2> DEFINE j == i + 1
    <2>2. j \in 1 .. Len(s) /\ s[j] = x
      BY <1>1, <1>3, <2>1
    <2> HIDE DEF j
    <2>3. QED
      BY <1>2, <2>2 DEF ToSet
  <1>7. QED
    BY <1>1, <1>4, <1>5, <1>6

Improved == {v \in Nodes : Improves(Head(queue), v)}

(* What a step of the search changes, and whom it improves.                *)
LEMMA Relaxing ==
    ASSUME Problem, NEW pi, InSearch(pi), Relax
    PROVE  LET u == Head(queue)
           IN  /\ u \in ReachedIn(dist) /\ u \in Nodes
               /\ ToSet(queue) = {u} \cup ToSet(Tail(queue))
               /\ source \notin Improved /\ u \notin Improved
               /\ \A v \in Nodes :
                     v \in Improved <=> /\ OpenIn(used, u, v)
                                        /\ v \in ReachedIn(dist) => dist[u] + Cost(u, v) < dist[v]
               /\ dist' = [v \in Nodes |-> IF v \in Improved THEN dist[u] + Cost(u, v) ELSE dist[v]]
               /\ prev' = [v \in Nodes |-> IF v \in Improved THEN u ELSE prev[v]]
               /\ queue' = Tail(queue) \o InAdjOrder(Improved \ ToSet(Tail(queue)))
               /\ in' = in /\ used' = used /\ cost' = cost /\ total' = total
  <1> DEFINE u == Head(queue)
  <1>1. queue \in Seq(ReachedIn(dist)) /\ queue # <<>>
    BY DEF InSearch, Search, Relax
  <1>2. u \in ReachedIn(dist) /\ ToSet(queue) = {u} \cup ToSet(Tail(queue))
    BY <1>1, HeadAndTail
  <1>3. u \in Nodes
    BY <1>2 DEF ReachedIn
  <1>4. \A v \in Nodes :
          v \in Improved <=> /\ OpenIn(used, u, v)
                             /\ v \in ReachedIn(dist) => dist[u] + Cost(u, v) < dist[v]
    BY DEF Improved, Improves, Open, OpenIn, Reached, ReachedIn
  <1>5. /\ dist' = [v \in Nodes |-> IF v \in Improved THEN dist[u] + Cost(u, v) ELSE dist[v]]
        /\ prev' = [v \in Nodes |-> IF v \in Improved THEN u ELSE prev[v]]
        /\ queue' = Tail(queue) \o InAdjOrder(Improved \ ToSet(Tail(queue)))
        /\ in' = in /\ used' = used /\ cost' = cost /\ total' = total
    BY DEF Relax, Improved
  <1> HIDE DEF u
  <1>6. Labels(used, dist, prev) /\ Potential(used, pi) /\ NotBelow(dist, pi)
    BY DEF InSearch, Search
  <1>7. dist[source] = 0 /\ source \in Nodes /\ source \in ReachedIn(dist)
    BY <1>6, SolverAssumption, Numbering DEF Labels, ReachedIn
  <1>8. dist[u] \in Int /\ pi[u] \in Int /\ pi[source] \in Int /\ pi[u] - pi[source] <= dist[u]
    BY <1>2, <1>3, <1>6, <1>7 DEF Labels, ReachedIn, Potential, NotBelow
  <1>9. u \notin Improved
    <2>1. Cost(u, u) = 0
      BY CostType, Numbering
    <2>2. ~(dist[u] + Cost(u, u) < dist[u])
      BY <1>8, <2>1
    <2>3. QED
      BY <1>2, <1>3, <1>4, <2>2
  <1>10. source \notin Improved
    <2>1. SUFFICES ASSUME OpenIn(used, u, source)
                   PROVE  ~(dist[u] + Cost(u, source) < dist[source])
      BY <1>4, <1>7
    <2>2. pi[source] <= pi[u] + Cost(u, source)
      BY <1>3, <1>6, <1>7, <2>1 DEF Potential
    <2>3. Cost(u, source) \in Int
      BY CostType
    <2>4. QED
      BY <1>7, <1>8, <2>2, <2>3
  <1>11. QED
    BY <1>2, <1>3, <1>4, <1>5, <1>9, <1>10 DEF u

(* A search stays one as a node is relaxed. *)
LEMMA RelaxKeepsSearch ==
    ASSUME Problem, NEW pi, InSearch(pi), Relax
    PROVE  Search(used, dist', prev', queue', pi)
  <1> DEFINE u == Head(queue)
             R == ReachedIn(dist)
             S == ReachedIn(dist')
  <1>1. /\ u \in R /\ u \in Nodes
        /\ ToSet(queue) = {u} \cup ToSet(Tail(queue))
        /\ source \notin Improved /\ u \notin Improved
        /\ \A v \in Nodes :
              v \in Improved <=> /\ OpenIn(used, u, v)
                                 /\ v \in R => dist[u] + Cost(u, v) < dist[v]
        /\ dist' = [v \in Nodes |-> IF v \in Improved THEN dist[u] + Cost(u, v) ELSE dist[v]]
        /\ prev' = [v \in Nodes |-> IF v \in Improved THEN u ELSE prev[v]]
        /\ queue' = Tail(queue) \o InAdjOrder(Improved \ ToSet(Tail(queue)))
    BY Relaxing
  <1>2. /\ Labels(used, dist, prev) /\ Potential(used, pi) /\ NotBelow(dist, pi)
        /\ Settled(used, dist, queue) /\ Acyclic(dist, prev) /\ queue \in Seq(R) /\ queue # <<>>
    BY DEF InSearch, Search, Relax
  <1> HIDE DEF u
  <1>3. source \in Nodes /\ Improved \subseteq Nodes /\ R \subseteq Nodes
    BY Numbering DEF Improved, ReachedIn
  <1>4. \A v \in Nodes : /\ v \in R <=> dist[v] # Infinity
                         /\ v \in S <=> dist'[v] # Infinity
    BY DEF ReachedIn
  <1>5. \A v \in Nodes : v \in R => dist[v] \in Int
    BY <1>2, <1>4 DEF Labels
  <1>6. \A v, w \in Nodes : Cost(v, w) \in Int
    BY CostType
  <1>7. /\ \A v \in Improved : dist'[v] = dist[u] + Cost(u, v) /\ prev'[v] = u /\ dist'[v] \in Int
        /\ \A v \in Nodes \ Improved : dist'[v] = dist[v] /\ prev'[v] = prev[v]
    BY <1>1, <1>3, <1>5, <1>6
  <1>8. S = R \cup Improved
    <2>1. \A v \in Nodes : v \in S <=> v \in R \cup Improved
      BY <1>3, <1>4, <1>7, SolverAssumption
    <2>2. S \subseteq Nodes
      BY DEF ReachedIn
    <2>3. QED
      BY <1>3, <2>1, <2>2
  <1> HIDE DEF R, S
  <1>9. ASSUME NEW v \in R
        PROVE  dist'[v] <= dist[v] /\ dist'[v] \in Int /\ dist[v] \in Int /\ v \in Nodes
    <2>1. v \in Nodes /\ dist[v] \in Int
      BY <1>3, <1>5
    <2>2. CASE v \in Improved
      <3>1. dist[u] + Cost(u, v) < dist[v]
        BY <1>1, <2>1, <2>2
      <3>2. dist'[v] = dist[u] + Cost(u, v) /\ dist'[v] \in Int
        BY <1>7, <2>2
      <3>3. QED
        BY <2>1, <3>1, <3>2
    <2>3. CASE v \notin Improved
      <3>1. dist'[v] = dist[v]
        BY <1>7, <2>1, <2>3
      <3>2. QED
        BY <2>1, <3>1
    <2>4. QED
      BY <2>2, <2>3
  <1>10. /\ dist' \in [Nodes -> Int \cup {Infinity}]
         /\ prev' \in [Nodes -> Nodes \cup {-1}]
    <2>1. \A v \in Nodes : dist'[v] \in Int \cup {Infinity} /\ prev'[v] \in Nodes \cup {-1}
      BY <1>1, <1>2, <1>7 DEF Labels
    <2>2. DOMAIN dist' = Nodes /\ DOMAIN prev' = Nodes
      BY <1>1
    <2>3. dist' = [v \in Nodes |-> dist'[v]] /\ prev' = [v \in Nodes |-> prev'[v]]
      BY <1>1, <2>2
    <2>4. QED
      BY <2>1, <2>3
  <1>11. /\ queue' \in Seq(S)
         /\ ToSet(queue') = ToSet(Tail(queue)) \cup Improved
    <2> DEFINE new == Improved \ ToSet(Tail(queue))
    <2>1. Tail(queue) \in Seq(R) /\ ToSet(Tail(queue)) \cup new = ToSet(Tail(queue)) \cup Improved
      BY <1>2, HeadAndTail
    <2>2. new \in SUBSET Nodes /\ new \subseteq S
      BY <1>3, <1>8
    <2> HIDE DEF new
    <2>3. InAdjOrder(new) \in Seq(new) /\ ToSet(InAdjOrder(new)) = new
      BY <2>2, AdjList
    <2>4. Tail(queue) \in Seq(S) /\ InAdjOrder(new) \in Seq(S)
      BY <1>8, <2>1, <2>2, <2>3
    <2>5. queue' = Tail(queue) \o InAdjOrder(new)
      BY <1>1 DEF new
    <2>6. /\ Tail(queue) \o InAdjOrder(new) \in Seq(S)
          /\ ToSet(Tail(queue) \o InAdjOrder(new)) = ToSet(Tail(queue)) \cup ToSet(InAdjOrder(new))
      <3> DEFINE s == Tail(queue)
                 t == InAdjOrder(new)
      <3>1. s \in Seq(S) /\ t \in Seq(S)
        BY <2>4
      <3> HIDE DEF s, t
      <3>2. s \o t \in Seq(S) /\ ToSet(s \o t) = ToSet(s) \cup ToSet(t)
        BY <3>1, InBoth
      <3>3. QED
        BY <3>2 DEF s, t
    <2>7. ToSet(queue') = ToSet(Tail(queue)) \cup new
      BY <2>3, <2>5, <2>6
    <2>8. QED
      BY <2>1, <2>5, <2>6, <2>7
  <1>12. Labels(used, dist', prev')
    <2>1. dist'[source] = 0 /\ prev'[source] = -1
      BY <1>1, <1>2, <1>3, <1>7 DEF Labels
    <2>2. \A v \in Nodes \ {source} : dist'[v] # Infinity <=> prev'[v] # -1
      <3>1. u # -1
        BY <1>1, Numbering
      <3>2. QED
        BY <1>2, <1>7, <3>1, SolverAssumption DEF Labels
    <2>3. ASSUME NEW v \in Nodes, prev'[v] # -1
          PROVE  /\ prev'[v] \in S
                 /\ OpenIn(used, prev'[v], v)
                 /\ dist'[prev'[v]] + Cost(prev'[v], v) <= dist'[v]
      <3>1. CASE v \in Improved
        <4>1. prev'[v] = u /\ dist'[u] = dist[u] /\ dist'[v] = dist[u] + Cost(u, v) /\ dist'[v] \in Int
          BY <1>1, <1>7, <3>1
        <4>2. QED
          BY <1>1, <1>8, <3>1, <4>1
      <3>2. CASE v \notin Improved
        <4> DEFINE w == prev[v]
        <4>1. prev'[v] = w /\ w # -1 /\ dist'[v] = dist[v]
          BY <1>7, <2>3, <3>2
        <4>2. w \in R /\ OpenIn(used, w, v) /\ dist[w] + Cost(w, v) <= dist[v]
          BY <1>2, <4>1 DEF Labels, R
        <4>3. v \in R
          BY <1>2, <1>4, <4>1 DEF Labels
        <4> HIDE DEF w
        <4>4. dist'[w] <= dist[w] /\ dist'[w] \in Int /\ dist[w] \in Int /\ dist[v] \in Int
          BY <1>9, <4>2, <4>3
        <4>5. Cost(w, v) \in Int
          BY <1>6, <1>9, <4>2
        <4>6. dist'[w] + Cost(w, v) <= dist'[v]
          BY <4>1, <4>2, <4>4, <4>5
        <4>7. QED
          BY <1>8, <4>1, <4>2, <4>6
      <3>3. QED
        BY <3>1, <3>2
    <2>4. QED
      BY <1>10, <2>1, <2>2, <2>3 DEF Labels, S
  <1>13. Settled(used, dist', queue')
    <2>1. ASSUME NEW w \in S \ ToSet(queue'), NEW v \in Nodes, OpenIn(used, w, v)
          PROVE  v \in S /\ dist'[v] <= dist'[w] + Cost(w, v)
      <3>1. w \notin Improved /\ w \in R /\ dist'[w] = dist[w] /\ dist[w] \in Int /\ w \in Nodes
        BY <1>3, <1>5, <1>7, <1>8, <1>11
      <3>2. Cost(w, v) \in Int
        BY <1>6, <3>1
      <3>3. v \in R \/ v \in Improved
        <4>1. CASE w = u
          BY <1>1, <2>1, <4>1
        <4>2. CASE w # u
          <5>1. w \notin ToSet(queue)
            BY <1>1, <1>11, <4>2
          <5>2. QED
            BY <1>2, <2>1, <3>1, <5>1 DEF Settled, R
        <4>3. QED
          BY <4>1, <4>2
      <3>4. CASE w = u
        <4>1. CASE v \in Improved
          <5>1. dist'[v] = dist[w] + Cost(w, v)
            BY <1>7, <3>4, <4>1
          <5>2. QED
            BY <1>8, <3>1, <3>2, <4>1, <5>1
        <4>2. CASE v \notin Improved
          <5>1. v \in R /\ ~(dist[w] + Cost(w, v) < dist[v])
            BY <1>1, <2>1, <3>3, <3>4, <4>2
          <5>2. dist'[v] = dist[v] /\ dist[v] \in Int
            BY <1>5, <1>7, <4>2, <5>1
          <5>3. QED
            BY <1>8, <3>1, <3>2, <5>1, <5>2
        <4>3. QED
          BY <4>1, <4>2
      <3>5. CASE w # u
        <4>1. w \notin ToSet(queue)
          BY <1>1, <1>11, <3>5
        <4>2. v \in R /\ dist[v] <= dist[w] + Cost(w, v)
          BY <1>2, <2>1, <3>1, <4>1 DEF Settled, R
        <4>3. dist'[v] <= dist[v] /\ dist'[v] \in Int /\ dist[v] \in Int
          BY <1>9, <4>2
        <4>4. QED
          BY <1>8, <3>1, <3>2, <4>2, <4>3
      <3>6. QED
        BY <3>4, <3>5
    <2>2. QED
      BY <2>1 DEF Settled, S
  <1>14. \A v \in Nodes : pi[v] \in Int
    BY <1>2 DEF Potential
  <1>15. pi[u] - pi[source] <= dist[u]
    BY <1>1, <1>2 DEF NotBelow, R
  <1>16. ASSUME NEW v \in Improved
         PROVE  pi[v] - pi[source] <= pi[u] - pi[source] + Cost(u, v)
    <2>1. pi[v] <= pi[u] + Cost(u, v)
      BY <1>1, <1>2, <1>3 DEF Potential
    <2>2. pi[v] \in Int /\ pi[u] \in Int /\ pi[source] \in Int /\ Cost(u, v) \in Int
      BY <1>1, <1>3, <1>6, <1>14
    <2>3. QED
      BY <2>1, <2>2
  <1>17. NotBelow(dist', pi)
    <2>1. ASSUME NEW v \in S
          PROVE  pi[v] - pi[source] <= dist'[v]
      <3>1. v \in Nodes /\ u \in Nodes /\ source \in Nodes
        BY <1>1, <1>3, <1>8
      <3>2. /\ pi[v] \in Int /\ pi[u] \in Int /\ pi[source] \in Int /\ Cost(u, v) \in Int
            /\ dist[u] \in Int
        BY <1>1, <1>5, <1>6, <1>14, <3>1
      <3>3. CASE v \in Improved
        BY <1>7, <1>15, <1>16, <3>2, <3>3
      <3>4. CASE v \notin Improved
        <4>1. v \in R /\ dist'[v] = dist[v]
          BY <1>7, <1>8, <3>1, <3>4
        <4>2. QED
          BY <1>2, <4>1 DEF NotBelow, R
      <3>5. QED
        BY <3>3, <3>4
    <2>2. QED
      BY <2>1 DEF NotBelow, S
  <1>18. Acyclic(dist', prev')
    <2>1. SUFFICES ASSUME NEW C \in SUBSET (S \ {source}), C # {}, \A v \in C : prev'[v] \in C
                   PROVE  FALSE
      BY DEF Acyclic, S
    <2>2. \A B \in SUBSET (R \ {source}) : B = {} \/ \E v \in B : prev[v] \notin B
      BY <1>2 DEF Acyclic, R
    <2>3. PICK x \in C : x \in Improved
      <3>1. SUFFICES ASSUME C \cap Improved = {}
                     PROVE  FALSE
        OBVIOUS
      <3>2. C \in SUBSET (R \ {source})
        BY <1>8, <3>1
      <3>3. \A v \in C : v \in Nodes \ Improved
        BY <1>3, <3>1, <3>2
      <3>4. \A v \in C : prev[v] \in C
        BY <1>7, <2>1, <3>3
      <3>5. QED
        BY <2>1, <2>2, <3>2, <3>4
    <2>4. u \in C
      BY <1>7, <2>1, <2>3
    (* The nodes of C no farther than u, by the labels before the step. *)
    <2> DEFINE B == {v \in C : v \in R /\ dist[v] - pi[v] <= dist[u] - pi[u]}
    <2>5. u \in B
      <3>1. dist[u] - pi[u] \in Int
        BY <1>1, <1>5, <1>14
      <3>2. QED
        BY <1>1, <2>4, <3>1
    <2>6. ASSUME NEW v \in B
          PROVE  v \notin Improved
      <3>1. SUFFICES ASSUME v \in Improved
                     PROVE  FALSE
        OBVIOUS
      <3>2. v \in R /\ v \in Nodes /\ u \in Nodes /\ source \in Nodes /\ dist[v] - pi[v] <= dist[u] - pi[u]
        BY <1>1, <1>3
      <3>3. dist[u] + Cost(u, v) < dist[v]
        BY <1>1, <3>1, <3>2
      <3>4. /\ dist[u] \in Int /\ dist[v] \in Int /\ pi[u] \in Int /\ pi[v] \in Int
            /\ pi[source] \in Int /\ Cost(u, v) \in Int
        BY <1>1, <1>5, <1>6, <1>14, <3>2
      <3>5. pi[v] - pi[source] <= pi[u] - pi[source] + Cost(u, v)
        BY <1>16, <3>1
      <3>6. QED
        BY <3>2, <3>3, <3>4, <3>5
    <2>7. ASSUME NEW v \in B
          PROVE  prev[v] \in B
      <3> DEFINE w == prev[v]
      <3>1. v \in R /\ v \in C /\ v \in Nodes /\ dist[v] - pi[v] <= dist[u] - pi[u]
        BY <1>3
      <3>2. w = prev'[v] /\ w \in C
        BY <1>7, <2>1, <2>6, <3>1
      <3>3. w # -1
        BY <1>8, <1>3, <2>1, <3>2, Numbering
      <3>4. w \in R /\ OpenIn(used, w, v) /\ dist[w] + Cost(w, v) <= dist[v]
        BY <1>2, <3>1, <3>3 DEF Labels, R
      <3> HIDE DEF w
      <3>5. w \in Nodes
        BY <1>3, <3>4
      <3>6. pi[v] <= pi[w] + Cost(w, v)
        BY <1>2, <3>1, <3>4, <3>5 DEF Potential
      <3>7. /\ dist[u] \in Int /\ dist[v] \in Int /\ dist[w] \in Int /\ pi[u] \in Int /\ pi[v] \in Int
            /\ pi[w] \in Int /\ Cost(w, v) \in Int
        BY <1>1, <1>5, <1>6, <1>14, <3>1, <3>4, <3>5
      <3>8. dist[w] - pi[w] <= dist[u] - pi[u]
        BY <3>1, <3>4, <3>6, <3>7
      <3>9. w \in B
        BY <3>2, <3>4, <3>8
      <3>10. QED
        BY <3>9 DEF w
    <2>8. B \in SUBSET (R \ {source})
      BY <2>1
    <2> HIDE DEF B
    <2>9. QED
      BY <2>2, <2>5, <2>7, <2>8
  <1>19. queue' \in Seq(ReachedIn(dist'))
    BY <1>11 DEF S
  <1>20. QED
    BY <1>2, <1>12, <1>13, <1>17, <1>18, <1>19 DEF Search

-----------------------------------------------------------------------------
(* The way back from a node. *)

BackFrom(B) == \A v \in B \ {source} : prev[v] \in B

Way(v) == {w \in ReachedIn(dist) : \A B \in SUBSET ReachedIn(dist) : v \in B /\ BackFrom(B) => w \in B}

WayEdges(v) == {<<prev[w], w>> : w \in Way(v) \ {source}}

(* The node before a reached one was reached, and no later.                *)
LEMMA PrevReached ==
    ASSUME Problem, NEW pi, InSearch(pi)
    PROVE  /\ source \in ReachedIn(dist)
           /\ \A v \in ReachedIn(dist) \ {source} :
                 /\ prev[v] \in ReachedIn(dist) /\ OpenIn(used, prev[v], v)
                 /\ dist[prev[v]] + Cost(prev[v], v) <= dist[v]
           /\ \A v \in ReachedIn(dist) : dist[v] \in Int /\ v \in Nodes
           /\ dist[source] = 0
           /\ \A C \in SUBSET (ReachedIn(dist) \ {source}) : C = {} \/ \E v \in C : prev[v] \notin C
  <1>1. Labels(used, dist, prev) /\ Acyclic(dist, prev)
    BY DEF InSearch, Search
  <1>2. source \in Nodes
    BY Numbering
  <1>3. \A v \in ReachedIn(dist) : v \in Nodes /\ dist[v] # Infinity
    BY DEF ReachedIn
  <1>4. source \in ReachedIn(dist) /\ dist[source] = 0
    BY <1>1, <1>2, SolverAssumption DEF Labels, ReachedIn
  <1>5. QED
    BY <1>1, <1>3, <1>4 DEF Labels, Acyclic

(* The way back is the least set that holds a node and the nodes before;   *)
(* it ends at the source.                                                  *)
LEMMA WayBack ==
    ASSUME Problem, NEW pi, InSearch(pi), NEW v \in ReachedIn(dist)
    PROVE  /\ v \in Way(v) /\ source \in Way(v)
           /\ Way(v) \subseteq ReachedIn(dist)
           /\ BackFrom(Way(v))
           /\ \A B \in SUBSET ReachedIn(dist) : v \in B /\ BackFrom(B) => Way(v) \subseteq B
  <1> DEFINE R == ReachedIn(dist)
  <1>1. Way(v) \subseteq R /\ v \in Way(v)
    BY DEF Way
  <1>2. \A B \in SUBSET R : v \in B /\ BackFrom(B) => Way(v) \subseteq B
    BY DEF Way
  <1>3. \A w \in R \ {source} : prev[w] \in R
    BY PrevReached
  <1>4. ASSUME NEW w \in Way(v) \ {source}
        PROVE  prev[w] \in Way(v)
    <2>1. prev[w] \in R
      BY <1>1, <1>3
    <2>2. ASSUME NEW B \in SUBSET R, v \in B, BackFrom(B)
          PROVE  prev[w] \in B
      BY <1>2, <2>2 DEF BackFrom
    <2>3. QED
      BY <2>1, <2>2 DEF Way
  <1>5. BackFrom(Way(v))
    BY <1>4 DEF BackFrom
  <1>6. source \in Way(v)
    <2>1. SUFFICES ASSUME source \notin Way(v)
                   PROVE  FALSE
      OBVIOUS
    <2>2. Way(v) \in SUBSET (R \ {source}) /\ Way(v) # {} /\ \A w \in Way(v) : prev[w] \in Way(v)
      BY <1>1, <1>4, <2>1
    <2>3. \A C \in SUBSET (R \ {source}) : C = {} \/ \E w \in C : prev[w] \notin C
      BY PrevReached
    <2>4. QED
      BY <2>2, <2>3
  <1>7. QED
    BY <1>1, <1>2, <1>5, <1>6

(* The way back from a node is the node and the way back from the one      *)
(* before.                                                                 *)
LEMMA WayGrows ==
    ASSUME Problem, NEW pi, InSearch(pi)
    PROVE  /\ Way(source) = {source}
           /\ \A v \in ReachedIn(dist) \ {source} : Way(v) = {v} \cup Way(prev[v])
  <1> DEFINE R == ReachedIn(dist)
  <1>1. source \in R /\ \A v \in R \ {source} : prev[v] \in R
    BY PrevReached
  <1>2. Way(source) = {source}
    <2>1. {source} \in SUBSET R /\ BackFrom({source})
      BY <1>1 DEF BackFrom
    <2>2. QED
      BY <1>1, <2>1, WayBack
  <1>3. ASSUME NEW v \in R \ {source}
        PROVE  Way(v) = {v} \cup Way(prev[v])
    <2>1. /\ v \in Way(v) /\ Way(v) \in SUBSET R /\ BackFrom(Way(v))
          /\ \A B \in SUBSET R : v \in B /\ BackFrom(B) => Way(v) \subseteq B
      BY WayBack
    <2>2. prev[v] \in R
      BY <1>1
    <2>3. /\ prev[v] \in Way(prev[v]) /\ Way(prev[v]) \in SUBSET R /\ BackFrom(Way(prev[v]))
          /\ \A B \in SUBSET R : prev[v] \in B /\ BackFrom(B) => Way(prev[v]) \subseteq B
      BY <2>2, WayBack
    <2>4. prev[v] \in Way(v)
      BY <2>1 DEF BackFrom
    <2>5. Way(prev[v]) \subseteq Way(v)
      BY <2>1, <2>3, <2>4
    <2> DEFINE B == {v} \cup Way(prev[v])
    <2>6. B \in SUBSET R /\ v \in B
      BY <2>3
    <2>7. BackFrom(B)
      BY <2>3 DEF BackFrom
    <2> HIDE DEF B
    <2>8. Way(v) \subseteq B
      BY <2>1, <2>6, <2>7
    <2>9. QED
      BY <2>1, <2>5, <2>8 DEF B
  <1>4. QED
    BY <1>2, <1>3

(* The recursive path is the edges of the way back. *)
LEMMA PathIsTheWay ==
    ASSUME Problem, NEW pi, InSearch(pi)
    PROVE  \A v \in ReachedIn(dist) : path[v] = WayEdges(v)
  <1> DEFINE R == ReachedIn(dist)
             h == [v \in R |-> WayEdges(v)]
  <1>1. R = Reached
    BY DEF ReachedIn, Reached
  <1>2. source \in R /\ \A v \in R \ {source} : prev[v] \in R
    BY PrevReached
  <1>3. Way(source) = {source} /\ \A v \in R \ {source} : Way(v) = {v} \cup Way(prev[v])
    BY WayGrows
  <1>4. WayEdges(source) = {}
    BY <1>3 DEF WayEdges
  <1>5. ASSUME NEW v \in R \ {source}
        PROVE  WayEdges(v) = {<<prev[v], v>>} \cup WayEdges(prev[v])
    BY <1>3 DEF WayEdges
  <1>6. \A v \in R : h[v] = WayEdges(v)
    OBVIOUS
  <1>7. \A v \in R : h[v] = IF v = source THEN {} ELSE {<<prev[v], v>>} \cup h[prev[v]]
    BY <1>2, <1>4, <1>5, <1>6
  <1>8. h = [v \in R |-> h[v]]
    OBVIOUS
  <1> HIDE DEF h, R
  <1>9. h = [v \in R |-> IF v = source THEN {} ELSE {<<prev[v], v>>} \cup h[prev[v]]]
    BY <1>7, <1>8
  <1>10. path = CHOOSE f : f = [v \in R |-> IF v = source THEN {} ELSE {<<prev[v], v>>} \cup f[prev[v]]]
    BY <1>1, Zenon DEF path
  <1>11. path = [v \in R |-> IF v = source THEN {} ELSE {<<prev[v], v>>} \cup path[prev[v]]]
    BY <1>9, <1>10, Zenon
  <1>12. \A v \in R : path[v] = IF v = source THEN {} ELSE {<<prev[v], v>>} \cup path[prev[v]]
    BY <1>11, Zenon
  <1> DEFINE C == {v \in R : path[v] # h[v]}
  <1>13. source \notin C
    BY <1>2, <1>7, <1>12
  <1>14. ASSUME NEW v \in C
         PROVE  prev[v] \in C
    <2>1. v \in R \ {source} /\ path[v] # h[v] /\ prev[v] \in R
      BY <1>2, <1>13
    <2>2. /\ path[v] = {<<prev[v], v>>} \cup path[prev[v]]
          /\ h[v] = {<<prev[v], v>>} \cup h[prev[v]]
      BY <1>7, <1>12, <2>1
    <2>3. QED
      BY <2>1, <2>2
  <1>15. C \in SUBSET (R \ {source})
    BY <1>13
  <1>16. \A B \in SUBSET (R \ {source}) : B = {} \/ \E v \in B : prev[v] \notin B
    BY PrevReached DEF R
  <1>17. C = {}
    <2> HIDE DEF C
    <2>1. QED
      BY <1>14, <1>15, <1>16
  <1>18. \A v \in R : path[v] = h[v]
    BY <1>17
  <1>19. QED
    BY <1>6, <1>18 DEF R

(* On a way each node but the last has one successor, and the last none:   *)
(* p takes all of A but s onto all of A but t, of which there are as many. *)
LEMMA OneSuccessor ==
    ASSUME NEW A, IsFiniteSet(A), NEW s \in A, NEW t \in A, NEW p,
           \A v \in A \ {s} : p[v] \in A,
           \A x \in A \ {t} : \E v \in A \ {s} : p[v] = x
    PROVE  /\ \A v \in A \ {s} : p[v] # t
           /\ \A v, w \in A \ {s} : p[v] = p[w] => v = w
  <1> DEFINE S == A \ {s}
             f == [v \in S |-> p[v]]
  <1>1. /\ IsFiniteSet(S) /\ Cardinality(S) = Cardinality(A) - 1
        /\ IsFiniteSet(A \ {t}) /\ Cardinality(A \ {t}) = Cardinality(A) - 1
    BY FS_RemoveElement
  <1>2. Cardinality(A) \in Nat
    BY FS_CardinalityType
  <1>3. \A v \in S : p[v] # t
    <2>1. SUFFICES ASSUME NEW y \in S, p[y] = t
                   PROVE  FALSE
      OBVIOUS
    <2>2. f \in [S -> A] /\ \A x \in A : \E v \in S : f[v] = x
      BY <2>1
    <2> HIDE DEF f
    <2>3. f \in Surjection(S, A)
      BY <2>2 DEF Surjection
    <2> HIDE DEF S
    <2>4. Cardinality(A) <= Cardinality(S)
      BY <1>1, <2>3, FS_Surjection
    <2>5. QED
      BY <1>1, <1>2, <2>4
  <1>4. f \in Surjection(S, A \ {t})
    <2>1. f \in [S -> A \ {t}] /\ \A x \in A \ {t} : \E v \in S : f[v] = x
      BY <1>3
    <2> HIDE DEF f
    <2>2. QED
      BY <2>1 DEF Surjection
  <1>5. f \in Injection(S, A \ {t})
    <2> HIDE DEF f, S
    <2>1. QED
      BY <1>1, <1>4, FS_SurjSameCardinalityImpliesInj
  <1>6. \A v, w \in S : f[v] = f[w] => v = w
    <2> HIDE DEF f
    <2>1. QED
      BY <1>5 DEF Injection, IsInjective
  <1>7. QED
    BY <1>3, <1>6

(* A is an augmenting path of F, p leading back along it. *)
Augments(F, A, p) ==
    /\ A \subseteq Nodes /\ source \in A /\ sink \in A
    /\ \A v \in A \ {source} : p[v] \in A \ {sink} /\ OpenIn(F, p[v], v)
    /\ \A x \in A \ {sink} : \E v \in A \ {source} : p[v] = x
    /\ \A v, w \in A \ {source} : p[v] = p[w] => v = w

(* The way back from the sink is one along which another unit can be sent. *)
LEMMA WayAugments ==
    ASSUME Problem, NEW pi, InSearch(pi), prev[sink] # -1
    PROVE  /\ Augments(used, Way(sink), prev)
           /\ Way(sink) \subseteq ReachedIn(dist) /\ sink \in ReachedIn(dist)
           /\ path[sink] = {<<prev[w], w>> : w \in Way(sink) \ {source}}
  <1> DEFINE R == ReachedIn(dist)
             A == Way(sink)
  <1>1. Labels(used, dist, prev)
    BY DEF InSearch, Search
  <1>2. source \in Nodes /\ sink \in Nodes /\ source # sink /\ IsFiniteSet(Nodes)
    BY Numbering
  <1>3. sink \in R
    BY <1>1, <1>2 DEF Labels, ReachedIn
  <1>4. /\ sink \in A /\ source \in A /\ A \subseteq R /\ BackFrom(A)
        /\ \A B \in SUBSET R : sink \in B /\ BackFrom(B) => A \subseteq B
    BY <1>3, WayBack
  <1>5. \A v \in R \ {source} : OpenIn(used, prev[v], v)
    BY PrevReached
  <1>6. R \subseteq Nodes
    BY DEF ReachedIn
  <1>7. path[sink] = {<<prev[w], w>> : w \in A \ {source}}
    BY <1>3, PathIsTheWay DEF WayEdges
  <1> HIDE DEF R, A
  <1>8. IsFiniteSet(A)
    <2>1. A \in SUBSET Nodes
      BY <1>4, <1>6
    <2>2. QED
      BY <1>2, <2>1, FS_Subset
  <1>9. \A v \in A \ {source} : prev[v] \in A
    BY <1>4 DEF BackFrom
  <1>10. ASSUME NEW x \in A \ {sink}
         PROVE  \E v \in A \ {source} : prev[v] = x
    <2>1. SUFFICES ASSUME \A v \in A \ {source} : prev[v] # x
                   PROVE  FALSE
      OBVIOUS
    <2>2. A \ {x} \in SUBSET R /\ sink \in A \ {x}
      BY <1>4
    <2>3. BackFrom(A \ {x})
      BY <1>9, <2>1 DEF BackFrom
    <2>4. A \subseteq A \ {x}
      BY <1>4, <2>2, <2>3
    <2>5. QED
      BY <2>4
  <1>11. /\ \A v \in A \ {source} : prev[v] # sink
         /\ \A v, w \in A \ {source} : prev[v] = prev[w] => v = w
    BY <1>4, <1>8, <1>9, <1>10, OneSuccessor
  <1>12. Augments(used, A, prev)
    BY <1>4, <1>5, <1>6, <1>9, <1>10, <1>11 DEF Augments
  <1>13. QED
    BY <1>3, <1>4, <1>7, <1>12 DEF A, R

-----------------------------------------------------------------------------
(* One unit along a way that augments. *)

Along(A, p) == {<<p[w], w>> : w \in A \ {source}}

Sent(F, P) == {e \in F : <<e[2], e[1]>> \notin P} \cup {e \in P : IsEdge(e[1], e[2])}

(* Which edges carry a unit once it is sent along p.                       *)
LEMMA SentEdges ==
    ASSUME NEW F, NEW A, NEW p, NEW u, NEW v
    PROVE  /\ <<u, v>> \in Along(A, p) <=> v \in A \ {source} /\ p[v] = u
           /\ <<u, v>> \in Sent(F, Along(A, p)) <=>
                \/ <<u, v>> \in F /\ ~(u \in A \ {source} /\ p[u] = v)
                \/ v \in A \ {source} /\ p[v] = u /\ IsEdge(u, v)
  <1>1. \A x, y : <<x, y>> \in Along(A, p) <=> y \in A \ {source} /\ p[y] = x
    BY DEF Along
  <1>2. <<u, v>> \in Sent(F, Along(A, p)) <=>
          \/ <<u, v>> \in F /\ <<v, u>> \notin Along(A, p)
          \/ <<u, v>> \in Along(A, p) /\ IsEdge(u, v)
    <2> DEFINE P == Along(A, p)
    <2> HIDE DEF P
    <2>1. <<u, v>>[1] = u /\ <<u, v>>[2] = v
      OBVIOUS
    <2>2. <<u, v>> \in Sent(F, P) <=> (<<u, v>> \in F /\ <<v, u>> \notin P) \/ (<<u, v>> \in P /\ IsEdge(u, v))
      BY <2>1 DEF Sent
    <2>3. QED
      BY <2>2 DEF P
  <1>3. QED
    BY <1>1, <1>2

(* What the open edges of the way say of the flow. *)
LEMMA OnTheWay ==
    ASSUME Problem, NEW F, IsFlow(F), NEW A, NEW p, Augments(F, A, p), NEW v \in A \ {source}
    PROVE  /\ v \in slotNodes => \/ p[v] = source /\ <<source, v>> \notin F
                                 \/ p[v] \in playerNodes /\ <<v, p[v]>> \in F
           /\ v \in playerNodes => p[v] \in slotNodes /\ IsEdge(p[v], v) /\ <<p[v], v>> \notin F
           /\ v = sink => p[v] \in playerNodes /\ IsEdge(p[v], v) /\ <<p[v], v>> \notin F
           /\ p[v] = source => v \in slotNodes
           /\ p[v] \in slotNodes => v \in playerNodes
           /\ p[v] \in playerNodes => \/ v = sink
                                      \/ v \in slotNodes /\ <<v, p[v]>> \in F
           /\ v \in slotNodes \cup playerNodes \cup {sink}
  <1> DEFINE u == p[v]
  <1>1. OpenIn(F, u, v) /\ u \in A /\ u # sink /\ v \in Nodes
    BY DEF Augments
  <1> HIDE DEF u
  <1>2. /\ Nodes = {source, sink} \cup slotNodes \cup playerNodes
        /\ source # sink /\ source \notin slotNodes \cup playerNodes
        /\ sink \notin slotNodes \cup playerNodes /\ slotNodes \cap playerNodes = {}
    BY Numbering
  <1>3. CASE IsEdge(u, v) /\ <<u, v>> \notin F
    BY <1>1, <1>2, <1>3, EdgeEnds DEF u
  <1>4. CASE <<v, u>> \in F
    <2>1. IsEdge(v, u)
      BY <1>4 DEF IsFlow, OnEdges
    <2>2. QED
      BY <1>1, <1>2, <1>4, <2>1, EdgeEnds DEF u
  <1>5. QED
    BY <1>1, <1>3, <1>4 DEF OpenIn

(* Sending a unit fills one slot more, and moves players of others on.     *)
LEMMA SentIsFlow ==
    ASSUME Problem, NEW F, IsFlow(F), NEW A, NEW p, Augments(F, A, p)
    PROVE  /\ IsFlow(Sent(F, Along(A, p)))
           /\ \E c \in slotNodes \ Filled(F) : Filled(Sent(F, Along(A, p))) = Filled(F) \cup {c}
  <1> DEFINE G == Sent(F, Along(A, p))
             B == A \ {source}
  <1>1. \A u, v : <<u, v>> \in G <=> \/ <<u, v>> \in F /\ ~(u \in B /\ p[u] = v)
                                     \/ v \in B /\ p[v] = u /\ IsEdge(u, v)
    BY SentEdges
  <1>2. /\ Nodes = {source, sink} \cup slotNodes \cup playerNodes
        /\ source # sink /\ source \notin slotNodes \cup playerNodes
        /\ sink \notin slotNodes \cup playerNodes /\ slotNodes \cap playerNodes = {}
    BY Numbering
  <1>3. /\ source \in A /\ sink \in B
        /\ \A v \in B : p[v] \in A /\ p[v] # sink
        /\ \A x \in A \ {sink} : \E v \in B : p[v] = x
        /\ \A v, w \in B : p[v] = p[w] => v = w
    BY <1>2 DEF Augments
  <1>4. \A v \in B :
           /\ v \in slotNodes => \/ p[v] = source /\ <<source, v>> \notin F
                                 \/ p[v] \in playerNodes /\ <<v, p[v]>> \in F
           /\ v \in playerNodes => p[v] \in slotNodes /\ IsEdge(p[v], v) /\ <<p[v], v>> \notin F
           /\ v = sink => p[v] \in playerNodes /\ IsEdge(p[v], v) /\ <<p[v], v>> \notin F
           /\ p[v] = source => v \in slotNodes
           /\ p[v] \in slotNodes => v \in playerNodes
           /\ p[v] \in playerNodes => v = sink \/ (v \in slotNodes /\ <<v, p[v]>> \in F)
           /\ v \in slotNodes \cup playerNodes \cup {sink}
    BY OnTheWay
  <1>5. /\ \A s \in slotNodes : <<source, s>> \in F <=> \E v \in playerNodes : <<s, v>> \in F
        /\ \A v \in playerNodes : <<v, sink>> \in F <=> \E s \in slotNodes : <<s, v>> \in F
        /\ \A s \in slotNodes, v, w \in playerNodes : <<s, v>> \in F /\ <<s, w>> \in F => v = w
        /\ \A r, s \in slotNodes, v \in playerNodes : <<r, v>> \in F /\ <<s, v>> \in F => r = s
    BY DEF IsFlow, Conserved
  <1>6. OnEdges(G)
    <2>1. \A e \in F : e = <<e[1], e[2]>> /\ IsEdge(e[1], e[2])
      BY DEF IsFlow, OnEdges
    <2>2. \A e \in Along(A, p) : e = <<e[1], e[2]>>
      BY DEF Along
    <2>3. QED
      BY <2>1, <2>2 DEF OnEdges, Sent
  <1> HIDE DEF G, B
  <1>7. source \notin B /\ B \subseteq A
    BY DEF B
  <1>8. \A s \in slotNodes : <<source, s>> \in G <=> <<source, s>> \in F \/ (s \in B /\ p[s] = source)
    <2>1. \A s \in slotNodes : IsEdge(source, s)
      BY DEF IsEdge
    <2>2. QED
      BY <1>1, <1>7, <2>1
  <1>9. \A s \in slotNodes, v \in playerNodes :
           <<s, v>> \in G <=> (<<s, v>> \in F /\ ~(s \in B /\ p[s] = v)) \/ (v \in B /\ p[v] = s)
    BY <1>1, <1>4
  <1>10. \A v \in playerNodes : <<v, sink>> \in G <=> <<v, sink>> \in F \/ p[sink] = v
    <2>1. \A v \in playerNodes : IsEdge(v, sink)
      BY DEF IsEdge
    <2>2. QED
      BY <1>1, <1>3, <2>1
  (* Off the way nothing changes; on it a slot passes on to its successor,  *)
  (* and a player is taken by its predecessor.                              *)
  <1>11. ASSUME NEW s \in slotNodes, s \notin A
         PROVE  /\ <<source, s>> \in G <=> <<source, s>> \in F
                /\ \A v \in playerNodes : <<s, v>> \in G <=> <<s, v>> \in F
    BY <1>3, <1>7, <1>8, <1>9, <1>11
  <1>12. ASSUME NEW s \in slotNodes, s \in A
         PROVE  <<source, s>> \in G /\ \E c \in playerNodes : \A v \in playerNodes : <<s, v>> \in G <=> v = c
    <2>1. s \in B /\ s # sink
      BY <1>2, <1>12 DEF B
    <2>2. PICK c \in B : p[c] = s
      BY <1>3, <1>7, <2>1
    <2>3. c \in playerNodes
      BY <1>4, <2>2
    <2>4. \A v \in B : p[v] = s <=> v = c
      BY <1>3, <2>2
    <2>5. CASE p[s] = source /\ <<source, s>> \notin F
      <3>1. \A v \in playerNodes : <<s, v>> \notin F
        BY <1>5, <2>5
      <3>2. \A v \in playerNodes : <<s, v>> \in G <=> v = c
        BY <1>9, <2>2, <2>3, <2>4, <3>1
      <3>3. <<source, s>> \in G
        BY <1>8, <2>1, <2>5
      <3>4. QED
        BY <2>3, <3>2, <3>3
    <2>6. CASE p[s] \in playerNodes /\ <<s, p[s]>> \in F
      <3>1. \A v \in playerNodes : <<s, v>> \in F => v = p[s]
        BY <1>5, <2>6
      <3>2. \A v \in playerNodes : <<s, v>> \in G <=> v = c
        BY <1>9, <2>1, <2>2, <2>3, <2>4, <3>1
      <3>3. <<source, s>> \in G
        BY <1>5, <1>8, <2>6
      <3>4. QED
        BY <2>3, <3>2, <3>3
    <2>7. QED
      BY <1>4, <2>1, <2>5, <2>6
  <1>13. ASSUME NEW v \in playerNodes, v \notin A
         PROVE  /\ <<v, sink>> \in G <=> <<v, sink>> \in F
                /\ \A s \in slotNodes : <<s, v>> \in G <=> <<s, v>> \in F
    BY <1>3, <1>7, <1>9, <1>10, <1>13
  <1>14. ASSUME NEW v \in playerNodes, v \in A
         PROVE  <<v, sink>> \in G /\ \E r \in slotNodes : \A s \in slotNodes : <<s, v>> \in G <=> s = r
    <2>1. v \in B /\ v # sink
      BY <1>2, <1>14 DEF B
    <2>2. PICK c \in B : p[c] = v
      BY <1>3, <1>7, <2>1
    <2>3. p[v] \in slotNodes
      BY <1>4, <2>1
    <2>4. CASE c = sink
      <3>1. <<v, sink>> \notin F
        BY <1>4, <2>2, <2>4
      <3>2. \A s \in slotNodes : <<s, v>> \notin F
        BY <1>5, <3>1
      <3>3. \A s \in slotNodes : <<s, v>> \in G <=> s = p[v]
        BY <1>9, <2>1, <3>2
      <3>4. <<v, sink>> \in G
        BY <1>10, <2>2, <2>4
      <3>5. QED
        BY <2>3, <3>3, <3>4
    <2>5. CASE c \in slotNodes /\ <<c, v>> \in F
      <3>1. \A s \in slotNodes : <<s, v>> \in F => s = c
        BY <1>5, <2>5
      <3>2. \A s \in slotNodes : <<s, v>> \in G <=> s = p[v]
        BY <1>9, <2>1, <2>2, <3>1
      <3>3. <<v, sink>> \in G
        BY <1>5, <1>10, <2>5
      <3>4. QED
        BY <2>3, <3>2, <3>3
    <2>6. QED
      BY <1>4, <2>2, <2>4, <2>5
  <1>15. \A s \in slotNodes : <<source, s>> \in G <=> \E v \in playerNodes : <<s, v>> \in G
    <2>1. ASSUME NEW s \in slotNodes
          PROVE  <<source, s>> \in G <=> \E v \in playerNodes : <<s, v>> \in G
      <3>1. CASE s \in A
        BY <1>12, <3>1
      <3>2. CASE s \notin A
        BY <1>5, <1>11, <3>2
      <3>3. QED
        BY <3>1, <3>2
    <2>2. QED
      BY <2>1
  <1>16. \A v \in playerNodes : <<v, sink>> \in G <=> \E s \in slotNodes : <<s, v>> \in G
    <2>1. ASSUME NEW v \in playerNodes
          PROVE  <<v, sink>> \in G <=> \E s \in slotNodes : <<s, v>> \in G
      <3>1. CASE v \in A
        BY <1>14, <3>1
      <3>2. CASE v \notin A
        BY <1>5, <1>13, <3>2
      <3>3. QED
        BY <3>1, <3>2
    <2>2. QED
      BY <2>1
  <1>17. ASSUME NEW s \in slotNodes, NEW v \in playerNodes, NEW w \in playerNodes,
                <<s, v>> \in G, <<s, w>> \in G
         PROVE  v = w
    <2>1. CASE s \in A
      BY <1>12, <1>17, <2>1
    <2>2. CASE s \notin A
      BY <1>5, <1>11, <1>17, <2>2
    <2>3. QED
      BY <2>1, <2>2
  <1>18. ASSUME NEW r \in slotNodes, NEW s \in slotNodes, NEW v \in playerNodes,
                <<r, v>> \in G, <<s, v>> \in G
         PROVE  r = s
    <2>1. CASE v \in A
      BY <1>14, <1>18, <2>1
    <2>2. CASE v \notin A
      <3>1. <<r, v>> \in F /\ <<s, v>> \in F
        BY <1>13, <1>18, <2>2
      <3>2. QED
        BY <1>5, <3>1
    <2>3. QED
      BY <2>1, <2>2
  <1>19. IsFlow(G)
    BY <1>6, <1>15, <1>16, <1>17, <1>18 DEF IsFlow, Conserved
  <1>20. \E c \in slotNodes \ Filled(F) : Filled(G) = Filled(F) \cup {c}
    <2>1. PICK c \in B : p[c] = source
      BY <1>2, <1>3, <1>7
    <2>2. c \in slotNodes /\ \A v \in B : p[v] = source <=> v = c
      BY <1>3, <1>4, <2>1
    <2>3. <<source, c>> \notin F
      BY <1>2, <1>4, <2>1, <2>2
    <2>4. \A s \in slotNodes : <<source, s>> \in G <=> <<source, s>> \in F \/ s = c
      BY <1>8, <2>1, <2>2
    <2>5. Filled(G) = Filled(F) \cup {c}
      BY <2>2, <2>4 DEF Filled
    <2>6. QED
      BY <2>2, <2>3, <2>5 DEF Filled
  <1>21. QED
    BY <1>19, <1>20 DEF G

(* Tight edges may be turned round. *)
LEMMA SentKeepsPotential ==
    ASSUME Problem, NEW F, NEW A, NEW p, Augments(F, A, p), OnEdges(F),
           NEW pi, Potential(F, pi), \A v \in A \ {source} : pi[v] = pi[p[v]] + Cost(p[v], v)
    PROVE  Potential(Sent(F, Along(A, p)), pi)
  <1> DEFINE G == Sent(F, Along(A, p))
  <1>1. ASSUME NEW u \in Nodes, NEW v \in Nodes, OpenIn(G, u, v)
        PROVE  pi[v] <= pi[u] + Cost(u, v)
    <2>1. CASE OpenIn(F, u, v)
      BY <2>1 DEF Potential
    <2>2. CASE ~OpenIn(F, u, v)
      <3>1. pi[u] \in Int /\ pi[v] \in Int /\ Cost(u, v) \in Int /\ Cost(v, u) \in Int
        BY CostType DEF Potential
      <3>2. \/ u \in A \ {source} /\ p[u] = v /\ IsEdge(u, v)
            \/ u \in A \ {source} /\ p[u] = v /\ IsEdge(v, u)
        <4>1. CASE IsEdge(u, v) /\ <<u, v>> \notin G
          <5>1. <<u, v>> \in F
            BY <2>2, <4>1 DEF OpenIn
          <5>2. QED
            BY <4>1, <5>1, SentEdges
        <4>2. CASE <<v, u>> \in G
          <5>1. <<v, u>> \notin F
            BY <2>2 DEF OpenIn
          <5>2. QED
            BY <4>2, <5>1, SentEdges
        <4>3. QED
          BY <1>1, <4>1, <4>2 DEF OpenIn
      <3>3. pi[u] = pi[v] + Cost(v, u)
        BY <3>2
      <3>4. Cost(v, u) = -Cost(u, v)
        BY <3>1, <3>2, CostType
      <3>5. QED
        BY <3>1, <3>3, <3>4
    <2>3. QED
      BY <2>1, <2>2
  <1> HIDE DEF G
  <1>2. Potential(G, pi)
    BY <1>1 DEF Potential
  <1>3. QED
    BY <1>2 DEF G

-----------------------------------------------------------------------------
(* The labels of a finished search, as potentials: beyond what was reached *)
(* the old ones, raised.                                                   *)
Raised(pi, K) == [v \in Nodes |-> IF v \in ReachedIn(dist) THEN dist[v] ELSE pi[v] + K]

(* The raise that takes the nodes not reached out of the way.              *)
LEMMA SearchGivesPotential ==
    ASSUME Problem, NEW pi, InSearch(pi), queue = <<>>
    PROVE  \E K \in Int : Potential(used, Raised(pi, K))
  <1> DEFINE R == ReachedIn(dist)
             g == [v \in R |-> dist[v] - pi[v]]
  <1>1. \A v \in R : dist[v] \in Int /\ v \in Nodes
    BY PrevReached
  <1>2. Potential(used, pi) /\ Settled(used, dist, queue)
    BY DEF InSearch, Search
  <1>3. \A v \in Nodes : pi[v] \in Int
    BY <1>2 DEF Potential
  <1>4. IsFiniteSet(R)
    <2>1. R \in SUBSET Nodes
      BY <1>1
    <2>2. QED
      BY <2>1, Numbering, FS_Subset
  <1>5. Ints(g, R)
    BY <1>1, <1>3 DEF Ints
  <1>6. \A v \in R : g[v] = dist[v] - pi[v]
    OBVIOUS
  <1> HIDE DEF g, R
  <1>7. PICK K \in Int : \A v \in R : g[v] <= K
    BY <1>4, <1>5, HasBound
  <1> DEFINE rho == Raised(pi, K)
  <1>8. \A v \in Nodes : rho[v] = IF v \in R THEN dist[v] ELSE pi[v] + K
    BY DEF Raised, R
  <1>9. rho \in [Nodes -> Int]
    <2>1. \A v \in Nodes : (IF v \in R THEN dist[v] ELSE pi[v] + K) \in Int
      BY <1>1, <1>3
    <2>2. rho = [v \in Nodes |-> IF v \in R THEN dist[v] ELSE pi[v] + K]
      BY DEF Raised, R
    <2> HIDE DEF rho
    <2>3. QED
      BY <2>1, <2>2
  <1> HIDE DEF rho
  <1>10. \A u \in R, v \in Nodes : OpenIn(used, u, v) => v \in R /\ dist[v] <= dist[u] + Cost(u, v)
    <2>1. ToSet(queue) = {}
      BY DEF ToSet
    <2>2. QED
      BY <1>2, <2>1 DEF Settled, R
  <1>11. ASSUME NEW u \in Nodes, NEW v \in Nodes, OpenIn(used, u, v)
         PROVE  rho[v] <= rho[u] + Cost(u, v)
    <2>1. Cost(u, v) \in Int /\ pi[u] \in Int /\ pi[v] \in Int /\ pi[v] <= pi[u] + Cost(u, v)
      BY <1>2, <1>3, <1>11, CostType DEF Potential
    <2>2. CASE u \in R
      BY <1>8, <1>10, <1>11, <2>2
    <2>3. CASE u \notin R /\ v \in R
      <3>1. dist[v] - pi[v] <= K /\ dist[v] \in Int
        BY <1>1, <1>6, <1>7, <2>3
      <3>2. QED
        BY <1>8, <2>1, <2>3, <3>1
    <2>4. CASE u \notin R /\ v \notin R
      BY <1>8, <2>1, <2>4
    <2>5. QED
      BY <2>2, <2>3, <2>4
  <1>12. Potential(used, rho)
    BY <1>9, <1>11 DEF Potential
  <1>13. QED
    BY <1>12 DEF rho

(* Labels of a finished search are tight along it. *)
LEMMA TightAlong ==
    ASSUME Problem, NEW pi, InSearch(pi), queue = <<>>, NEW v \in ReachedIn(dist) \ {source}
    PROVE  prev[v] \in ReachedIn(dist) /\ dist[v] = dist[prev[v]] + Cost(prev[v], v)
  <1>1. /\ prev[v] \in ReachedIn(dist) /\ OpenIn(used, prev[v], v)
        /\ dist[prev[v]] + Cost(prev[v], v) <= dist[v]
        /\ dist[v] \in Int /\ dist[prev[v]] \in Int /\ v \in Nodes
    BY PrevReached
  <1>2. ToSet(queue) = {} /\ Settled(used, dist, queue)
    BY DEF ToSet, InSearch, Search
  <1>3. dist[v] <= dist[prev[v]] + Cost(prev[v], v)
    BY <1>1, <1>2 DEF Settled
  <1>4. Cost(prev[v], v) \in Int
    BY CostType
  <1>5. QED
    BY <1>1, <1>3, <1>4

-----------------------------------------------------------------------------
(* The solver's invariant. *)

WorthOf(f) == SumOver(PointsAlong(f), DOMAIN f)

(* What x has to be to be the answer. *)
IsOptimum(x) ==
    /\ x \in Int
    /\ \/ /\ NothingToValidate(in.slots) \/ ~(\E f : IsMatching(f, slotNodes))
          /\ x = 0
       \/ /\ ~NothingToValidate(in.slots)
          /\ \E f : IsMatching(f, slotNodes) /\ WorthOf(f) = x
          /\ \A f : IsMatching(f, slotNodes) => WorthOf(f) <= x

OnTrack ==
    /\ Problem
    /\ ~NothingToValidate(in.slots)
    /\ IsFlow(used)
    /\ cost = -WorthOf(Assigned(used))
    /\ \E pi : InSearch(pi)

SolverInv == IF total = Running THEN OnTrack ELSE Problem /\ IsOptimum(total)

(* Worth, in a form a step's frame can carry.                              *)
LEMMA WorthIsWorthOf ==
    ASSUME Problem, NEW f, NEW S, IsMatching(f, S)
    PROVE  Worth(f) = WorthOf(f) /\ Worth(f) \in Int
  BY WorthIsSum DEF WorthOf

(* No search fails while a full lineup is possible: the slots reached would *)
(* have more players to themselves than were reached.                      *)
LEMMA NoFullLineup ==
    ASSUME Problem, IsFlow(used), NEW pi, InSearch(pi), queue = <<>>, prev[sink] = -1,
           Filled(used) # slotNodes, NEW f, IsMatching(f, slotNodes)
    PROVE  FALSE
  <1> DEFINE R == ReachedIn(dist)
             RS == R \cap slotNodes
             RP == R \cap playerNodes
  <1>1. /\ Nodes = {source, sink} \cup slotNodes \cup playerNodes
        /\ source # sink /\ source \notin slotNodes \cup playerNodes
        /\ sink \notin slotNodes \cup playerNodes /\ slotNodes \cap playerNodes = {}
        /\ IsFiniteSet(slotNodes) /\ IsFiniteSet(playerNodes)
    BY Numbering
  <1>2. /\ source \in R
        /\ \A v \in R \ {source} : prev[v] \in R /\ OpenIn(used, prev[v], v)
    BY PrevReached
  <1>3. \A u \in R, v \in Nodes : OpenIn(used, u, v) => v \in R
    BY DEF InSearch, Search, Settled, ToSet
  <1>4. sink \notin R
    BY <1>1 DEF InSearch, Search, Labels, ReachedIn
  <1>5. /\ \A s \in slotNodes : <<source, s>> \in used <=> \E v \in playerNodes : <<s, v>> \in used
        /\ \A v \in playerNodes : <<v, sink>> \in used <=> \E s \in slotNodes : <<s, v>> \in used
        /\ \A s \in slotNodes, v, w \in playerNodes : <<s, v>> \in used /\ <<s, w>> \in used => v = w
        /\ \A r, s \in slotNodes, v \in playerNodes : <<r, v>> \in used /\ <<s, v>> \in used => r = s
    BY DEF IsFlow, Conserved
  <1>6. \A u, v : <<u, v>> \in used => IsEdge(u, v)
    BY DEF IsFlow, OnEdges
  <1> HIDE DEF R
  <1>7. PICK s0 \in slotNodes : <<source, s0>> \notin used /\ s0 \in R
    <2>1. PICK s0 \in slotNodes : <<source, s0>> \notin used
      BY DEF Filled
    <2>2. OpenIn(used, source, s0)
      BY <2>1 DEF OpenIn, IsEdge
    <2>3. QED
      BY <1>1, <1>2, <1>3, <2>1, <2>2
  <1>8. ASSUME NEW s \in RS, NEW v \in playerNodes, IsEdge(s, v)
        PROVE  v \in RP
    <2>1. CASE <<s, v>> \notin used
      <3>1. OpenIn(used, s, v)
        BY <1>8, <2>1 DEF OpenIn
      <3>2. QED
        BY <1>1, <1>3, <3>1
    <2>2. CASE <<s, v>> \in used
      <3> DEFINE x == prev[s]
      <3>1. s \in slotNodes /\ s # source /\ x \in R /\ OpenIn(used, x, s)
        BY <1>1, <1>2
      <3> HIDE DEF x
      <3>2. CASE IsEdge(x, s) /\ <<x, s>> \notin used
        <4>1. x = source
          BY <3>1, <3>2, EdgeEnds
        <4>2. QED
          BY <1>5, <2>2, <3>1, <3>2, <4>1
      <3>3. CASE <<s, x>> \in used
        <4>1. x \in playerNodes
          BY <1>6, <3>1, <3>3, EdgeEnds
        <4>2. x = v
          BY <1>5, <2>2, <3>1, <3>3, <4>1
        <4>3. QED
          BY <3>1, <4>2
      <3>4. QED
        BY <3>1, <3>2, <3>3 DEF OpenIn
    <2>3. QED
      BY <2>1, <2>2
  <1>9. ASSUME NEW v \in RP
        PROVE  \E s \in RS \ {s0} : <<s, v>> \in used
    <2>1. <<v, sink>> \in used
      <3>1. SUFFICES ASSUME <<v, sink>> \notin used
                     PROVE  FALSE
        OBVIOUS
      <3>2. OpenIn(used, v, sink)
        BY <3>1 DEF OpenIn, IsEdge
      <3>3. QED
        BY <1>1, <1>3, <1>4, <3>2
    <2>2. PICK s \in slotNodes : <<s, v>> \in used
      BY <1>5, <2>1
    <2>3. OpenIn(used, v, s)
      BY <2>2 DEF OpenIn
    <2>4. s \in R
      BY <1>1, <1>3, <2>3
    <2>5. s # s0
      BY <1>5, <1>7, <2>2
    <2>6. QED
      BY <2>2, <2>4, <2>5
  <1> DEFINE holder == [v \in RP |-> CHOOSE s \in RS \ {s0} : <<s, v>> \in used]
             seat == [s \in RS |-> f[s]]
  <1>10. IsFiniteSet(RS) /\ IsFiniteSet(RP) /\ s0 \in RS
    <2>1. RS \in SUBSET slotNodes /\ RP \in SUBSET playerNodes
      OBVIOUS
    <2>2. s0 \in RS
      BY <1>7
    <2> HIDE DEF RS, RP
    <2>3. QED
      BY <1>1, <2>1, <2>2, FS_Subset
  <1>11. \A v \in RP : v \in playerNodes
    OBVIOUS
  <1>12. \A s \in RS : s \in slotNodes
    OBVIOUS
  <1>13. holder \in Injection(RP, RS \ {s0})
    <2>1. ASSUME NEW v \in RP
          PROVE  holder[v] \in RS \ {s0} /\ <<holder[v], v>> \in used
      <3>1. holder[v] = CHOOSE s \in RS \ {s0} : <<s, v>> \in used
        OBVIOUS
      <3> HIDE DEF holder, RS, RP
      <3>2. QED
        BY <1>9, <3>1
    <2>2. holder \in [RP -> RS \ {s0}]
      <3>1. \A v \in RP : (CHOOSE s \in RS \ {s0} : <<s, v>> \in used) \in RS \ {s0}
        BY <2>1
      <3> HIDE DEF RS, RP
      <3>2. QED
        BY <3>1
    <2> HIDE DEF holder, RS, RP
    <2>3. ASSUME NEW v \in RP, NEW w \in RP, holder[v] = holder[w]
          PROVE  v = w
      <3>1. holder[v] \in RS /\ <<holder[v], v>> \in used /\ <<holder[w], w>> \in used
        BY <2>1
      <3>2. holder[v] \in slotNodes /\ v \in playerNodes /\ w \in playerNodes
        BY <1>11, <1>12, <3>1
      <3>3. <<holder[v], v>> \in used /\ <<holder[v], w>> \in used
        BY <2>3, <3>1
      <3>4. QED
        BY <1>5, <3>2, <3>3
    <2>4. QED
      BY <2>2, <2>3 DEF Injection, IsInjective
  <1>14. seat \in Injection(RS, RP)
    <2>1. ASSUME NEW s \in RS
          PROVE  f[s] \in RP
      <3>1. f[s] \in playerNodes /\ IsEdge(s, f[s])
        BY <1>12 DEF IsMatching, Injection, IsEdge
      <3>2. QED
        BY <1>8, <3>1
    <2>2. \A r, s \in RS : f[r] = f[s] => r = s
      BY <1>12 DEF IsMatching, Injection, IsInjective
    <2> HIDE DEF RS, RP
    <2>3. seat \in [RS -> RP] /\ \A r, s \in RS : seat[r] = seat[s] => r = s
      BY <2>1, <2>2
    <2> HIDE DEF seat
    <2>4. QED
      BY <2>3 DEF Injection, IsInjective
  <1> HIDE DEF holder, seat, RS, RP
  <1>15. IsFiniteSet(RS \ {s0}) /\ Cardinality(RS \ {s0}) = Cardinality(RS) - 1
    BY <1>10, FS_RemoveElement
  <1>16. Cardinality(RP) <= Cardinality(RS \ {s0}) /\ Cardinality(RS) <= Cardinality(RP)
    BY <1>10, <1>13, <1>14, <1>15, FS_Injection
  <1>17. Cardinality(RP) \in Nat /\ Cardinality(RS) \in Nat
    BY <1>10, FS_CardinalityType
  <1>18. QED
    BY <1>15, <1>16, <1>17

(* What a search that does not reach the sink leaves is the optimum. *)
LEMMA AnswerIsOptimum ==
    ASSUME OnTrack, queue = <<>>, prev[sink] = -1
    PROVE  IsOptimum(Answer)
  <1>1. Problem /\ IsFlow(used) /\ cost = -WorthOf(Assigned(used)) /\ ~NothingToValidate(in.slots)
    BY DEF OnTrack
  <1>2. PICK pi : InSearch(pi)
    BY DEF OnTrack
  <1>3. flow = Cardinality(Filled(used)) /\ flow \in 0 .. numSlots
    BY <1>1, FlowFills DEF flow, FromSource
  <1>4. numSlots \in Nat
    BY <1>1 DEF Problem
  <1>5. CASE flow < numSlots
    <2>1. Filled(used) # slotNodes
      BY <1>1, <1>3, <1>4, <1>5, Numbering
    <2>2. ~(\E f : IsMatching(f, slotNodes))
      BY <1>1, <1>2, <2>1, NoFullLineup
    <2>3. Answer = 0
      BY <1>5 DEF Answer
    <2>4. QED
      BY <2>2, <2>3 DEF IsOptimum
  <1>6. CASE ~(flow < numSlots)
    <2>1. Filled(used) = slotNodes
      BY <1>1, <1>3, <1>4, <1>6, FlowFills
    <2>2. IsMatching(Assigned(used), slotNodes)
      BY <1>1, <2>1, AssignedTo
    <2>3. /\ Worth(Assigned(used)) = WorthOf(Assigned(used))
          /\ Worth(Assigned(used)) \in Int
      BY <1>1, <2>2, WorthIsWorthOf
    <2>4. Answer = WorthOf(Assigned(used))
      BY <1>1, <1>6, <2>3 DEF Answer
    <2>5. ASSUME NEW f, IsMatching(f, slotNodes)
          PROVE  WorthOf(f) <= WorthOf(Assigned(used))
      <3>1. Potential(used, pi)
        BY <1>2 DEF InSearch, Search
      <3>2. Worth(f) <= Worth(Assigned(used))
        BY <1>1, <2>1, <2>5, <3>1, FlowIsBest
      <3>3. Worth(f) = WorthOf(f)
        BY <1>1, <2>5, WorthIsWorthOf
      <3>4. QED
        BY <2>3, <3>2, <3>3
    <2>6. QED
      BY <1>1, <2>2, <2>3, <2>4, <2>5 DEF IsOptimum
  <1>7. QED
    BY <1>5, <1>6

-----------------------------------------------------------------------------
(* What a step that keeps the problem leaves alone. *)

(* The network depends on the problem alone, and so do the notions built   *)
(* on it.                                                                  *)
LEMMA SameNet ==
    ASSUME in' = in
    PROVE  /\ Nodes' = Nodes /\ slotNodes' = slotNodes /\ playerNodes' = playerNodes /\ sink' = sink
           /\ source' = source /\ numSlots' = numSlots
           /\ \A v : Points(v)' = Points(v)
           /\ \A u, v : (IsEdge(u, v)' <=> IsEdge(u, v)) /\ Cost(u, v)' = Cost(u, v)
  <1>1. /\ numSlots' = numSlots /\ playerBase' = playerBase /\ sink' = sink /\ source' = source
    BY DEF numSlots, playerBase, sink, source
  <1>2. /\ slotNodes' = slotNodes /\ playerNodes' = playerNodes /\ Nodes' = Nodes
    BY <1>1 DEF slotNodes, playerNodes, Nodes
  <1>3. \A v : player(v)' = player(v)
    BY <1>1 DEF player
  <1>4. \A v : Points(v)' = Points(v)
    BY <1>3 DEF Points, PointsOf
  <1>5. \A u, v : Fits(u, v)' <=> Fits(u, v)
    BY <1>3 DEF Fits, eligible
  <1>6. \A u, v : IsEdge(u, v)' <=> IsEdge(u, v)
    BY <1>1, <1>2, <1>5 DEF IsEdge
  <1>7. \A u, v : Cost(u, v)' = Cost(u, v)
    BY <1>2, <1>3 DEF Cost, PointsOf
  <1>8. QED
    BY <1>1, <1>2, <1>4, <1>6, <1>7

LEMMA SamePotential ==
    ASSUME in' = in, NEW F, NEW pi
    PROVE  Potential(F, pi)' <=> Potential(F, pi)
  <1>1. /\ Nodes' = Nodes
        /\ \A u, v : (IsEdge(u, v)' <=> IsEdge(u, v)) /\ Cost(u, v)' = Cost(u, v)
    BY SameNet
  <1>2. QED
    BY <1>1 DEF Potential, OpenIn

LEMMA SameFlow ==
    ASSUME in' = in, NEW F
    PROVE  IsFlow(F)' <=> IsFlow(F)
  <1>1. /\ slotNodes' = slotNodes /\ playerNodes' = playerNodes /\ sink' = sink /\ source' = source
        /\ \A u, v : IsEdge(u, v)' <=> IsEdge(u, v)
    BY SameNet
  <1>2. OnEdges(F)' <=> OnEdges(F)
    BY <1>1 DEF OnEdges
  <1>3. Conserved(F)' <=> Conserved(F)
    BY <1>1 DEF Conserved
  <1>4. QED
    BY <1>2, <1>3 DEF IsFlow

LEMMA SameMatchings ==
    ASSUME in' = in, NEW f, NEW S
    PROVE  /\ IsMatching(f, S)' <=> IsMatching(f, S)
           /\ WorthOf(f)' = WorthOf(f)
  <1>1. /\ slotNodes' = slotNodes /\ playerNodes' = playerNodes
        /\ \A v : Points(v)' = Points(v)
    BY SameNet
  <1>2. \A v : player(v)' = player(v)
    BY DEF player, playerBase, numSlots
  <1>3. \A s, v : Fits(s, v)' <=> Fits(s, v)
    BY <1>2 DEF Fits, eligible
  <1>4. PointsAlong(f)' = PointsAlong(f)
    BY <1>1 DEF PointsAlong
  <1>5. QED
    BY <1>1, <1>3, <1>4 DEF IsMatching, WorthOf

LEMMA SameAssigned ==
    ASSUME in' = in, NEW F
    PROVE  Filled(F)' = Filled(F) /\ Assigned(F)' = Assigned(F)
  <1>1. slotNodes' = slotNodes /\ playerNodes' = playerNodes /\ source' = source
    BY SameNet
  <1>2. Filled(F)' = Filled(F)
    BY <1>1 DEF Filled
  <1>3. QED
    BY <1>1, <1>2 DEF Assigned

LEMMA SameProblem ==
    ASSUME in' = in
    PROVE  /\ Problem' <=> Problem
           /\ NothingToValidate(in.slots)' <=> NothingToValidate(in.slots)
  <1>1. Problem' <=> Problem
    BY SameNet DEF Problem
  <1>2. QED
    BY <1>1 DEF NothingToValidate

LEMMA SameOptimum ==
    ASSUME in' = in, NEW x
    PROVE  IsOptimum(x)' <=> IsOptimum(x)
  <1>1. slotNodes' = slotNodes
    BY SameNet
  <1>2. \A f, S : (IsMatching(f, S)' <=> IsMatching(f, S)) /\ WorthOf(f)' = WorthOf(f)
    BY SameMatchings
  <1>3. NothingToValidate(in.slots)' <=> NothingToValidate(in.slots)
    BY SameProblem
  <1>4. QED
    BY <1>1, <1>2, <1>3 DEF IsOptimum

LEMMA SameSearch ==
    ASSUME in' = in, NEW F, NEW d, NEW p, NEW q, NEW pi
    PROVE  Search(F, d, p, q, pi)' <=> Search(F, d, p, q, pi)
  <1>1. /\ Nodes' = Nodes /\ source' = source
        /\ \A u, v : (IsEdge(u, v)' <=> IsEdge(u, v)) /\ Cost(u, v)' = Cost(u, v)
    BY SameNet
  <1>2. ReachedIn(d)' = ReachedIn(d)
    BY <1>1 DEF ReachedIn
  <1>3. Potential(F, pi)' <=> Potential(F, pi)
    BY SamePotential
  <1>4. Labels(F, d, p)' <=> Labels(F, d, p)
    BY <1>1, <1>2 DEF Labels, OpenIn
  <1>5. Settled(F, d, q)' <=> Settled(F, d, q)
    BY <1>1, <1>2 DEF Settled, OpenIn
  <1>6. (NotBelow(d, pi)' <=> NotBelow(d, pi)) /\ (Acyclic(d, p)' <=> Acyclic(d, p))
    BY <1>1, <1>2 DEF NotBelow, Acyclic
  <1>7. QED
    BY <1>2, <1>3, <1>4, <1>5, <1>6 DEF Search

-----------------------------------------------------------------------------
(* The solver's steps. *)

Started ==
    /\ Problem
    /\ ~NothingToValidate(in.slots)
    /\ used = {}
    /\ cost = 0
    /\ dist = [v \in Nodes |-> IF v = source THEN 0 ELSE Infinity]
    /\ prev = [v \in Nodes |-> -1]
    /\ queue = <<source>>

(* The first potentials: every player as good as his points, the sink as   *)
(* good as the best of them.                                               *)
LEMMA SolverStarts == Started => OnTrack
  <1> SUFFICES ASSUME Started
               PROVE  OnTrack
    OBVIOUS
  <1>1. Problem
    BY DEF Started
  <1> DEFINE w == [v \in playerNodes |-> Points(v)]
  <1>2. PICK K \in Int : \A v \in playerNodes : Points(v) <= K
    <2>1. IsFiniteSet(playerNodes)
      BY <1>1, Numbering
    <2>2. Ints(w, playerNodes)
      BY <1>1 DEF Ints, Problem
    <2>3. \A v \in playerNodes : w[v] = Points(v)
      OBVIOUS
    <2> HIDE DEF w
    <2>4. QED
      BY <2>1, <2>2, <2>3, HasBound
  <1> DEFINE pi == [v \in Nodes |-> IF v \in playerNodes THEN -Points(v) ELSE IF v = sink THEN -K ELSE 0]
  <1>3. \A v \in playerNodes : Points(v) \in Int
    BY <1>1 DEF Problem
  <1>4. pi \in [Nodes -> Int]
    BY <1>2, <1>3
  <1>5. /\ \A v \in playerNodes : pi[v] = -Points(v)
        /\ pi[source] = 0 /\ pi[sink] = -K
        /\ \A s \in slotNodes : pi[s] = 0
    BY <1>1, Numbering
  <1> HIDE DEF pi
  <1>6. ASSUME NEW u \in Nodes, NEW v \in Nodes, OpenIn({}, u, v)
        PROVE  pi[v] <= pi[u] + Cost(u, v)
    <2>1. IsEdge(u, v)
      BY <1>6 DEF OpenIn
    <2>2. CASE u = source
      <3>1. v \in slotNodes /\ u \notin slotNodes /\ u \notin playerNodes
        BY <1>1, <2>1, <2>2, EdgeEnds, Numbering
      <3>2. Cost(u, v) = 0
        BY <1>1, <3>1, CostType
      <3>3. QED
        BY <1>5, <2>2, <3>1, <3>2
    <2>3. CASE u \in slotNodes
      <3>1. v \in playerNodes
        BY <1>1, <2>1, <2>3, EdgeEnds
      <3>2. Cost(u, v) = -Points(v)
        BY <1>1, <2>3, <3>1, CostType
      <3>3. QED
        BY <1>3, <1>5, <2>3, <3>1, <3>2
    <2>4. CASE u \in playerNodes
      <3>1. v = sink /\ v \notin slotNodes /\ v \notin playerNodes
        BY <1>1, <2>1, <2>4, EdgeEnds, Numbering
      <3>2. Cost(u, v) = 0
        BY <1>1, <3>1, CostType
      <3>3. Points(u) \in Int /\ Points(u) <= K
        BY <1>2, <1>3, <2>4
      <3>4. QED
        BY <1>2, <1>5, <2>4, <3>1, <3>2, <3>3
    <2>5. QED
      BY <2>1, <2>2, <2>3, <2>4 DEF IsEdge
  <1>7. Potential({}, pi)
    BY <1>4, <1>6 DEF Potential
  <1>8. InSearch(pi)
    BY <1>1, <1>7, SearchStarts DEF InSearch, Started
  <1>9. IsFlow({})
    BY DEF IsFlow, OnEdges, Conserved
  <1>10. WorthOf(Assigned({})) = 0
    <2>1. DOMAIN Assigned({}) = {}
      BY DEF Assigned, Filled
    <2>2. QED
      BY <2>1, SumEmpty DEF WorthOf
  <1>11. QED
    BY <1>1, <1>8, <1>9, <1>10 DEF OnTrack, Started

(* A step of the search leaves the flow alone.                             *)
LEMMA RelaxStep ==
    ASSUME OnTrack, Relax
    PROVE  OnTrack'
  <1>1. in' = in /\ used' = used /\ cost' = cost
    BY DEF Relax
  <1>2. Problem /\ IsFlow(used) /\ ~NothingToValidate(in.slots) /\ cost = -WorthOf(Assigned(used))
    BY DEF OnTrack
  <1>3. PICK pi : InSearch(pi)
    BY DEF OnTrack
  <1>4. Search(used', dist', prev', queue', pi)
    BY <1>1, <1>2, <1>3, RelaxKeepsSearch
  <1>5. InSearch(pi)'
    BY <1>1, <1>4, SameSearch DEF InSearch
  <1>6. Problem' /\ ~NothingToValidate(in.slots)'
    BY <1>1, <1>2, SameProblem
  <1>7. IsFlow(used)'
    BY <1>1, <1>2, SameFlow
  <1>8. WorthOf(Assigned(used))' = WorthOf(Assigned(used))
    BY <1>1, SameAssigned, SameMatchings
  <1>9. QED
    BY <1>1, <1>2, <1>5, <1>6, <1>7, <1>8 DEF OnTrack

(* One more slot is filled and the cost is that of the dearer assignment. *)
LEMMA SendStep ==
    ASSUME OnTrack, Send
    PROVE  OnTrack'
  <1>1. /\ in' = in /\ queue = <<>> /\ prev[sink] # -1
        /\ used' = Sent(used, path[sink])
        /\ cost' = cost + dist[sink]
        /\ dist' = [v \in Nodes |-> IF v = source THEN 0 ELSE Infinity]
        /\ prev' = [v \in Nodes |-> -1]
        /\ queue' = <<source>>
    BY DEF Send, Sent, NewRound
  <1>2. Problem /\ IsFlow(used) /\ ~NothingToValidate(in.slots) /\ cost = -WorthOf(Assigned(used))
    BY DEF OnTrack
  <1>3. PICK pi : InSearch(pi)
    BY DEF OnTrack
  <1> DEFINE A == Way(sink)
             G == Sent(used, Along(A, prev))
  <1>4. /\ Augments(used, A, prev)
        /\ A \subseteq ReachedIn(dist) /\ sink \in ReachedIn(dist)
        /\ path[sink] = Along(A, prev)
    BY <1>1, <1>2, <1>3, WayAugments DEF Along
  <1>5. used' = G
    BY <1>1, <1>4
  <1> HIDE DEF A
  <1>6. IsFlow(G) /\ \E c \in slotNodes \ Filled(used) : Filled(G) = Filled(used) \cup {c}
    BY <1>2, <1>4, SentIsFlow
  <1>7. PICK rho : Potential(used, rho) /\ \A v \in ReachedIn(dist) : rho[v] = dist[v]
    <2>1. PICK K \in Int : Potential(used, Raised(pi, K))
      BY <1>1, <1>2, <1>3, SearchGivesPotential
    <2>2. \A v \in ReachedIn(dist) : Raised(pi, K)[v] = dist[v]
      BY DEF Raised, ReachedIn
    <2>3. QED
      BY <2>1, <2>2
  <1>8. /\ \A v \in ReachedIn(dist) : rho[v] = dist[v] /\ dist[v] \in Int
        /\ source \in ReachedIn(dist) /\ dist[source] = 0
    BY <1>2, <1>3, <1>7, PrevReached
  <1>9. \A v \in A \ {source} : rho[v] = rho[prev[v]] + Cost(prev[v], v)
    BY <1>1, <1>2, <1>3, <1>4, <1>8, TightAlong
  <1>10. Potential(used, rho) /\ Potential(G, rho)
    <2>1. OnEdges(used)
      BY <1>2 DEF IsFlow
    <2>2. QED
      BY <1>2, <1>4, <1>7, <1>9, <2>1, SentKeepsPotential
  <1> HIDE DEF G
  <1>11. Cardinality(Filled(G)) = Cardinality(Filled(used)) + 1
    <2>1. PICK c \in slotNodes \ Filled(used) : Filled(G) = Filled(used) \cup {c}
      BY <1>6
    <2>2. IsFiniteSet(Filled(used))
      BY <1>2, FlowFills
    <2>3. QED
      BY <2>1, <2>2, FS_AddElement
  <1>12. Worth(Assigned(G)) = Worth(Assigned(used)) + rho[source] - rho[sink]
    BY <1>2, <1>6, <1>10, <1>11, WorthOfUnit
  <1>13. /\ Worth(Assigned(G)) = WorthOf(Assigned(G)) /\ Worth(Assigned(G)) \in Int
         /\ Worth(Assigned(used)) = WorthOf(Assigned(used)) /\ Worth(Assigned(used)) \in Int
    BY <1>2, <1>6, AssignedTo, WorthIsWorthOf
  <1>14. cost' = -WorthOf(Assigned(G))
    BY <1>1, <1>2, <1>4, <1>8, <1>12, <1>13
  <1>15. Search(G, dist', prev', queue', rho)
    BY <1>1, <1>2, <1>10, SearchStarts
  <1>16. InSearch(rho)'
    BY <1>1, <1>5, <1>15, SameSearch DEF InSearch
  <1>17. Problem' /\ ~NothingToValidate(in.slots)'
    BY <1>1, <1>2, SameProblem
  <1>18. IsFlow(used)'
    BY <1>1, <1>5, <1>6, SameFlow
  <1>19. WorthOf(Assigned(used))' = WorthOf(Assigned(G))
    BY <1>1, <1>5, SameAssigned, SameMatchings
  <1>20. QED
    BY <1>14, <1>16, <1>17, <1>18, <1>19 DEF OnTrack

(* The solver's own steps keep its invariant. *)
LEMMA SolverStepKeeps == SolverInv /\ SolverStep => SolverInv'
  <1> SUFFICES ASSUME SolverInv, SolverStep
               PROVE  SolverInv'
    OBVIOUS
  <1>1. total = Running /\ in' = in
    BY DEF SolverStep, Relax, Send, Finish
  <1>2. OnTrack
    BY <1>1 DEF SolverInv
  <1>3. CASE Relax
    <2>1. OnTrack' /\ total' = total
      BY <1>2, <1>3, RelaxStep DEF Relax
    <2>2. QED
      BY <1>1, <2>1 DEF SolverInv
  <1>4. CASE Send
    <2>1. OnTrack' /\ total' = total
      BY <1>2, <1>4, SendStep DEF Send
    <2>2. QED
      BY <1>1, <2>1 DEF SolverInv
  <1>5. CASE Finish
    <2>1. IsOptimum(Answer) /\ total' = Answer
      BY <1>2, <1>5, AnswerIsOptimum DEF Finish
    <2>2. IsOptimum(total)' /\ total' \in Int
      <3>1. IsOptimum(total') /\ total' \in Int
        BY <2>1 DEF IsOptimum
      <3>2. QED
        BY <1>1, <3>1, SameOptimum
    <2>3. Problem'
      BY <1>1, <1>2, SameProblem DEF OnTrack
    <2>4. total' # Running
      BY <2>2, SolverAssumption
    <2>5. QED
      BY <2>2, <2>3, <2>4 DEF SolverInv
  <1>6. QED
    BY <1>3, <1>4, <1>5 DEF SolverStep

-----------------------------------------------------------------------------
(* The invariants the runs check follow. *)

(* A matching of k slots, one at a time.                                   *)
LEMMA InMatchings ==
    ASSUME NEW k, NEW f
    PROVE  f \in Matchings(k) <=> \E S \in SUBSET slotNodes : Cardinality(S) = k /\ IsMatching(f, S)
  <1>1. Matchings(k) = UNION {{g \in Injection(S, playerNodes) : \A s \in S : Fits(s, g[s])} :
                                 S \in {S \in SUBSET slotNodes : Cardinality(S) = k}}
    BY DEF Matchings, kSubset
  <1>2. QED
    BY <1>1 DEF IsMatching

(* What is attained and never beaten is the best.                          *)
LEMMA BestIs ==
    ASSUME NEW M, NEW x \in Int, \E f \in M : Worth(f) = x,
           \A f \in M : Worth(f) \in Int /\ Worth(f) <= x
    PROVE  BestWorth(M) = x
  <1> DEFINE W == {Worth(f) : f \in M}
  <1>1. x \in W /\ \A y \in W : y \in Int /\ y <= x
    OBVIOUS
  <1>2. BestWorth(M) = CHOOSE z \in W : \A y \in W : z >= y
    BY DEF BestWorth, Max
  <1> HIDE DEF W
  <1>3. \A z \in W : (\A y \in W : z >= y) => z = x
    BY <1>1
  <1>4. \A y \in W : x >= y
    BY <1>1
  <1>5. QED
    BY <1>1, <1>2, <1>3, <1>4

(* The flow's potentials show that no assignment of as many slots is worth *)
(* more.                                                                   *)
LEMMA TrackIsCheapest == OnTrack => cost = -BestWorth(Matchings(flow))
  <1> SUFFICES ASSUME OnTrack
               PROVE  cost = -BestWorth(Matchings(flow))
    OBVIOUS
  <1>1. Problem /\ IsFlow(used) /\ cost = -WorthOf(Assigned(used))
    BY DEF OnTrack
  <1>2. PICK pi : Potential(used, pi)
    BY DEF OnTrack, InSearch, Search
  <1>3. flow = Cardinality(Filled(used)) /\ Filled(used) \in SUBSET slotNodes
    BY <1>1, FlowFills DEF flow, FromSource
  <1>4. IsMatching(Assigned(used), Filled(used))
    BY <1>1, AssignedTo
  <1> DEFINE x == Worth(Assigned(used))
  <1>5. x = WorthOf(Assigned(used)) /\ x \in Int
    BY <1>1, <1>4, WorthIsWorthOf
  <1>6. Assigned(used) \in Matchings(flow)
    BY <1>3, <1>4, InMatchings
  <1>7. ASSUME NEW f \in Matchings(flow)
        PROVE  Worth(f) \in Int /\ Worth(f) <= x
    <2>1. PICK S \in SUBSET slotNodes : Cardinality(S) = Cardinality(Filled(used)) /\ IsMatching(f, S)
      BY <1>3, <1>7, InMatchings
    <2>2. QED
      BY <1>1, <1>2, <2>1, FlowIsBest, WorthIsWorthOf
  <1>8. BestWorth(Matchings(flow)) = x
    <2>1. \E f \in Matchings(flow) : Worth(f) = x
      BY <1>6
    <2> HIDE DEF x
    <2>2. QED
      BY <1>5, <1>7, <2>1, BestIs
  <1>9. QED
    BY <1>1, <1>5, <1>8

LEMMA InvIsCheapest == SolverInv => FlowIsCheapest
  BY TrackIsCheapest DEF SolverInv, FlowIsCheapest

(* A full lineup fills every slot there is.                                *)
LEMMA FullMatchings ==
    ASSUME Problem, NEW f
    PROVE  f \in Matchings(numSlots) <=> IsMatching(f, slotNodes)
  <1>1. IsFiniteSet(slotNodes) /\ Cardinality(slotNodes) = numSlots
    BY Numbering
  <1>2. ASSUME NEW S \in SUBSET slotNodes, Cardinality(S) = numSlots
        PROVE  S = slotNodes
    BY <1>1, <1>2, FS_Subset
  <1>3. QED
    BY <1>1, <1>2, InMatchings

(* The answer, in the words of the property.                               *)
LEMMA OptimumIsBest ==
    ASSUME Problem, IsOptimum(total)
    PROVE  LET full == IF NothingToValidate(in.slots) THEN {} ELSE Matchings(numSlots)
           IN  total = IF full = {} THEN 0 ELSE BestWorth(full)
  <1>1. total \in Int
    BY DEF IsOptimum
  <1>2. CASE NothingToValidate(in.slots) \/ ~(\E f : IsMatching(f, slotNodes))
    <2>1. total = 0
      BY <1>2 DEF IsOptimum
    <2>2. NothingToValidate(in.slots) \/ Matchings(numSlots) = {}
      BY <1>2, FullMatchings
    <2>3. QED
      BY <2>1, <2>2
  <1>3. CASE ~NothingToValidate(in.slots) /\ \E f : IsMatching(f, slotNodes)
    <2>1. /\ \E f : IsMatching(f, slotNodes) /\ WorthOf(f) = total
          /\ \A f : IsMatching(f, slotNodes) => WorthOf(f) <= total
      BY <1>3 DEF IsOptimum
    <2>2. \A f : IsMatching(f, slotNodes) => Worth(f) = WorthOf(f) /\ Worth(f) \in Int
      BY WorthIsWorthOf
    <2>3. BestWorth(Matchings(numSlots)) = total
      BY <1>1, <2>1, <2>2, FullMatchings, BestIs
    <2>4. Matchings(numSlots) # {}
      BY <1>3, FullMatchings
    <2>5. QED
      BY <1>3, <2>3, <2>4
  <1>4. QED
    BY <1>2, <1>3

LEMMA InvIsBest == SolverInv => OptimalIsBest
  BY OptimumIsBest DEF SolverInv, OptimalIsBest
=============================================================================
