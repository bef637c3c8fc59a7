----------------------------- MODULE MCGrading -----------------------------
(* A season for TLC with a week missing between two seeded ones, as the    *)
(* 2026 seed misses week 12: week 1 locks at instant 1, week 3 at 2.       *)
EXTENDS Grading, TLC

CONSTANTS s1, ro1, src, src2, lA, lB, q1, g1, g2, reg, anon

MCLocksAt == (<<s1, 1>> :> 1) @@ (<<s1, 3>> :> 2)
MCSeasonOf == (ro1 :> s1)
Symmetry == Permutations(StarterLists) \cup Permutations(Graders) \cup Permutations(Sources)
=============================================================================
