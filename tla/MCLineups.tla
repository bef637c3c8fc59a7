----------------------------- MODULE MCLineups -----------------------------
(* A season of two weeks for TLC: week 1 locks at instant 1, week 2 has no *)
(* week_locks row.                                                         *)
EXTENDS Lineups, TLC

CONSTANTS s1, ro1, src, lA, lB, q1, q2, reg, anon

MCLocksAt == (<<s1, 1>> :> 1)
MCSeasonOf == (ro1 :> s1)
Symmetry == Permutations(StarterLists) \cup Permutations(Requests)
=============================================================================
