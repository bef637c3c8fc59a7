-------------------------- MODULE MCMatchupCache --------------------------
(* Two weeks for TLC.  Week 1 kicks off at 0 and is played out at 2, week  *)
(* 2 kicks off a long TTL and a deadline later, at 6, and ends after the   *)
(* last instant explored.                                                  *)
EXTENDS MatchupCache, TLC

CONSTANTS s1, r1, r2

MCLocksAt == (<<s1, 1>> :> 0) @@ (<<s1, 2>> :> 6)
MCEndsAt == (1 :> 2) @@ (2 :> 10)
Symmetry == Permutations(Readers)
=============================================================================
