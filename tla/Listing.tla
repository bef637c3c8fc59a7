------------------------------ MODULE Listing ------------------------------
(* Sets put in order and sequences filtered, in terms the prover can       *)
(* expand: the entry of rank i has i - 1 before it.                        *)
EXTENDS Integers, Sequences, FiniteSets

InOrder(S, Before(_, _)) ==
    [i \in 1 .. Cardinality(S) |-> CHOOSE x \in S : Cardinality({y \in S : Before(y, x)}) = i - 1]

Filtered(s, Keep(_)) ==
    LET kept == InOrder({i \in DOMAIN s : Keep(s[i])}, LAMBDA i, j : i < j)
    IN  [i \in DOMAIN kept |-> s[kept[i]]]
=============================================================================
