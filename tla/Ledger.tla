------------------------------- MODULE Ledger -------------------------------
(***************************************************************************)
(* What grading promises the owner of an account's lineups: the picks are  *)
(* theirs to change until the week is graded, and the result is always one *)
(* of the picks that stand.  Whoever has set one pick has it scored once.  *)
(* Nothing is promised about which of several: the result may be replaced. *)
(***************************************************************************)
CONSTANTS
    Entries,  \* one account's week with one roster
    Picks,    \* what can be picked
    NoGrade   \* no result yet

VARIABLES
    picks,  \* the picks standing for each entry, one for each source
    result  \* the pick each entry was graded on

Init ==
    /\ picks = [e \in Entries |-> {}]
    /\ result = [e \in Entries |-> NoGrade]

Repick ==
    /\ picks' \in [Entries -> SUBSET Picks]
    /\ \A e \in Entries : result[e] # NoGrade => picks'[e] = picks[e]
    /\ UNCHANGED result

Grade(e, p) ==
    /\ p \in picks[e]
    /\ result' = [result EXCEPT ![e] = p]
    /\ UNCHANGED picks

Next == Repick \/ \E e \in Entries : \E p \in Picks : Grade(e, p)

Spec == Init /\ [][Next]_<<picks, result>>
=============================================================================
