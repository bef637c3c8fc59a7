------------------------------- MODULE Slots -------------------------------
(***************************************************************************)
(* Lineup legality: which positions a starting slot takes, and which lists *)
(* of starters fill a league's slots (ValidateLineup, by Kuhn's augmenting *)
(* paths).  A player's fantasy positions are a set; a player missing from  *)
(* the position map has none.                                              *)
(***************************************************************************)
EXTENDS Listing, Functions

SlotEligibility ==
    [slot \in {"QB", "RB", "WR", "TE", "K", "DEF", "FLEX", "SUPER_FLEX"} |->
        CASE slot = "FLEX"       -> {"RB", "WR", "TE"}
          [] slot = "SUPER_FLEX" -> {"QB", "RB", "WR", "TE"}
          [] OTHER               -> {slot}]

nonStartingSlots == {"BN", "IR", "TAXI"}

StartingSlots(rosterPositions) == Filtered(rosterPositions, LAMBDA p : p \notin nonStartingSlots)

(* No slots known, or a slot the table lacks: validation and the optimal   *)
(* lineup both give up (D16, D17).                                         *)
NothingToValidate(slots) ==
    slots = <<>> \/ \E i \in DOMAIN slots : slots[i] \notin DOMAIN SlotEligibility

eligible(positions, player, slot) ==
    player \in DOMAIN positions /\ SlotEligibility[slot] \cap positions[player] # {}

(* augment is asked to fill a slot.  st is the slot, the starters visited  *)
(* since the slot at hand was begun, and the slot each starter is matched  *)
(* to (0 for none).                                                        *)
Searches(problem) ==
    LET starters == DOMAIN problem.starters
        slots    == DOMAIN problem.slots
    IN  [slot : slots, visited : SUBSET starters, match : [starters -> slots \cup {0}]]

Candidates(problem, st) ==
    {pi \in DOMAIN problem.starters \ st.visited :
        eligible(problem.positions, problem.starters[pi], problem.slots[st.slot])}

(* Fault: a starter that is taken is never moved to another slot. *)
TakeNextGreedily(problem, augment, st) ==
    LET free == {pi \in Candidates(problem, st) : st.match[pi] = 0}
        pi   == CHOOSE i \in free : \A j \in free : i <= j
    IN  [found   |-> free # {},
         visited |-> st.visited,
         match   |-> IF free = {} THEN st.match ELSE [st.match EXCEPT ![pi] = st.slot]]

(* A round of augment's loop and what follows.  The loop goes on with the  *)
(* first candidate left: none before it becomes one, as starters stay      *)
(* visited.                                                                *)
TakeNext(problem, augment, st) ==
    LET candidates == Candidates(problem, st)
        pi    == CHOOSE i \in candidates : \A j \in candidates : i <= j
        seen  == st.visited \cup {pi}
        moved == IF st.match[pi] = 0 THEN [found |-> TRUE, visited |-> seen, match |-> st.match]
                 ELSE augment[[slot |-> st.match[pi], visited |-> seen, match |-> st.match]]
    IN  IF candidates = {} THEN [found |-> FALSE, visited |-> st.visited, match |-> st.match]
        ELSE IF moved.found THEN [moved EXCEPT !.match[pi] = st.slot]
        ELSE augment[[slot |-> st.slot, visited |-> moved.visited, match |-> moved.match]]

Augment(problem) ==
    LET augment[st \in Searches(problem)] == TakeNext(problem, augment, st)
    IN  augment

(* assignSlots stops at the first slot no path can fill. *)
AssignedSlots(problem) ==
    LET assigned[s \in 0 .. Len(problem.slots)] ==
            IF s = 0 THEN [found |-> TRUE, visited |-> {}, match |-> [pi \in DOMAIN problem.starters |-> 0]]
            ELSE IF assigned[s - 1].found
                 THEN Augment(problem)[[slot |-> s, visited |-> {}, match |-> assigned[s - 1].match]]
            ELSE assigned[s - 1]
    IN  assigned

assignSlots(problem) == AssignedSlots(problem)[Len(problem.slots)].found

ValidateLineup(rosterPositions, starters, positions) ==
    LET slots == StartingSlots(rosterPositions)
    IN  \/ NothingToValidate(slots)
        \/ /\ Len(starters) = Len(slots)
           /\ IsInjective(starters)
           /\ assignSlots([slots |-> slots, starters |-> starters, positions |-> positions])

-----------------------------------------------------------------------------
(* What a legal lineup is: some one-to-one assignment of the starters to   *)
(* the slots puts everyone where a position of theirs is allowed.          *)
IsLegal(slots, starters, positions) ==
    /\ Len(starters) = Len(slots)
    /\ IsInjective(starters)
    /\ \E f \in Bijection(DOMAIN slots, DOMAIN starters) :
          \A s \in DOMAIN slots : eligible(positions, starters[f[s]], slots[s])
=============================================================================
