------------------------------- MODULE Scores -------------------------------
(***************************************************************************)
(* Scoring end to end: Boards, with the totals of each lineup computed by  *)
(* a run of the optimal-lineup solver.  Every step of this specification   *)
(* is one of Boards' or leaves its variables alone.                        *)
(***************************************************************************)
EXTENDS OptimalLineup, Boards

IsSequence(s) == s \in Seq(ToSet(s))

ASSUME ScoresAssumption ==
    \A w \in Worlds :
        /\ \A l \in w.lineups : IsSequence(l.starters) /\ IsSequence(w.rosterPositions[l.league])
        /\ \A at \in DOMAIN w.matchups :
              /\ IsSequence(w.matchups[at].players)
              /\ w.matchups[at].playerPoints \in [DOMAIN w.matchups[at].playerPoints -> Int]
              /\ w.matchups[at].points \in Int
              /\ w.matchups[at].customPoints \in Int \cup {Null}

sVars == <<solverVars, boardVars>>

Where(l) == [league |-> l.league, roster |-> l.roster, week |-> l.week]

SInit == Idle /\ BoardsInit

(* The matchup is looked up; a lineup whose roster has none stays ungraded. *)
BeginLineup(l) ==
    /\ BeginGrade(l)
    /\ Where(l) \in DOMAIN world.matchups
    /\ LET m == world.matchups[Where(l)]
       IN  StartSolver(world.rosterPositions[l.league], m.players, m.playerPoints, m.positions)

Solve == SolverStep /\ UNCHANGED boardVars

EndLineup ==
    /\ Return
    /\ \/ LET m == world.matchups[Where(grading)]
          IN  EndGrade(sumPoints(grading.starters, m.playerPoints), OfficialTotal(m), total)
       \/ AbandonGrade

SNext ==
    \/ \E l \in world.lineups : BeginLineup(l)
    \/ Solve
    \/ EndLineup
    \/ \E ask \in world.asks : BeginWalk(ask) /\ UNCHANGED solverVars
    \/ QueryBaseline /\ UNCHANGED solverVars
    \/ QuerySetters /\ UNCHANGED solverVars

SSpec == SInit /\ [][SNext]_sVars

(* The solver is a loop of one request: nothing but the processor holds it up. *)
FairSSpec == SSpec /\ WF_sVars(Solve)

-----------------------------------------------------------------------------
Solving == grading # NoLineup /\ used = {} /\ queue = <<source>> /\ total = Running

(* D2: a lineup the server accepts can be laid out in the slots, and every *)
(* such lineup is accepted whatever the order of its starters and however  *)
(* the flex slots have to be shuffled (ValidateLineup, assignSlots).       *)
KuhnDecides ==
    Solving => (ValidateLineup(in.slots, grading.starters, in.positions)
                <=> IsLegal(in.slots, grading.starters, in.positions))

(* D23: no lineup that is legal for the graded roster scores above the     *)
(* optimum it is measured by, so an efficiency above 1 needs a lineup whose *)
(* validation was skipped or a roster that has changed (OptimalLineup).    *)
LegalNeverBeatsOptimal ==
    (/\ grading # NoLineup
     /\ total # Running
     /\ ~NothingToValidate(in.slots)
     /\ ToSet(grading.starters) \subseteq ToSet(in.players)
     /\ IsLegal(in.slots, grading.starters, in.positions))
    => sumPoints(grading.starters, in.points) <= total
=============================================================================
