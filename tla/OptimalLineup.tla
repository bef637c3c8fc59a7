--------------------------- MODULE OptimalLineup ---------------------------
(***************************************************************************)
(* scoring.OptimalLineup: the best legal lineup of a roster as a min-cost  *)
(* flow, source -> slot -> eligible player -> sink, found by successive    *)
(* shortest paths.  One step takes one node off the SPFA queue, or sends   *)
(* one unit of flow.  Nodes are numbered as in the code; an edge is the    *)
(* pair of its nodes, and its residual the reversed pair.  Points are      *)
(* integers (the code's doubles, and their 1e-12 tolerance, without        *)
(* rounding).                                                              *)
(***************************************************************************)
EXTENDS Slots, FiniteSetsExt, SequencesExt

CONSTANTS
    Infinity,  \* +Inf, no number
    NoInput,   \* the solver is not running
    Running    \* no answer yet

ASSUME SolverAssumption == Infinity \notin Int /\ Running \notin Int

VARIABLES
    in,     \* slots, players, points and positions of the problem being solved
    used,   \* the edges that carry flow
    cost,   \* of the flow sent so far
    dist,   \* of each node from the source in this round
    prev,   \* the node each node's dist was reached from, -1 for none
    queue,  \* nodes whose outgoing edges are still to be relaxed (inQueue: its range)
    total   \* the answer: the optimal total, or Running

solverVars == <<in, used, cost, dist, prev, queue, total>>

source == 0
numSlots == Len(in.slots)
slotNodes == 1 .. numSlots
playerBase == 1 + numSlots
sink == playerBase + Len(in.players)
playerNodes == playerBase .. sink - 1
Nodes == source .. sink

player(v) == in.players[v - playerBase + 1]

Fits(s, v) == eligible(in.positions, player(v), in.slots[s])

(* points[player]: a player without points counts 0 (D12). *)
PointsOf(points, p) == IF p \in DOMAIN points THEN points[p] ELSE 0

IsEdge(u, v) ==
    \/ u = source /\ v \in slotNodes
    \/ u \in slotNodes /\ v \in playerNodes /\ Fits(u, v)
    \/ u \in playerNodes /\ v = sink

(* Fault: no residual edges, so what was sent first stays where it is. *)
OpenForwardOnly(u, v) == IsEdge(u, v) /\ <<u, v>> \notin used

(* Every capacity is 1: an edge is open until used, its reverse once used. *)
Open(u, v) == (IsEdge(u, v) /\ <<u, v>> \notin used) \/ <<v, u>> \in used

Cost(u, v) ==
    CASE u \in slotNodes /\ v \in playerNodes -> -PointsOf(in.points, player(v))
      [] u \in playerNodes /\ v \in slotNodes -> PointsOf(in.points, player(u))
      [] OTHER -> 0

(* The order edges were added to adj[u]: the sink first, then by number. *)
InAdjOrder(nodes) ==
    InOrder(nodes, LAMBDA v, w : v # w /\ (v = sink \/ (w # sink /\ v < w)))

-----------------------------------------------------------------------------
Idle == /\ in = NoInput /\ used = {} /\ cost = 0
        /\ dist = <<>> /\ prev = <<>> /\ queue = <<>> /\ total = 0

(* A round starts over from the source. *)
NewRound(nodes) ==
    /\ dist' = [v \in nodes |-> IF v = source THEN 0 ELSE Infinity]
    /\ prev' = [v \in nodes |-> -1]
    /\ queue' = <<source>>

(* The call: no slots known or an unsupported one answers 0 at once. *)
StartSolver(rosterPositions, players, points, positions) ==
    /\ in = NoInput
    /\ in' = [slots |-> StartingSlots(rosterPositions), players |-> players,
              points |-> points, positions |-> positions]
    /\ used' = {}
    /\ cost' = 0
    /\ NewRound(source .. 1 + Len(in'.slots) + Len(players))
    /\ total' = IF NothingToValidate(in'.slots) THEN 0 ELSE Running

Reached == {v \in Nodes : dist[v] # Infinity}

(* Fault: relaxes an edge that gains nothing. *)
ImprovesOrEquals(u, v) == Open(u, v) /\ (v \in Reached => dist[u] + Cost(u, v) <= dist[v])

Improves(u, v) == Open(u, v) /\ (v \in Reached => dist[u] + Cost(u, v) < dist[v])

(* Takes one node off the queue and relaxes its open edges. *)
Relax ==
    /\ total = Running
    /\ queue # <<>>
    /\ LET u        == Head(queue)
           improved == {v \in Nodes : Improves(u, v)}
           queued   == ToSet(Tail(queue))
       IN  /\ dist' = [v \in Nodes |-> IF v \in improved THEN dist[u] + Cost(u, v) ELSE dist[v]]
           /\ prev' = [v \in Nodes |-> IF v \in improved THEN u ELSE prev[v]]
           /\ queue' = Tail(queue) \o InAdjOrder(improved \ queued)
    /\ UNCHANGED <<in, used, cost, total>>

(* The edges back to the source. *)
path[v \in Reached] == IF v = source THEN {} ELSE {<<prev[v], v>>} \cup path[prev[v]]

(* The sink was reached: one unit of flow along the path found. *)
Send ==
    /\ total = Running
    /\ queue = <<>>
    /\ prev[sink] # -1
    /\ used' = {e \in used : <<e[2], e[1]>> \notin path[sink]}
                  \cup {e \in path[sink] : IsEdge(e[1], e[2])}
    /\ cost' = cost + dist[sink]
    /\ NewRound(Nodes)
    /\ UNCHANGED <<in, total>>

flow == Cardinality({e \in used : e[1] = source})

(* Fault: a lineup with an empty slot counts as the best one. *)
AnswerUnfilled == -cost

(* A slot left empty makes the best lineup undefined: 0. *)
Answer == IF flow < numSlots THEN 0 ELSE -cost

Finish ==
    /\ total = Running
    /\ queue = <<>>
    /\ prev[sink] = -1
    /\ total' = Answer
    /\ UNCHANGED <<in, used, cost, dist, prev, queue>>

SolverStep == Relax \/ Send \/ Finish

(* The caller takes the answer. *)
Return ==
    /\ in # NoInput
    /\ total # Running
    /\ in' = NoInput /\ used' = {} /\ cost' = 0
    /\ dist' = <<>> /\ prev' = <<>> /\ queue' = <<>> /\ total' = 0

-----------------------------------------------------------------------------
(* The reference: every way to put k distinct eligible players into slots. *)
Matchings(k) ==
    UNION {{f \in Injection(S, playerNodes) : \A s \in S : Fits(s, f[s])} : S \in kSubset(k, slotNodes)}

Worth(f) == MapThenSumSet(LAMBDA s : PointsOf(in.points, player(f[s])), DOMAIN f)

BestWorth(matchings) == Max({Worth(f) : f \in matchings})

(* Successive shortest paths: however the queue was worked through and     *)
(* whatever earlier units had to be moved, the flow after k units is the   *)
(* cheapest of its size.  A residual cost or a path followed wrongly shows *)
(* only where a later unit has to displace an earlier one (minCostMaxFlow).*)
FlowIsCheapest ==
    total = Running /\ queue = <<source>> => cost = -BestWorth(Matchings(flow))

(* H1, H2, H5: the answer is the best legal full lineup of the roster, and *)
(* 0 when it has none (OptimalLineup).                                     *)
OptimalIsBest ==
    in # NoInput /\ total # Running =>
        LET full == IF NothingToValidate(in.slots) THEN {} ELSE Matchings(numSlots)
        IN  total = IF full = {} THEN 0 ELSE BestWorth(full)

(* The search for the optimum stops, with points of either sign (no        *)
(* negative cycle, no relaxing in circles).                                *)
SolverEnds == total = Running ~> total # Running
=============================================================================
