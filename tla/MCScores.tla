------------------------------ MODULE MCScores ------------------------------
(* Three families of worlds.  In the first one lineup is graded, over      *)
(* leagues, rosters, points of either sign and starters chosen to cross    *)
(* the flex slots.  In the second three users set lineups for two leagues  *)
(* and four weeks, one of which nobody can score in.  In the third a       *)
(* client pages through a week that three accounts mirror.                 *)
EXTENDS Scores

MCPrecision == 1000
MCUsers == 1 .. 4
MCRegistered == {1, 2, 4}

Players == <<"a", "b", "c", "d", "e">>
One == [user |-> 1, league |-> "x", roster |-> 1, week |-> 1, season |-> "s"]

Positions ==
    {[a |-> {"QB"}, b |-> {"RB"}, c |-> {"RB", "WR"}, d |-> {"WR"}, e |-> {"TE"}],
     [a |-> {"QB"}, b |-> {"QB", "TE"}, c |-> {"RB"}, d |-> {"RB", "WR"}, e |-> {}]}

League(positions) == [league \in {"x", "y"} |-> positions]

Matchup(positions, playerPoints, points, custom) ==
    [players |-> Players, positions |-> positions, playerPoints |-> playerPoints,
     points |-> points, customPoints |-> custom]

World(rosterPositions, positions, playerPoints, starters) ==
    [rosterPositions |-> League(rosterPositions),
     matchups |-> Where(One) :> Matchup(positions, playerPoints, 9, Null),
     lineups |-> {One @@ [starters |-> starters]},
     asks |-> {}]

Flat == [p \in ToSet(Players) |-> 5]

(* Every lineup for a few leagues. *)
Lineups(n) == [1 .. n -> {"a", "b", "c", "d"}] \cup {<<"e", "b">>}
LegalityWorlds ==
    {World(rp, pos, Flat, st) :
        rp \in {<<"FLEX", "BN", "WR", "SUPER_FLEX">>, <<"SUPER_FLEX", "FLEX", "QB">>, <<"IDP", "QB", "RB">>, <<"BN">>},
        pos \in Positions, st \in Lineups(3)}

(* Every assignment of points for a few lineups. *)
PointWorlds ==
    {World(set.rp, pos, pts, set.st) :
        set \in {[rp |-> <<"SUPER_FLEX", "FLEX", "WR", "QB">>, st |-> <<"b", "c", "d", "a">>],
                 [rp |-> <<"FLEX", "SUPER_FLEX", "RB", "BN">>, st |-> <<"d", "a", "c">>],
                 [rp |-> <<"RB", "RB", "RB">>, st |-> <<"b", "c", "d">>]},
        pos \in Positions,
        pts \in [{"a", "b", "c", "d"} -> {-1, 3, 8}]}

(* The boards: league y has one roster of the same players. *)
Week(n) == IF n = 4 THEN [p \in ToSet(Players) |-> 0]
           ELSE [a |-> 6, b |-> 2 + n, c |-> 4, d |-> 3, e |-> 0]
Set(u, league, n, starters) ==
    [user |-> u, league |-> league, roster |-> 1, week |-> n, season |-> "s", starters |-> starters]

Flexes(lineups, asks) ==
    [rosterPositions |-> League(<<"FLEX", "SUPER_FLEX">>),
     matchups |-> [at \in {Where(l) : l \in lineups} |->
                      Matchup([a |-> {"QB"}, b |-> {"RB"}, c |-> {"RB", "WR"}, d |-> {"WR"}, e |-> {}],
                              Week(at.week), 8, IF at.week = 2 THEN 99 ELSE Null)],
     lineups |-> lineups,
     asks |-> asks]

BoardWorlds ==
    {Flexes({Set(1, "x", 1, <<"c", "b">>), Set(1, "x", 2, <<"d", "b">>), Set(1, "y", 2, <<"d", "c">>),
             Set(2, "x", 1, st), Set(2, "x", 2, <<"c", "b">>), Set(2, "x", 4, <<"c", "d">>),
             Set(3, "x", 1, <<"d", "b">>)}, {}) : st \in {<<"c", "b">>, <<"d", "b">>}}

PageWorlds ==
    {Flexes({Set(1, "x", 1, <<"a", "d">>), Set(2, "x", 1, <<"d", "b">>), Set(3, "x", 1, <<"c", "a">>),
             Set(4, "x", 1, <<"c", "b">>)},
            {[at |-> [league |-> "x", roster |-> 1, week |-> 1, season |-> "s"],
              q |-> ask[1], limit |-> ask[2]] : ask \in {<<1 .. 4, 1>>, <<1 .. 4, 2>>, <<{2, 4}, 1>>}})}

MCWorlds == LegalityWorlds \cup PointWorlds \cup BoardWorlds \cup PageWorlds
=============================================================================
