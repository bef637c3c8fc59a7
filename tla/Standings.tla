----------------------------- MODULE Standings -----------------------------
(***************************************************************************)
(* From one graded week to the boards: scoring.GradeWeek, the leaderboard  *)
(* and weekly-results queries over week_results, and the ranking of the    *)
(* handlers.  A ratio of points is an integer number of Precision-ths      *)
(* (the code's doubles); user ids are ordered like numbers.                *)
(***************************************************************************)
EXTENDS Listing, FiniteSetsExt, SequencesExt

CONSTANTS
    Users,          \* user ids
    Registered,     \* those of them with a row in users; the rest are anonymous
    Precision,      \* what 1.0 stands for
    Null,           \* SQL NULL, and an absent custom_points
    AllLeagues,     \* no league filter
    globalMinWeeks  \* scored weeks to be ranked on the global board

ASSUME StandingsAssumption ==
    /\ Users \subseteq Nat
    /\ Registered \subseteq Users
    /\ Precision \in Nat \ {0}
    /\ globalMinWeeks \in Nat
    /\ Null \notin Int

(* The optimum of players who all lost points is negative. *)
Ratio(a, b) == IF b > 0 THEN (Precision * a) \div b ELSE (Precision * (-a)) \div (-b)

Clamp01(v) == IF v < 0 THEN 0 ELSE IF v > Precision THEN Precision ELSE v

(* Sleeper's total, unless a commissioner has overridden it. *)
OfficialTotal(matchup) ==
    IF matchup.customPoints # Null THEN matchup.customPoints ELSE matchup.points

(* A starter without points, having left the roster, counts 0 (D12). *)
sumPoints(ids, points) ==
    MapThenSumSet(LAMBDA i : IF ids[i] \in DOMAIN points THEN points[ids[i]] ELSE 0, DOMAIN ids)

(* Efficiencies are 0 when the optimum is: the caller leaves the week out. *)
GradeWeek(userTotal, officialTotal, optimalTotal) ==
    LET efficiency(t) == IF optimalTotal > 0 THEN Clamp01(Ratio(t, optimalTotal)) ELSE 0
    IN  [userEfficiency     |-> efficiency(userTotal),
         officialEfficiency |-> efficiency(officialTotal),
         edge               |-> efficiency(userTotal) - efficiency(officialTotal),
         result             |-> CASE userTotal > officialTotal -> "user"
                                  [] officialTotal > userTotal -> "official"
                                  [] OTHER -> "tie"]

-----------------------------------------------------------------------------
(* SQL over week_results rows. *)
SqlRatio(a, b) == IF b = 0 THEN Null ELSE Ratio(a, b)

(* Fault: an edge that is not clamped. *)
SqlUnclamped(v) == IF v = Null THEN 0 ELSE v

(* LEAST(GREATEST(v, 0), 1): both ignore a NULL argument. *)
SqlClamp(v) == IF v = Null THEN 0 ELSE Clamp01(v)

(* COALESCE(AVG(...), 0): rows whose value is NULL are not averaged. *)
Avg(rows, value(_)) ==
    LET counted == {r \in rows : value(r) # Null}
    IN  IF counted = {} THEN 0
        ELSE MapThenSumSet(value, counted) \div Cardinality(counted)

Efficiency(r) == SqlRatio(r.userTotal, r.optimalTotal)

Edge(r) == SqlClamp(Efficiency(r)) - SqlClamp(SqlRatio(r.officialTotal, r.optimalTotal))

WinRate(rows) ==
    LET won     == {r \in rows : r.result = "user"}
        decided == {r \in rows : r.result \in {"user", "official"}}
    IN  IF decided = {} THEN 0 ELSE Ratio(Cardinality(won), Cardinality(decided))

(* Fault: every graded week counts, scored or not. *)
WeeksGraded(rows) == Cardinality(rows)

WeeksPlayed(rows) == Cardinality({r \in rows : r.optimalTotal > 0})

OnBoard(rows, season, league) ==
    {r \in rows : /\ r.user \in Registered
                  /\ r.season = season
                  /\ league = AllLeagues \/ r.league = league}

(* ORDER BY mean_eff DESC, weeks_played DESC, user_id ASC *)
BoardOrder(a, b) ==
    \/ a.meanEfficiency > b.meanEfficiency
    \/ a.meanEfficiency = b.meanEfficiency /\ a.weeksPlayed > b.weeksPlayed
    \/ a.meanEfficiency = b.meanEfficiency /\ a.weeksPlayed = b.weeksPlayed /\ a.user < b.user

BoardRow(board, u) ==
    LET mine == {r \in board : r.user = u}
    IN  [user           |-> u,
         meanEfficiency |-> Avg(mine, Efficiency),
         edge           |-> Avg(mine, Edge),
         winRate        |-> WinRate(mine),
         weeksPlayed    |-> WeeksPlayed(mine)]

Leaderboard(rows, season, league) ==
    LET board == OnBoard(rows, season, league)
    IN  InOrder({BoardRow(board, r.user) : r \in board}, BoardOrder)

(* Users with too few scored weeks follow the ranked ones, unranked. *)
applyRanking(rows, minWeeks) ==
    LET ranked      == Filtered(rows, LAMBDA r : r.weeksPlayed >= minWeeks)
        provisional == Filtered(rows, LAMBDA r : r.weeksPlayed < minWeeks)
    IN  [i \in DOMAIN ranked |-> [row |-> ranked[i], rank |-> i]]
          \o [i \in DOMAIN provisional |-> [row |-> provisional[i], rank |-> 0]]

GlobalLeaderboard(rows, season) == applyRanking(Leaderboard(rows, season, AllLeagues), globalMinWeeks)

LeagueLeaderboard(rows, season, league) == applyRanking(Leaderboard(rows, season, league), 0)

-----------------------------------------------------------------------------
(* One roster's week: its rows, then the two queries of WeeklyResults.     *)
OfRoster(rows, at) ==
    {r \in rows : /\ r.season = at.season /\ r.league = at.league
                  /\ r.roster = at.roster /\ r.week = at.week}

(* COALESCE(MAX(column), 0): 0 only of no rows, totals can be negative.    *)
MaxOrZero(column) == IF column = {} THEN 0 ELSE Max(column)

Baseline(rows, at) ==
    LET setters == OfRoster(rows, at)
    IN  [officialTotal |-> MaxOrZero({r.officialTotal : r \in setters}),
         optimalTotal  |-> MaxOrZero({r.optimalTotal : r \in setters}),
         setterCount   |-> Cardinality(setters),
         beatOfficial  |-> Cardinality({r \in setters : r.userTotal > r.officialTotal})]

SetterOrder(a, b) ==
    \/ SqlClamp(Efficiency(a)) > SqlClamp(Efficiency(b))
    \/ SqlClamp(Efficiency(a)) = SqlClamp(Efficiency(b)) /\ a.user < b.user

(* Fault: no JOIN with users. *)
RankEveryone(setters) ==
    LET s == InOrder(setters, SetterOrder)
    IN  [i \in DOMAIN s |-> [user |-> s[i].user, edge |-> Edge(s[i]), rank |-> i]]

RankSetters(setters) ==
    LET s == InOrder({r \in setters : r.user \in Registered}, SetterOrder)
    IN  [i \in DOMAIN s |-> [user |-> s[i].user, edge |-> Edge(s[i]), rank |-> i]]

(* Fault: the rank of a searched row counts the matches only. *)
RankedMatches(setters, q) == RankSetters({r \in setters : r.user \in q})

(* WITH ranked AS (...) SELECT ... WHERE username ILIKE q: q stands for    *)
(* the users it matches.                                                   *)
MatchingSetters(setters, q) == Filtered(RankSetters(setters), LAMBDA r : r.user \in q)


(* LIMIT limit OFFSET offset *)
Page(s, limit, offset) ==
    SubSeq(s, offset + 1, IF offset + limit > Len(s) THEN Len(s) ELSE offset + limit)
=============================================================================
