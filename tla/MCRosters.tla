----------------------------- MODULE MCRosters -----------------------------
(* Two players, two overlapping syncs and one reader over a short while. *)
EXTENDS Rosters

CONSTANTS p1, p2, s1, s2, r1

MCPlayers == {p1, p2}
MCSyncs == {s1, s2}
MCReaders == {r1}
=============================================================================
