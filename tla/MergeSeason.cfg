CONSTANTS
    s1 = s1
    ro1 = ro1
    src = src
    lA = lA
    lB = lB
    q1 = q1
    q2 = q2
    reg = reg
    anon = anon
    NoSeason = NoSeason
    NoRow = NoRow
    Seasons = {s1}
    Weeks = {1, 2}
    LocksAt <- MCLocksAt
    SeasonOf <- MCSeasonOf
    Accounts = {reg}
    Anonymous = {anon}
    Rosters = {ro1}
    Sources = {src}
    StarterLists = {lA, lB}
    Requests = {q1, q2}
    RequestTimeout = 1
    MaxTime = 2
    MaxInserts = 3
SYMMETRY Symmetry
SPECIFICATION Spec
INVARIANT SeasonDerived
