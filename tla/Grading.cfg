CONSTANTS
    s1 = s1
    ro1 = ro1
    src = src
    src2 = src2
    lA = lA
    lB = lB
    q1 = q1
    g1 = g1
    g2 = g2
    reg = reg
    anon = anon
    NoSeason = NoSeason
    NoRow = NoRow
    NoResult = NoResult
    Seasons = {s1}
    CurrentSeason = s1
    Override = 0
    Weeks = {1, 3}
    LocksAt <- MCLocksAt
    SeasonOf <- MCSeasonOf
    Accounts = {reg}
    Anonymous = {anon}
    Rosters = {ro1}
    Sources = {src, src2}
    StarterLists = {lA, lB}
    Requests = {q1}
    Graders = {g1, g2}
    RequestTimeout = 1
    MaxTime = 3
    MaxInserts = 2
SYMMETRY Symmetry
SPECIFICATION GSpec
INVARIANTS
    GTypeOK
    ResultsStandForPicks
PROPERTIES
    OnlyAnotherSourceOverwrites
    ImplementsLedger
