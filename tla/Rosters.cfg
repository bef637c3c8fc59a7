CONSTANTS
    p1 = p1  p2 = p2  s1 = s1  s2 = s2  r1 = r1
    NoRow = NoRow
    NoEntry = NoEntry
    Players <- MCPlayers
    Syncs <- MCSyncs
    Readers <- MCReaders
    RequestTimeout = 1
    RosterTTL = 1
    MaxFeed = 1
    MaxCommits = 2
    MaxTime = 2
SPECIFICATION FairRSpec
INVARIANTS
    RTypeOK
    RIInv
    PlayersOfOneFeed
    OnlyOvertakenFetchesAreStale
    AnswersTrailByTTL
PROPERTIES
    SyncsEnd
