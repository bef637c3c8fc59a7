CONSTANTS
    s1 = s1
    r1 = r1
    r2 = r2
    NoSeason = NoSeason
    NoEntry = NoEntry
    NoStats = NoStats
    Seasons = {s1}
    CurrentSeason = s1
    Weeks = {1, 2}
    LocksAt <- MCLocksAt
    EndsAt <- MCEndsAt
    HistoricalTTL = 3
    CurrentTTL = 1
    RequestTimeout = 1
    Readers = {r1, r2}
    MaxTime = 7
SYMMETRY Symmetry
SPECIFICATION Spec
INVARIANTS
    TypeOK
    IInv
    SavedIsFinal
    PastAnswersAreFinal
    FinalComparisonsAreFinal
PROPERTY LiveAnswersAreFresh
