CONSTANTS
    Infinity = Infinity
    NoInput = NoInput
    Running = Running
    NoLineup = NoLineup
    NoWalk = NoWalk
    Null = Null
    AllLeagues = AllLeagues
    Users <- MCUsers
    Registered <- MCRegistered
    Precision <- MCPrecision
    globalMinWeeks = 3
    Worlds <- MCWorlds
SPECIFICATION FairSSpec
INVARIANTS
    BoardsTypeOK
    KuhnDecides
    LegalNeverBeatsOptimal
    FlowIsCheapest
    OptimalIsBest
    RanksRestOnScoredWeeks
    EdgeReconciles
    SearchKeepsStanding
    
PROPERTY SolverEnds
CHECK_DEADLOCK FALSE
