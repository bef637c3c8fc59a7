CONSTANTS
    Infinity = Infinity
    NoInput = NoInput
    Running = Running
    NoLineup = NoLineup
    NoWalk = NoWalk
    Null = Null
    AllLeagues = AllLeagues
    Users <- MCUsers
    Registered <- MCRegistered
    Precision <- MCPrecision
    globalMinWeeks = 3
    Worlds <- BoardWorlds
SPECIFICATION SSpec
INVARIANT EdgeIsOverScoredWeeks
CHECK_DEADLOCK FALSE
