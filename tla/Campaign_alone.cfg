SPECIFICATION WorldsSpec
CONSTANTS
    a = a
    b = b
    d = d
    NoFile = NoFile
    Torn = Torn
    None = None
    Cubes <- MCCubes
    CubesOf <- MCCubesOf
    Truth <- AllUnsat
    Needs <- MCNeeds
    Orchs = {o1, o2}
    Callers <- OnlyWatchdog
    MaxRestarts = 3
    StallPolls = 2
    StallRestarts = 2
    CheckRcs = {0}
    MaxFaults = 2
    Orphans = FALSE
INVARIANTS TypeOK InOrder OneAtATime
PROPERTIES AnswersKept UnsatCompletes SatReported NeverSilent
CHECK_DEADLOCK FALSE
