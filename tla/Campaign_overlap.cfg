SPECIFICATION WorldsSpec
CONSTANTS
    a = a
    d = d
    NoFile = NoFile
    Torn = Torn
    None = None
    Cubes <- PollCubes
    CubesOf <- PollCubesOf
    Truth <- HardSat
    Needs <- OneLong
    Orchs = {o1, o2}
    Callers <- OnlyWatchdog
    MaxRestarts = 2
    StallPolls = 2
    StallRestarts = 2
    CheckRcs = {0, 3}
    MaxFaults = 1
    Orphans = FALSE
SYMMETRY SlotSymmetry
INVARIANTS DoneSound PollTrue
PROPERTIES StoreSpec
CHECK_DEADLOCK FALSE
