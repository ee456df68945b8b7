SPECIFICATION MCSpec
CONSTANTS
    Absent = Absent
    Garbage = Garbage
    NoFile = NoFile
    Empty = Empty
    tot = tot
    seq = seq
    s1 = s1
    s2 = s2
    s3 = s3
    p1 = p1
    p2 = p2
    p3 = p3
    MaxSplit = 24
    Waves <- MCWaves
    Pins <- MCPins
    Truths <- MCTruths
    MaxKills = 1
    Setups <- MCSetups
    Refusals = TRUE
    Starters = {s1, s2, s3}
    Pids = {p1, p2, p3}
    Modes <- MCModes
    Horizon = 9
    Hours = 6
    Moment = 2
SYMMETRY Alike
INVARIANTS HarvestTrue ConsolesTrue LockTrue SleepMeasured
PROPERTIES ClaimBacked NobodyUncovered
CHECK_DEADLOCK FALSE
