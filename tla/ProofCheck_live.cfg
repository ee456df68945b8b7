SPECIFICATION FairSpec
CONSTANTS
    Cubes = {g, h}
    Sampled = {g, h}
    Archived = {h}
    Good = {g, h}
    Slow = {g}
    Front = TRUE
    Deaths = {"tool", "worker"}
    BatchMax = 2
    MaxWaits = 1
    MaxFails = 10
    MaxKills = 1
PROPERTIES StandsDown PhaseEnds
CHECK_DEADLOCK FALSE
