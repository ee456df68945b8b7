SPECIFICATION Spec
CONSTANTS
    Cubes = {g, h}
    Sampled = {g, h}
    Archived = {}
    Good = {g, h}
    Slow = {}
    Front = TRUE
    Deaths = {}
    BatchMax = 2
    MaxWaits = 1
    MaxFails = 10
    MaxKills = 1
INVARIANTS EveryProofVerified
CHECK_DEADLOCK FALSE
