SPECIFICATION Spec
CONSTANTS
    Cubes = {g, b, p}
    Sampled = {g, b}
    Archived = {}
    Good = {g, p}
    Slow = {}
    Front = TRUE
    Deaths = {"tool", "worker"}
    BatchMax = 2
    MaxWaits = 0
    MaxFails = 1
    MaxKills = 1
INVARIANTS TypeOK EvidenceKept PassTrue BadProofHalts
CHECK_DEADLOCK FALSE
