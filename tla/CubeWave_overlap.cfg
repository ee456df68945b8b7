SPECIFICATION FairSpec
CONSTANTS
    c1 = c1
    c2 = c2
    NoFile = NoFile
    Torn = Torn
    None = None
    Cubes <- MCCubes
    Truth <- MCTruth
    Drivers = {d1, d2}
    Slots = {s1}
    Calls <- MCCalls
    Overlap = TRUE
    WritesFail = FALSE
INVARIANTS VerdictSound CountSound
PROPERTIES NoNewTorn StoreSpec Heals
CHECK_DEADLOCK FALSE
