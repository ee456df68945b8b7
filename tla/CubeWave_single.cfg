SPECIFICATION Spec
CONSTANTS
    c1 = c1
    c2 = c2
    NoFile = NoFile
    Torn = Torn
    None = None
    Cubes <- MCCubes
    Truth <- MCTruth
    Drivers = {d1, d2}
    Slots = {s1, s2}
    Calls <- MCCalls
    Overlap = FALSE
    WritesFail = TRUE
INVARIANTS TypeOK FilesOwned
PROPERTIES SettledKept CleanEndCovers
CHECK_DEADLOCK FALSE
