SPECIFICATION MCSpec
CONSTANTS
    Absent = Absent
    Torn = Torn
    p1 = p1
    p2 = p2
    MaxSplit = 24
    Procs = {p1}
    Jobs <- MCJobs
    MaxStarts = 3
    MaxKills = 2
    Crew = {p1, p2}
    CrewJobs <- MCCrewJobs
    CrewStarts = 2
    CrewKills = 1
    MaxN = 7
    MaxK = 5
    MaxL = 5
    StreamJobs <- MCStreamJobs
    MaxClauses = 30
    MaxWidth = 7
    N = 2
    Encoders = {"totalizer"}
    Ranking <- MCRanking
    Depths = {1}
    VerifiedDepth = 2
    Solutions <- MCSolutions
    LayoutKills = 2
SYMMETRY Alike
INVARIANTS EncodersExact SetupTrue FilesTrue RunTrue
PROPERTIES MeaningSpec
CHECK_DEADLOCK FALSE
