SPECIFICATION WorldsSpec
CONSTANTS
    Absent = Absent
    MaxSplit = 24
    Inputs <- MCInputs
    Witnesses <- MCWitnesses
    RunLogs <- MCRuns
    Transcripts <- MCTranscripts
    Waves <- MCWaves
    Verdicts <- MCVerdicts
    Lines <- MCLines
    Anchors <- MCAnchors
    Encoders <- MCEncoders
    Fixture <- MCFixture
    Refuted <- MCRefuted
    Verified <- MCVerified
    Split <- MCSplit
    Base <- MCBase
    Truth <- AllUnsat
    Modes = {FALSE, TRUE}
    Overlap = TRUE
    MaxLines = 2
    MaxKills = 1
INVARIANTS GateSound LevelsEarned ImportSound
PROPERTIES EvidenceStays
CHECK_DEADLOCK FALSE
