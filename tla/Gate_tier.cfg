SPECIFICATION Spec
CONSTANTS
    Absent = Absent
    MaxSplit = 24
    Inputs <- MCInputs
    Witnesses <- MCWitnesses
    RunLogs <- MCRuns
    Transcripts <- MCTranscripts
    Waves <- MCWaves
    Verdicts <- MCVerdicts
    Lines <- MCLines
    Anchors <- MCAnchors
    Encoders <- MCEncoders
    Fixture <- MCFixture
    Refuted <- MCRefuted
    Verified <- MCVerified
INVARIANTS ProofTierNeedsTranscripts
CHECK_DEADLOCK FALSE
