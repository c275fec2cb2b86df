SPECIFICATION Spec
CONSTANTS
    Runs = {r1, r2}
    Configs <- MCConfigs
    Evidence <- MCEvidence
    Collected <- MCCollected
    Cutoff = 2
    MinimumEvents = 1
    MaxAttempts = 3
INVARIANTS PassIsClean ReadersAgree RecordMatchesArtifacts
SYMMETRY RunSymmetry
CHECK_DEADLOCK FALSE
