SPECIFICATION CertFairSpec
CONSTANTS
    Window = 4
    Interval = 2
    MinSkewed = 1
    Attempts = {"a1", "a2"}
    Launched = {"a2"}
    Overlap = {}
    Capabilities <- MCCapabilities
    Samples <- MCSamples
    MaxTrouble = 1
INVARIANTS
    VerdictSound
    PromotionBacked
    SealTruthful
PROPERTY LaunchEnds
CHECK_DEADLOCK FALSE
