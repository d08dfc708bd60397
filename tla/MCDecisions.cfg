SPECIFICATION Spec
CONSTANTS
    NoLimit = NoLimit
    NoTime = NoTime
    NoMaxAge = NoMaxAge
    NoIndex = NoIndex
    IntMax <- MCIntMax
    ClockSkewTolerance <- MCSkew
    maxReasonableAge <- MCReasonable
    Checks <- MCChecks
CHECK_DEADLOCK FALSE
INVARIANTS ThrottleIsSafe EvidenceIsCurrent VerifiedIsEarned JunkIsAbsent
INVARIANTS TrustIsStable VexIsOrderFree SourcesAreTrusted SbomHidesNothing FeedFindsAffected MergingHidesNothing
