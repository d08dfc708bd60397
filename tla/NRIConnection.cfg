SPECIFICATION FairSpec
CONSTANTS
    MaxAttempts = 4
    maxAbandoned = 2
    NoStub = NoStub
CHECK_DEADLOCK FALSE
INVARIANT ConnectionIsSound
PROPERTY ShutdownEnds
