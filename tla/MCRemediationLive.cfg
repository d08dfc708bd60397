SPECIFICATION FairSpec
CONSTANTS
    c1 = c1
    c2 = c2
    NoLimit = NoLimit
    NoResources = NoResources
    IntMax <- MCIntMax
    Containers <- MCOne
    Scenarios <- MCQuiet
    Configs <- MCConfig
    Modes <- MCThrottleOnly
PROPERTY LimitsFollowVerdicts
