SPECIFICATION FairSpec
CONSTANTS
    c1 = c1
    c2 = c2
    i1 = i1
    i2 = i2
    k1 = k1
    Calls <- MCCalls
    Invs <- MCNoInvs
    Keys <- MCKeys
    Shards <- MCShards
    KeyOf <- MCKeyOf
    HitsOf <- MCHitsOf
    ShardOf <- MCShardOf
    InvShardOf <- MCInvShardOf
    Admissions <- MCCalls
    MaxReloads = 1
    CanStop = TRUE
CHECK_DEADLOCK FALSE
PROPERTY EverythingReturns
