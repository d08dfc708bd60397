SPECIFICATION MCSpec
CONSTANTS
    d1 = d1
    d2 = d2
    r1 = r1
    w1 = w1
    w2 = w2
    NoKey = NoKey
    Keys <- MCKeys
    Shard <- MCShard
    Namespaces <- MCNamespaces
    TTLs <- MCTTLs
    Readers <- MCReaders
    Writers <- MCWriters
    maxSize = 2
    MaxTime = 3
    MaxEpoch = 2
    Configs <- MCConfigs
    Containers <- MCContainers
    maxReloads = 3
    NoDigest = NoDigest
    h1 = h1
    h2 = h2
    h3 = h3
    u1 = u1
    u2 = u2
    BreakerHosts <- MCHosts
    Getters <- MCGetters
    maxBreakers = 2
    MaxUses = 5
    NoGetter = NoGetter
    Artifact <- MCArtifact
    maxReferrers = 3
    maxNotationReferrers = 1
    maxBaselineReferrers = 1
    maxTotalDownloadSize = 4
    maxTotalAttestationSize = 3
    maxConcurrentCollectFetch = 2
    fetchMaxRetries = 1
    NoAnswer = NoAnswer
    seed = seed
    i1 = i1
    i2 = i2
    f1 = f1
    Seed = seed
    Imports <- MCImports
    Fetches <- MCFetches
    Bundles <- MCBundles
    OfflineConfigs <- MCOffline
    Nobody = Nobody
    maxTampered = 1
    g1 = g1
    g2 = g2
    Gets <- MCGets
    trustedRootCacheTTL = 2
    trustedRootMaxStaleness = 3
    negativeCacheTTL = 2
    failedRootRetryInterval = 1
    MaxRootTime = 5
    Never = Never
SYMMETRY MCSymmetry
CHECK_DEADLOCK FALSE
INVARIANTS CacheIsSound AdmittedByCurrentConfig TrackedDigestIsRunning FetchIsHonest StoreIsValidated FetchIsWholeBundle RootIsCurrent
PROPERTY FreshIsKept TrippedIsKept
