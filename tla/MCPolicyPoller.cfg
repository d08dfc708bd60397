SPECIFICATION FairPoller
CONSTANTS
    Artifacts <- MCArtifacts
    Refs <- MCRefs
    Configs <- MCConfigs
    StartConfig <- MCStart
    NoArtifact = NoArtifact
    LocalPolicies = LocalPolicies
    NoPoller = NoPoller
    MaxStaleness = 1
    MaxReloads = 3
PROPERTY PoliciesOnlyAdvance Converges
