SPECIFICATION FairSpec
CONSTANTS
    Cfgs <- MCCfgs
    Startup <- MCStartup
    Namespaces <- MCNamespaces
    MaxCalls = 3
    CanRevert = FALSE
CHECK_DEADLOCK FALSE
INVARIANT ConfigurationIsCurrent
PROPERTY PendingEnds
