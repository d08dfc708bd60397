SPECIFICATION Spec
CONSTANTS
    c1 = c1
    c2 = c2
    NoLimit = NoLimit
    NoResources = NoResources
    IntMax <- MCIntMax
    Containers <- MCTwo
    Scenarios <- MCScenarios
    Configs <- MCConfig
    Modes <- MCModes
SYMMETRY MCSymmetry
INVARIANTS ThrottleIsKnown
PROPERTY EscalationIsGradual
