SPECIFICATION FairSpec
CONSTANTS
    r1 = r1
    r2 = r2
    r3 = r3
    r4 = r4
    r5 = r5
    h1 = h1
    h2 = h2
    Reqs <- MCReqs
    Hosts <- MCHosts
    HostOf <- MCHostOf
    Threshold = 2
    Cooldown = 1
    HostSlots = 2
    FetchSlots = 1
INVARIANTS ProbeHeld SlotsConserved
PROPERTIES OnlyProbeDecides AccessResolves
