SPECIFICATION MCSpec
CONSTANTS
    r1 = r1
    r2 = r2
    r3 = r3
    NoRun = NoRun
    Runs <- MCRuns
    AtStartup = TRUE
    PolicyDirs = {a, b}
    Purls = {p1, p2}
    MaxEdits = 3
    MaxWaiting = 3
CHECK_DEADLOCK FALSE
INVARIANT RunsAreControlled
PROPERTY ReloadsReturn ChangesArrive
