SPECIFICATION Spec
CONSTANTS
    r1 = r1
    b1 = b1
    w1 = w1
    w2 = w2
    Runs <- MCRuns
    Reachability <- MCReachability
    Workers <- MCWorkers
    NoRun = NoRun
    MaxCrashes = 0
    MaxFaults = 0
INVARIANT CleanupTakesJobs
CHECK_DEADLOCK FALSE
