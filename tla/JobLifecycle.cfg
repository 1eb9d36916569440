SPECIFICATION FairSpec
CONSTANTS
    r1 = r1
    b1 = b1
    w1 = w1
    w2 = w2
    Runs <- MCRuns
    Reachability <- MCReachability
    Workers <- MCWorkers
    NoRun = NoRun
    MaxCrashes = 1
    MaxFaults = 2
INVARIANTS TypeOK JobFollowsRun FinishedIsSettled NoRunLeftBehind MessageMeansQueued
PROPERTIES ImplementsContract RunsComplete
CHECK_DEADLOCK FALSE
