SPECIFICATION FairSpec
CONSTANTS
    t1 = t1
    t2 = t2
    b1 = b1
    b2 = b2
    Tasks = {t1, t2}
    Branches = {b1, b2}
    NoTask = NoTask
    BranchOf <- OwnBranches
    MaxWorkers = 1
    MaxRuns = 1
    RunsOf <- AllRuns
    MaxRestarts = 0
    Runtime = "kubernetes"
    Outcomes = {"blocked", "failed"}
    Faults = {"runtime_api", "late_body"}
INVARIANTS WithinCapacity
PROPERTIES WatchedRunEnds
CHECK_DEADLOCK FALSE
