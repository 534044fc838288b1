SPECIFICATION FairSpec
CONSTANTS
    t1 = t1
    t2 = t2
    b1 = b1
    b2 = b2
    Tasks = {t1}
    Branches = {b1}
    NoTask = NoTask
    BranchOf <- OneTask
    MaxWorkers = 1
    MaxRuns = 1
    RunsOf <- AllRuns
    MaxRestarts = 0
    Runtime = "docker"
    Outcomes = {"success", "blocked", "timed_out", "failed"}
    Faults = {"runtime_api"}
PROPERTIES EveryRunEnds
CHECK_DEADLOCK FALSE
