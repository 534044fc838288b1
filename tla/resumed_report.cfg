SPECIFICATION Spec
CONSTANTS
    t1 = t1
    t2 = t2
    b1 = b1
    b2 = b2
    Tasks = {t1}
    Branches = {b1}
    NoTask = NoTask
    BranchOf <- OneTask
    MaxWorkers = 1
    MaxRuns = 2
    RunsOf <- AllRuns
    MaxRestarts = 0
    Runtime = "kubernetes"
    Outcomes = {"success", "blocked", "timed_out", "failed"}
    Faults = {}
INVARIANTS OwnReport
CHECK_DEADLOCK FALSE
