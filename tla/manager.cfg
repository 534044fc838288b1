SPECIFICATION Spec
CONSTANTS
    t1 = t1
    t2 = t2
    b1 = b1
    b2 = b2
    Tasks = {t1, t2}
    Branches = {b1}
    NoTask = NoTask
    BranchOf <- SameBranch
    MaxWorkers = 2
    MaxRuns = 2
    RunsOf <- FirstResumes
    MaxRestarts = 1
    Runtime = "docker"
    Outcomes = {"blocked", "failed"}
    Faults = {"git_host"}
INVARIANTS TypeOK LockMatchesTask OwnReport WorkerHasTask EndIsAnnounced
PROPERTIES ImplementsLifecycle EndedStaysEnded
CHECK_DEADLOCK FALSE
