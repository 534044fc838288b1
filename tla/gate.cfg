SPECIFICATION Spec
CONSTANTS
    MaxTasks = 2
    MaxRuns = 4
    Host = "api"
INVARIANT OnePr
PROPERTIES ScannedBeforePr DeletesOwnBranch
CHECK_DEADLOCK FALSE
