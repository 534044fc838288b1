SPECIFICATION Spec
CONSTANTS
    Timeout = 3
    AskWait = 7
    Margin = 1
    Grace = 8
    StartGrace = 1
    Delay = 1
    SendTime = 1
    PollTime = 1
    Rounding = 1
    Watch = 1
    StopTime = 1
    MaxAsks = 2
INVARIANTS FinishFits WaitsWithinTotal NeverPastCap
CHECK_DEADLOCK FALSE
