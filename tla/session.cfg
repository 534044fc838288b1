SPECIFICATION FairSpec
CONSTANTS
    MaxLines = 3
    MaxRuns = 2
    Places = {p1, p2}
    RETRIES = 2
    SizeUpto <- McSizeUpto
    MAX_LOG_CALL = 2
    MAX_SESSION_LOG_BYTES = 2
    Empty = Empty
    LateBodies = FALSE
INVARIANTS NoGapInRun SentIsKept ActiveIsServed
PROPERTY LastFlushEnds
CHECK_DEADLOCK FALSE
