SPECIFICATION FairSpec
CONSTANTS
    MaxAsks = 2
    MaxPosts = 2
INVARIANTS AnswersItsQuestion NoLostWakeup WaitFollowsAsk
PROPERTIES AnswerIsKept EveryAskReturns
CHECK_DEADLOCK FALSE
