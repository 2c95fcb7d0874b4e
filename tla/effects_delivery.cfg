SPECIFICATION FairSpec
CONSTANTS
    r1 = r1
    r2 = r2
    w1 = w1
    w2 = w2
    Positions = {1, 2, 3}
    Responses <- ManyResponses
    Requests = {r1}
    Workers = {w1, w2}
    Schedulers = {"celery", "in_process"}
    BrokerFailures = TRUE
    Crashes = TRUE
    TimeLimits = TRUE
    MaxRestores = 1
    MaxCount = 5
INVARIANT TypeOK
INVARIANT InOrder
INVARIANT NoDuplicates
INVARIANT ErrorHasCause
INVARIANT NoneLost
INVARIANT AtLeastOnce
PROPERTY ImplementsQueue
PROPERTY NoRepeats
PROPERTY Answered
PROPERTY EffectsSettle
CHECK_DEADLOCK FALSE
