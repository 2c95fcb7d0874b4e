SPECIFICATION Spec
CONSTANTS
    r1 = r1
    r2 = r2
    w1 = w1
    w2 = w2
    Positions = {1, 2, 3}
    Responses <- BusyResponses
    Requests = {r1}
    Workers = {w1}
    Schedulers = {"celery"}
    BrokerFailures = FALSE
    Crashes = FALSE
    TimeLimits = FALSE
    MaxRestores = 0
    MaxCount = 5
INVARIANT AsyncAfterAnswer
CHECK_DEADLOCK FALSE
