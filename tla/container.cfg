SPECIFICATION FairSpec
CONSTANTS
    Requests = {t1, t2}
    Kinds <- TwoKinds
    NoObject = NoObject
    Roles = {"api", "worker"}
    InProcess = TRUE
    PluginFailures = TRUE
    CloseFailures = TRUE
INVARIANT TypeOK
INVARIANT ServiceIsComplete
INVARIANT NoExecutorRemade
INVARIANT ClosedOrExplained
PROPERTY Answered
CHECK_DEADLOCK FALSE
