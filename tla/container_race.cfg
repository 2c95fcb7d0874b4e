SPECIFICATION Spec
CONSTANTS
    Requests = {t1, t2}
    Kinds <- TwoKinds
    NoObject = NoObject
    Roles = {"api"}
    InProcess = FALSE
    PluginFailures = FALSE
    CloseFailures = FALSE
INVARIANT ClosesAll
CHECK_DEADLOCK FALSE
