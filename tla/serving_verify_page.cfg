SPECIFICATION ServedSpec
CONSTANTS
    Ids = {1}
    Routes = {"/a"}
    Scopes = {"global", "team", "guest"}
    DefaultScope = "global"
    Sessions = {"s1"}
    None = None
    Empty = Empty
    Atoms = {"a", "b", "c", "ab"}
    Within <- TextWithin
    NoDoc = NoDoc
    Requests = {q1, q2, q3}
    Contexts <- SomeContexts
    Schema <- AllDocuments
    Documents <- SomeDocuments
    Lookups <- NoLookups
    PageSize = 2
    MaxWrites = 0
    Failures = FALSE
INVARIANT VerifyCountsAll
CHECK_DEADLOCK FALSE
