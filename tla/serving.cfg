SPECIFICATION ServedSpec
CONSTANTS
    Ids = {1, 2}
    Routes = {"/a"}
    Scopes = {"global", "team", "guest"}
    DefaultScope = "global"
    Sessions = {"s1"}
    None = None
    Empty = Empty
    Atoms = {"a", "b", "c", "ab"}
    Within <- TextWithin
    NoDoc = NoDoc
    Requests = {q1, q2}
    Contexts <- SomeContexts
    Schema <- AllDocuments
    Documents <- SomeDocuments
    Lookups <- AllLookups
    PageSize = 2
    MaxWrites = 1
    Failures = TRUE
SYMMETRY RequestSymmetry
INVARIANT ServedTypeOK
INVARIANT LookupsAgree
INVARIANT AnswerWasRight
INVARIANT SessionPinned
INVARIANT AnsweredIsLogged
INVARIANT AnsweredIsVerified
INVARIANT OwnId
INVARIANT CompletedOnce
CHECK_DEADLOCK FALSE
