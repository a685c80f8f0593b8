SPECIFICATION Spec
CONSTANTS
    Fetches = {f1, f2}
    MaxChanges = 2
    Received = {1}
    Filters = {"all", "sent", "received"}
    Queries = {q1, q2}
    MaxPage = 2
    PageSize = 1
    None = None
    MaxMishaps = 1
SYMMETRY Symmetry
INVARIANTS
    CacheIsFresh
    EventsAreShown
    LatestIsChosen
CHECK_DEADLOCK FALSE
