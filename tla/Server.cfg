SPECIFICATION Spec
CONSTANTS
    Ids = {"a"}
    MaxEpisodes = 3
    CheckConcurrency = 1
    MaxEpisodesPerCheck = 2
    Checks = {1, 2}
    Requests = {1, 2}
    MeiliHost = TRUE
    SyncPages = 1
    Callers = {1, 2, 3}
    TokenIds = {"x", "y"}
    Clerks = {1, 2}
    Days = 2
    MetricDays = 0
    PageSize = 1
    Quantity = 2
    PublicBaseUrl = TRUE
    MaxDepth = 2
    MaxOperations <- Operations
INVARIANTS TypeOK TableKeepsTheVerdict AdultFollowsTheRequest TermsAreInOrder ReportsAddUp  
PROPERTIES CallersAreAnswered
CHECK_DEADLOCK FALSE
