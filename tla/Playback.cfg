SPECIFICATION Spec
CONSTANTS
    Sources <- SourcesOf
    LanguageOf <- Languages
    ProviderOf <- ProvidersOf
    Providers <- KnownProviders
    Asked <- OneAsked
    BlockedSources <- Blocked
    CircuitBreakerFailures = 2
    BreakerTime = 1
    TransientTime = 1
    NotFoundTime = 2
    LeaseTime <- Lives
    MaxScore = 1
    StartScore = 1
    Take = 3
    FlareSolverr = TRUE
    VidlinkOn = TRUE
    MaxLeases = 2
    MaxCalls = 2
    MaxEvents = 1
INVARIANTS TypeOK BreakerFollowsFailures 
PROPERTIES FlightsEnd
CHECK_DEADLOCK FALSE
