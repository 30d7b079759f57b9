\* Three grants, two codes, one reader, one edit; the time goes to the end of the grace.
SPECIFICATION Spec
CONSTANTS
    monthly = monthly
    lifetime = lifetime
    None = None
    Plans = {monthly, lifetime}
    LifetimePlans = {lifetime}
    Codes = {trial1, trial2}
    KindOf <- MCKindOf
    PlanOf <- MCPlanOf
    LengthOf <- MCLengthOf
    Period = 1
    Grace = 1
    MaxTime = 2
    Grants = {g1, g2, g3}
    Readers = {r1}
    Edits = {e1}
INVARIANTS
    TypeOK
    OneLiveSubscription
    CodeIsRedeemedOnce
    SecondTrialOverlapped
    NotMarkedEarly
PROPERTIES
    PaidTimeIsKept
SYMMETRY GrantsAndCodes

\* The calls and the time are bounded, so the system stops.
CHECK_DEADLOCK FALSE
