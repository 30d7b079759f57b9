\* One link, two persons who approve it, two polls open at a time, one crash.
SPECIFICATION FairSpec
CONSTANTS
    l1 = l1
    l2 = l2
    a3 = a3
    None = None
    Users = {u1, u2}
    Links = {l1}
    Approvals = {a1, a2}
    LinkOf <- MCLinkOf
    Polls = {p1, p2}
    MaxCrashes = 1
INVARIANTS
    TypeOK
    OnlyOverlapApprovesTwice
    RevokedDeviceLosesSessions
PROPERTIES
    GrantIsTakenOnce
    ApprovedTelevisionIsServed

\* A link nobody approves and that has expired waits for ever.
CHECK_DEADLOCK FALSE
