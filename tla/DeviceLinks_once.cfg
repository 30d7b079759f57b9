\* One link, two persons who approve it, one poll open at a time, no crash.
SPECIFICATION Spec
CONSTANTS
    l1 = l1
    l2 = l2
    a3 = a3
    None = None
    Users = {u1, u2}
    Links = {l1}
    Approvals = {a1, a2}
    LinkOf <- MCLinkOf
    Polls = {p1}
    MaxCrashes = 0
INVARIANT TokensAreDeliveredOnce

\* A link nobody approves and that has expired waits for ever.
CHECK_DEADLOCK FALSE
