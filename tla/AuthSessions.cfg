\* Four calls of one person: a login and three refreshes, two logins and a change of
\* password, and so on.
SPECIFICATION Spec
CONSTANTS
    None = None
    Pending = Pending
    Users = {u1}
    Calls = {c1, c2, c3, c4}
INVARIANTS
    TypeOK
    OnlyOverlapRotatesTwice
    CurrentTokenIsSent
    OutdatedSessionEnds
SYMMETRY Symmetry

\* Every call may have ended; nothing is obliged to happen then.
CHECK_DEADLOCK FALSE
