\* A login and two refreshes with its token.
SPECIFICATION Spec
CONSTANTS
    None = None
    Pending = Pending
    Users = {u1}
    Calls = {c1, c2, c3}
INVARIANT TokenRotatesOnce
SYMMETRY Symmetry
CHECK_DEADLOCK FALSE
