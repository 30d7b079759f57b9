\* Two persons who may invite each other and an e-mail that never registers: two
\* invitations, two acceptances and two removals.
SPECIFICATION Spec
CONSTANTS
    None = None
    Users = {u1, u2}
    Strangers = {s1}
    Invites = {i1, i2}
    Accepts = {c1, c2}
    Removals = {r1, r2}
    MaxAdditionalMembers = 1
    MaxSubscribed = 1
INVARIANTS
    TypeOK
    ExtraHomeWasCrossed
    ExtraMemberWasMiscounted
    
SYMMETRY Symmetry

\* Every call may have ended; nothing is obliged to happen then.
CHECK_DEADLOCK FALSE
