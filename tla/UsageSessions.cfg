\* Two calls of acquire; two devices of u1 and one of u2 in one account.
SPECIFICATION Spec
CONSTANTS
    u1 = u1
    u2 = u2
    d1 = d1
    d2 = d2
    d3 = d3
    a1 = a1
    None = None
    Users = {u1, u2}
    Devices = {d1, d2, d3}
    Accounts = {a1}
    Requests = {r1, r2}
    OwnerOf <- MCOwnerOf
    AccountOf <- MCAccountOf
INVARIANTS
    TypeOK
    OnlyOverlapSharesTurn
    RevokedDeviceWasOvertaken
    
    OnlyReplacedDevicesAreTold
SYMMETRY Symmetry

\* Every call may have ended; nothing is obliged to happen then.
CHECK_DEADLOCK FALSE
