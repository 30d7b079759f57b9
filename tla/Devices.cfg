\* Three calls, one or two devices allowed; the window is enforced after one revocation.
SPECIFICATION Spec
CONSTANTS
    i1 = i1
    i2 = i2
    None = None
    Users = {u1, u2}
    Accounts = {family, personal1, personal2}
    Family = family
    Installations = {i1, i2, i3, i4}
    HardwareOf <- MCHardwareOf
    Limits = {1, 2}
    EnforceWindow = TRUE
    MaxChanges = 1
    Calls = {c1, c2, c3}
INVARIANTS
    TypeOK
    ExcessIsUnchecked
    
    RemovedMemberKeepsNoDevice
SYMMETRY Symmetry

\* Every call may have ended; nothing is obliged to happen then.
CHECK_DEADLOCK FALSE
