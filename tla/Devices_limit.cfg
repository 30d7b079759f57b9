\* Three calls of one person, one device allowed.
SPECIFICATION Spec
CONSTANTS
    i1 = i1
    i2 = i2
    None = None
    Users = {u1}
    Accounts = {family}
    Family = family
    Installations = {i1, i3}
    HardwareOf <- MCHardwareOf
    Limits = {1}
    EnforceWindow = FALSE
    MaxChanges = 1
    Calls = {c1, c2, c3}
INVARIANT DeviceLimit
SYMMETRY Symmetry
CHECK_DEADLOCK FALSE
