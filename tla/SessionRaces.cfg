SPECIFICATION Spec
CONSTANTS
    Users = {u1}
    Devices = {d1}
    Tokens = {t1, t2}
    Requests = {r1, r2}
    Lifetime = 2
    IdleTimeout = 1
    None = None
    MaxClock = 1
    MaxFaults = 1
SYMMETRY Symmetry
INVARIANTS
    TypeOK
    RevocationHolds
