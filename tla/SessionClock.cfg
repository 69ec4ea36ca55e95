SPECIFICATION Spec
CONSTANTS
    Users = {u1}
    Devices = {d1}
    Tokens = {t1}
    Requests = {r1, r2}
    Lifetime = 3
    IdleTimeout = 2
    None = None
    MaxClock = 7
    MaxFaults = 1
SYMMETRY Symmetry
INVARIANTS
    ReachableByUser
    DeadlineKept
