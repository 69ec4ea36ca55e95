SPECIFICATION Spec
CONSTANTS
    Users = {u1, u2}
    Devices = {d1, d2}
    Tokens = {t1, t2}
    Requests = {r1, r2}
    Lifetime = 2
    IdleTimeout = 1
    None = None
    MaxClock = 1
    MaxFaults = 0
SYMMETRY Symmetry
INVARIANTS
    ReachableByDevice
PROPERTIES
    TokenNamesOneLogin
    OnlyTargetsDie
