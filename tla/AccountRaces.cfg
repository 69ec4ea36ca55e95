SPECIFICATION Spec
CONSTANTS
    Lower = alice
    Upper = Alice
    Other = bob
    Spellings <- TwoNames
    Fold <- ToLower
    Passwords = {p1, p2}
    Ids = {i1, i2}
    Requests = {r1, r2}
    None = None
SYMMETRY Symmetry
INVARIANTS
    TypeOK
    OneAccountPerName
    DisabledIsOut
PROPERTIES
    DeniedForCause
