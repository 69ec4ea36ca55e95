SPECIFICATION Spec
CONSTANTS
    Realms = {app, admin}
    Users = {u1, u2}
    Devices = {d1}
    Tokens = {t1, t2, t3}
    None = None
SYMMETRY Symmetry
INVARIANTS
    TypeOK
    PrincipalOfToken
    Indexed
PROPERTIES
    LogoutEndsCurrent
