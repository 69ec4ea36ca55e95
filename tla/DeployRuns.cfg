SPECIFICATION Spec
CONSTANTS
    r1 = r1
    r2 = r2
    r3 = r3
    Shas <- MCShas
    Needs <- MCNeeds
    Ports = {p1, p2}
    None = None
SYMMETRY Symmetry
INVARIANTS
    TypeOK
    CurrentIsSound
    SchemaSuffices
    OutcomeIsTrue
PROPERTIES
    ImplementsRollout
