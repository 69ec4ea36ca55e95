SPECIFICATION Spec
CONSTANTS
    Commands = {c1, c2}
    MaxStarts = 3
    Domains = {1, 2, 3}
    Realms = {"app", "none"}
    Installed <- MCInstalled
    Names = {n1, n2}
    First = first
    MaxVersion = 3
    Paths <- MCPaths
    ConfigYaml = 1
    GoMod = 2
    ModulesGo = 3
    Ids = {id1, id2}
    OldId = id1
    None = None
SYMMETRY Symmetry
INVARIANTS
    TypeOK
    NothingLeftBehind
    ReportedStays
    AloneIsConsistent
CHECK_DEADLOCK FALSE
