SPECIFICATION Spec
CONSTANTS
    Lower = site
    Upper = Site
    Bad = bad
    NotJSON = text
    Spellings <- MCSpellings
    Fold <- ToLower
    Keys <- MCKeys
    Values <- MCValues
    JSON = {v1, v2}
    Requests = {r1, r2}
    None = None
    MaxClock = 1
SYMMETRY Symmetry
INVARIANTS
    TypeOK
    RowOfOneSave
    PrivateIsForAdmins
    AnswerIsOwn
