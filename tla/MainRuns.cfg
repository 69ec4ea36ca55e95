SPECIFICATION MainSpec
CONSTANTS
    Procs = {p1, p2}
    Latest = 2
    MaxSteps = 1
    Requests = {q1}
INVARIANTS
    TypesOK
    SuccessMeansDone
    StopIsSafe
    ClosedExactlyOnce
    ServesOnlyOpen
    ReadyIsTrue
PROPERTIES
    CommandEnds
    SignalEndsProcess
    ProbesAnswer
