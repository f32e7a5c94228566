SPECIFICATION Spec
CONSTANTS
    Lines = {1, 2}
    Requests = {r1, r2}
    FastPumps <- TwoOnLine2
    Events = {"queryFails", "panics"}
    MaxTasks = 3
    MaxRestarts = 1
    MaxCalls = 4
SYMMETRY RequestSymmetry
INVARIANTS
    OneTaskPerLine
    OwnSession
CHECK_DEADLOCK FALSE
