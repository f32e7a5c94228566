SPECIFICATION Spec
CONSTANTS
    Task = t1
    Tasks = {t1}
    p1 = p1
    p2 = p2
    Printers = {p1}
    NoPrinter = NoPrinter
    Role <- RoleOfOne
    Codes = {a, b, c}
    ExtIds <- ExtIdsNone
    Capacity = 2
    MaxBatch = 2
    InitialSlr <- FreshSlr
    Events = {"sendFails"}
    MaxRows = 3
    MaxStops = 0
    MaxRestarts = 1
SYMMETRY CodeSymmetry
INVARIANTS
    PrintedWasApplied
