SPECIFICATION FairSpec
CONSTANTS
    Task = t1
    Tasks = {t1}
    p1 = p1
    p2 = p2
    Printers = {p1}
    NoPrinter = NoPrinter
    Role <- RoleOfOne
    Codes = {a, b, c}
    ExtIds <- ExtIdsNone
    Capacity = 2
    MaxBatch = 2
    InitialSlr <- FreshSlr
    Events = {"labelDuringStop", "clearFails"}
    MaxRows = 3
    MaxStops = 1
    MaxRestarts = 0
INVARIANTS
    NeverOverfilled
    PrintedWasApplied
    BufferedIsAccounted
PROPERTIES
    EveryCodeConfirmed
    StopSettlesBuffer
    ImplementsShard
