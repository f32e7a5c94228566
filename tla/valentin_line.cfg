SPECIFICATION FairSpec
CONSTANTS
    Task = t1
    Tasks = {t1}
    p1 = p1
    p2 = p2
    Printers = {p1, p2}
    NoPrinter = NoPrinter
    Registered = {p1}
    Role <- RolesOfTwo
    Codes = {a, b, c}
    ExtIds <- ExtIdsOdd
    MaxRows = 3
    MaxBatch = 2
    MaxJump = 3
    InitialFbbc = {0}
    Events = {"sendFails", "armFails", "reportFails", "noAnswer", "fbcResets"}
    MaxStops = 1
    MaxFaults = 1
INVARIANTS
    LabelsInOrder
    
PROPERTIES
    QueuedCodeReported
CHECK_DEADLOCK FALSE
