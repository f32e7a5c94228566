SPECIFICATION Spec
CONSTANTS
    Task = t1
    Tasks = {t1}
    p1 = p1
    p2 = p2
    Printers = {p1, p2}
    NoPrinter = NoPrinter
    Role <- RolesOfTwo
    Codes = {a, b, c}
    ExtIds <- ExtIdsNone
    Capacity = 2
    MaxBatch = 2
    InitialSlr <- FreshSlr
    Events = {"sendFails", "ackLost", "reconcileFails", "pollFails", "spaceFails", "statusReadFails"}
    MaxRows = 3
    MaxStops = 1
    MaxRestarts = 1
SYMMETRY CodeSymmetry
INVARIANTS
    NoCodeOnTwoLabels
    LabelsInOrder
    QueueMatchesTable
    LabelsOfOwnLane
