SPECIFICATION ShardSpec
CONSTANTS
    Tasks = {t1, t2}
    p1 = p1
    p2 = p2
    Printers = {p1, p2}
    NoPrinter = NoPrinter
    Role <- RolesOfTwo
    Codes = {a, b, c}
    ExtIds <- ExtIdsMixed
    MaxRows = 4
    MaxBatch = 2
SYMMETRY CodeSymmetry
INVARIANTS
    AssignmentWellFormed
    PrintOrder
    ConfirmedPrefix
    QueueBehindBuffer
    IndexesContiguous
PROPERTIES
    PrintedFinal
CHECK_DEADLOCK FALSE
