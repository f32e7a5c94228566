SPECIFICATION Spec
CONSTANTS
    MaxCodes = 5
    SafeQueueLimit = 3
    MaxBatch = 2
    InitialCount = 3
    AllocCounts = {}
    Events = {"cachedCount", "countMissing", "labelDuringStop", "counterResets", "clearFails"}
    MaxStops = 1
INVARIANTS
    PrintedWasApplied
    LabelsInOrder
    NeverOverfilled
CHECK_DEADLOCK FALSE
