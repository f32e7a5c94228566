SPECIFICATION Spec
CONSTANTS
    MaxCodes = 4
    SafeQueueLimit = 3
    MaxBatch = 2
    InitialCount = 2
    AllocCounts = {}
    Events = {"resume"}
    MaxStops = 2
PROPERTIES
    ReturnedWasNotApplied
CHECK_DEADLOCK FALSE
