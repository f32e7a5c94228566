SPECIFICATION FairSpec
CONSTANTS
    Pump = pump
    Others = {other}
    NoCaller = NoCaller
    Capacity = 2
    MaxBatch = 2
    MaxIndex = 2
    MaxFaults = 1
INVARIANTS
    OdometerTrue
    LoadedInOrder
PROPERTIES
    DesyncHeals
    CallEnds
    ImplementsChannel
CHECK_DEADLOCK FALSE
