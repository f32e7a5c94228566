SPECIFICATION FairSpec
CONSTANTS
    Lines = {1, 2, 3}
    Requests = {r1, r2}
    FastPumps <- NoneOnLine3
    Events = {"overlap", "reappend", "slowPump", "queryFails", "panics"}
    MaxTasks = 1
    MaxRestarts = 1
    MaxCalls = 4
INVARIANTS
    OnePumpPerTask
PROPERTIES
    CreateEnds
    StopReleases
CHECK_DEADLOCK FALSE
