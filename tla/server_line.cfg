SPECIFICATION Spec
CONSTANTS
    MaxTasks = 2
    MaxCodes = 2
    MaxBatch = 2
    MaxDrivers = 2
    MaxLog = 2
    Events = {"secondTask", "resume", "replyLost"}
INVARIANTS
    ConfirmedWasAccepted
    AcknowledgedOnce
    LossAndRecoveryAlternate
PROPERTIES
    StoppedTaskRests
CHECK_DEADLOCK FALSE
