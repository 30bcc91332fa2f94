SPECIFICATION Safety
CONSTANTS
    WindowFrames = 4
    Key <- MCKey
    Jobs <- SeekOnly
    InitialWorkers = 1
    BatchSize = 2
    Slots = 2
    BaseBytes = 1
    SegmentBudget = 2
    MAX_RESTARTS = 1
    MaxTickets = 1
    MaxFaults = 1
    Targets = {1, 2}
    MaxResizes = 2
    MayCancel = FALSE
    MayShutdown = TRUE
INVARIANTS
    NoOrphans
    ShutdownAnswersAll
