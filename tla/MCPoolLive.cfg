SPECIFICATION Spec
CONSTANTS
    WindowFrames = 4
    Key <- MCKey
    Jobs <- MixedJobs
    InitialWorkers = 1
    BatchSize = 2
    Slots = 2
    BaseBytes = 1
    SegmentBudget = 2
    MAX_RESTARTS = 1
    MaxTickets = 3
    MaxFaults = 1
    Targets = {}
    MaxResizes = 0
    MayCancel = FALSE
    MayShutdown = FALSE
PROPERTY EveryTicketAnswered
