SPECIFICATION Safety
CONSTANTS
    WindowFrames = 4
    Key <- MCKey
    Jobs <- TwoJobs
    InitialWorkers = 2
    BatchSize = 2
    Slots = 2
    BaseBytes = 1
    SegmentBudget = 2
    MAX_RESTARTS = 1
    MaxTickets = 2
    MaxFaults = 2
    Targets = {1}
    MaxResizes = 1
    MayCancel = TRUE
    MayShutdown = FALSE
INVARIANTS
    TicketPerRequest
    ClaimsOutstanding
    SlotsAccounted
