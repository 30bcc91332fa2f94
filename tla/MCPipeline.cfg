SPECIFICATION Spec
CONSTANTS
    ui = ui
    task = task
    Client = {ui, task}
    Submits <- MCSubmits
    MaxTickets = 3
    RENDER_QUEUE_CAP = 1
CHECK_DEADLOCK FALSE
INVARIANTS OneHolder SyncFindsResult
PROPERTIES KeepsTicketPromise TicketsAnswered ShutdownEnds
