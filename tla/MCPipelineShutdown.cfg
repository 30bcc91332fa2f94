SPECIFICATION Spec
CONSTANTS
    ui = ui
    task = task
    Client = {ui, task}
    Submits <- MCSubmits
    MaxTickets = 2
    RENDER_QUEUE_CAP = 1
CHECK_DEADLOCK FALSE
PROPERTIES CompletionsFire
