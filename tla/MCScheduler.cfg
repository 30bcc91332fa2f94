SPECIFICATION Spec
CONSTANTS
    WindowFrames = 4
    Key <- MCKey
    Jobs <- MCJobs
    InitialWorkers = 2
    MaxWorkers = 2
    MaxCredit = 2
    Sizes = {1, 2}
    MaxPosts = 3
    MaxCrashes = 1
    MaxResizes = 1
INVARIANTS TypeOK OneHomePerKey EachRequestOnce LoopFormsBatch
PROPERTY QueueDrains
