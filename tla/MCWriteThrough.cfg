SPECIFICATION Spec
CONSTANTS
    Uuid = {p}
    Node = {settings}
    Settings = settings
    Content = {a}
    None = None
    SNAPSHOT_KEEP = 2
    SnapshotInterval = 1
    RetentionDays = 1
    MaxSeq = 3
    MaxClock = 1
    MaxEdits = 2
    MaxFaults = 1
    MaxCrashes = 1
INVARIANTS
    LossIsReported
    CleanIsSnapshotted
    FlushDrains
PROPERTY
    DirtyIsSnapshotted
    FlushEnds
CHECK_DEADLOCK FALSE
