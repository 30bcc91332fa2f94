SPECIFICATION Spec
CONSTANTS
    Uuid = {p, q}
    Node = {settings, n}
    Settings = settings
    Content = {a}
    None = None
    SNAPSHOT_KEEP = 2
    SnapshotInterval = 3
    RetentionDays = 1
    MaxSeq = 4
    MaxSaves = 4
    MaxClock = 2
INVARIANTS
    JournalImages
    UnbrokenReplay
PROPERTY
    StoresWhatWasSaved
SYMMETRY RowSymmetry
CHECK_DEADLOCK FALSE
