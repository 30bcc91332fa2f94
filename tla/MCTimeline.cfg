SPECIFICATION Spec
CONSTANTS
    Track <- MCTrack
    Loaded <- MCLoaded
    MaxTime = 4
    MaxClip = 1
    MaxEdits = 2
    MaxRedos = 2
CHECK_DEADLOCK FALSE
INVARIANTS ArenaSound Homes
PROPERTIES UndoRestores RedoRepeats
