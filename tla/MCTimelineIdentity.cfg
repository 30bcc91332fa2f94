SPECIFICATION Spec
CONSTANTS
    Track <- MCTrack
    Loaded <- MCLoaded
    MaxTime = 4
    MaxClip = 1
    MaxEdits = 2
    MaxRedos = 0
CHECK_DEADLOCK FALSE
INVARIANT ListedAreLive
