SPECIFICATION Spec
CONSTANTS
    Ticket = {v, w, a}
    Audio = {a}
    Slots <- TwoSlots
    MaxFresh = 1
CHECK_DEADLOCK FALSE
INVARIANTS FramesIntact RingMirrored InLockstep
PROPERTIES RequestsAnswered
