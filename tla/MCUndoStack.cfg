SPECIFICATION Spec
CONSTANTS
    K_MAX_UNDO_COMMANDS = 3
    MaxVersions = 5
    MaxKids = 2
INVARIANTS TypeOK HistoryChain ObserversCurrent
PROPERTIES JumpLands JumpTerminates

