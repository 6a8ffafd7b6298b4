\* The last round is interrupted and its pass replayed.
SPECIFICATION Spec
CONSTANTS
    None = None
    Foreign = Foreign
    MaxRounds = 1
    MaxHead = 2
    MaxBase = 0
    HookIds = {1}
    ResumeCaps = {1}
    MaxFaults = 1
    Faults = {"crash"}
INVARIANT PublicationNotBlocked
CHECK_DEADLOCK FALSE
