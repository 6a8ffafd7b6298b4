\* Crashes at any step, with the operator resuming as long as that is possible.
SPECIFICATION ResumingSpec
CONSTANTS
    None = None
    Foreign = Foreign
    MaxRounds = 2
    MaxHead = 2
    MaxBase = 0
    HookIds = {1}
    ResumeCaps = {1, 2}
    MaxFaults = 2
    Faults = {"crash","expire","lostReady"}
PROPERTIES
    EveryRunEnds
    ConvergedIsPublished
CHECK_DEADLOCK FALSE
