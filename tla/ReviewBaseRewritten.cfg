\* The base branch is rewritten at any moment of a run.
SPECIFICATION Spec
CONSTANTS
    None = None
    Foreign = Foreign
    MaxRounds = 2
    MaxHead = 2
    MaxBase = 1
    HookIds = {1}
    ResumeCaps = {2}
    MaxFaults = 1
    Faults = {"rewrite"}
PROPERTY BaseOnlyFastForwards
CHECK_DEADLOCK FALSE
