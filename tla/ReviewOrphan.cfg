\* The wrapper alone is killed while a review hook runs.
SPECIFICATION Spec
CONSTANTS
    None = None
    Foreign = Foreign
    MaxRounds = 2
    MaxHead = 2
    MaxBase = 1
    HookIds = {1, 2}
    ResumeCaps = {2}
    MaxFaults = 1
    Faults = {"kill"}
INVARIANT WholeRoundReviewed
CHECK_DEADLOCK FALSE
