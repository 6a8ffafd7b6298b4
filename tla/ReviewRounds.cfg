\* Interruptions, base advances and commits between runs, against the rounds.
SPECIFICATION Spec
CONSTANTS
    None = None
    Foreign = Foreign
    MaxRounds = 2
    MaxHead = 3
    MaxBase = 1
    HookIds = {1}
    ResumeCaps = {1, 2}
    MaxFaults = 3
    Faults = {"crash", "base", "helper", "drift", "expire"}
INVARIANTS
    TypeOK
    RunStateValid
    WholeRoundReviewed
PROPERTIES
    PublishedIsValidated
CHECK_DEADLOCK FALSE
