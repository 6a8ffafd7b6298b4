\* The wrapper alone is killed; the review process it started lives on.
SPECIFICATION Spec
CONSTANTS
    None = None
    Foreign = Foreign
    MaxRounds = 2
    MaxHead = 2
    MaxBase = 1
    HookIds = {h1, h2}
    ResumeCaps = {2}
    MaxFaults = 2
    Faults = {"kill", "helper"}
SYMMETRY HookSymmetry
INVARIANTS
    FreshPassUnattested
    WholeRoundAttested
PROPERTY OnePublicationPerPass
CHECK_DEADLOCK FALSE
