\* Two loops of one user.
SPECIFICATION Spec
CONSTANTS
    N = 2
    NoBatch = NoBatch
    Batch = Batch
    Human = Human
    A = A
    B = B
    BatchProcs = {p1}
    QueueProcs = {q}
    Login <- OneLogin
    IncludeAssigned = {}
    ResumeRuns = {}
    Faults = {"issue"}
    MaxFaults = 1
INVARIANTS
    WorkIsClaimed
CHECK_DEADLOCK FALSE
