\* The operator resumes the issue of a batch by its own command.
SPECIFICATION Spec
CONSTANTS
    N = 2
    NoBatch = NoBatch
    Batch = Batch
    Human = Human
    A = A
    B = B
    BatchProcs = {p1}
    QueueProcs = {}
    Login <- LoginsOfTheirOwn
    IncludeAssigned = {}
    ResumeRuns = {Batch}
    Faults = {"kill"}
    MaxFaults = 1
INVARIANTS
    ActiveChildResumes
CHECK_DEADLOCK FALSE
