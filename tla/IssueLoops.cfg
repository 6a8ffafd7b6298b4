\* A batch and a loop over the ready queue, under logins of their own.
SPECIFICATION Spec
CONSTANTS
    N = 2
    NoBatch = NoBatch
    Batch = Batch
    Human = Human
    A = A
    B = B
    BatchProcs = {p1}
    QueueProcs = {q}
    Login <- LoginsOfTheirOwn
    IncludeAssigned = {q}
    ResumeRuns = {q}
    Faults = {"kill", "issue", "assignee"}
    MaxFaults = 2
INVARIANTS
    TypeOK
    OneLoopPerIssue
    OnePrPerIssue
    WorkIsClaimed
CHECK_DEADLOCK FALSE
