\* Two processes of one batch, interrupted, resumed and bailed.
SPECIFICATION FairSpec
CONSTANTS
    N = 2
    NoBatch = NoBatch
    Batch = Batch
    Human = Human
    A = A
    B = B
    BatchProcs = {p1, p2}
    QueueProcs = {}
    Login <- LoginsOfTheirOwn
    IncludeAssigned = {}
    ResumeRuns = {Batch}
    Faults = {"kill", "issue"}
    MaxFaults = 3
INVARIANTS
    InOrder
    BailedHasNoChild
    WorktreeOutlivesRun
    OneReviewPerRun
    OneBatchProcess
PROPERTIES
    ImplementsOrderedQueue
    BatchDrains
CHECK_DEADLOCK FALSE
