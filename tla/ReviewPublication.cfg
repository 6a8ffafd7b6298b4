\* Failures and changes on GitHub around the publication of the PR.
SPECIFICATION Spec
CONSTANTS
    None = None
    Foreign = Foreign
    MaxRounds = 2
    MaxHead = 2
    MaxBase = 1
    HookIds = {1}
    ResumeCaps = {2}
    MaxFaults = 2
    Faults = {"crash", "fail", "base", "rewrite", "foreign", "ledger", "issue",
              "tamper", "write", "lostReady", "blocked", "drift"}
INVARIANTS
    ReadyOnlyAtCheckpoint
PROPERTIES
    ReadyRecordKept
    ImplementsAbstractReview
CHECK_DEADLOCK FALSE
