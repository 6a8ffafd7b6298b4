SPECIFICATION ToolboxSpec
CONSTANTS
    Path <- MCPath
    Above <- MCAbove
    Guarded <- MCGuarded
    Surface <- MCSurface
    ConfigPath = "config"
    Src <- MCSrc
    Version = {"v1", "v2"}
    Mode = {"plain", "exec"}
    Keep = "keep"
    Default = "plain"
    Manifests <- MCManifests
    Configs <- MCConfigs
    Trees <- MCTrees
    Sources <- MCSources
    MaxSyncRuns = 2
    MaxSyncEdits = 1
    MaxLines = 6
    Ships <- MCShips
    MaxTagMoves = 2
    MaxSetbacks = 1
    MaxDays = 2
    File = {"x", "ci", "config"}
    Text = {"t1", "t2"}
    Sensitive = {"ci"}
    Store = "config"
    Heads <- MCHeads
    Policies <- MCPolicies
    Proc = {"hook", "other"}
    Hook = "hook"
    WorkerRetries = 1
    Session = {"s1", "s2"}
    Engine = {"codex"}
    Tier = {"lean", "deep"}
    TierCap <- MCTierCap
    Outcome = {"converged"}
    MaxComments = 3
    MaxLate = 1
    MaxHandoffAt = 0
    Commit = {1, 2}
    MaxReleaseMoves = 5
    Linker = {"l1", "l2"}
    Blocked <- MCBlocked
    Blocking <- MCBlocking
    MaxLinkFailures = 2
    Ticket = {1, 2}
    Pull = {"pr1", "pr2"}
    TicketLists <- MCTicketLists
    PullSets <- MCPullSets
    MaxTicketEvents = 2
CHECK_DEADLOCK FALSE
INVARIANTS
    ToolboxTypeOK RefusalLeavesTree CompletedRunConverges CollapseIsClean RetryRunsAlone
    OneVerifiedComment ChainBreaksOnlyByFork PublishedAsRendered StaysAdmitted
    VerifiedIsTheRelease BlockedSideFirst ListIsTrue
PROPERTIES
    ConsentRespected SupervisorEnds MarkGoesBackOnlyUnpinned SyncOffered LinksRepaired
