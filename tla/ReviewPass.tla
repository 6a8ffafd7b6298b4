----------------------------- MODULE ReviewPass -----------------------------
(***************************************************************************)
(* One reviewer pass seen from the hook's side: the review process commits *)
(* a fix in the issue worktree, publishes it through the guarded helper    *)
(* review-push.sh, and leaves a result file.  The helper keeps a journal   *)
(* per pass (start, validated, published) so that a call cut short between *)
(* its validation, its push and its last write can be called again.  The   *)
(* wrapper that starts the pass and judges what it left is ReviewLoop.     *)
(***************************************************************************)
EXTENDS RunState

CONSTANTS
    MaxHead,     \* bound: commits made on the issue branch
    HookIds,     \* slots for review processes alive at one time
    Foreign,     \* a remote head that the worktree does not have
    Faults       \* the kinds of disturbance the instance lets happen

VARIABLES
    local,       \* HEAD of the issue worktree
    remote,      \* the issue branch (and the PR head) on GitHub
    base,        \* tip of the PR's base branch on GitHub
    expired,     \* the persisted review deadline has passed
    journal,     \* push-state.json of each engine and round
    results,     \* result.json of each engine and round
    hooks,       \* the review processes alive
    validated    \* heads that the validation hook has accepted

NoHook == [step |-> "none"]
HookSteps == {"review", "committed", "validated", "pushed", "published", "recorded"}

NewJournal(h) == [start |-> h, validated |-> None, published |-> None]
Journals == [start : Heads, validated : Heads \cup {None}, published : Heads \cup {None}]

(* A pass is named by its engine and round.  Its journal has an flock file *)
(* of its own.                                                             *)
Passes == Engines \X Rounds

ASSUME PassAssumption ==
    /\ MaxHead \in Nat
    /\ Foreign \notin Heads
    /\ None \notin HookIds \cup Journals \cup Passes

(* start is the head the pass began at, head the candidate the helper has  *)
(* captured, held the journal lock the supervisor inherited.               *)
HookStates == [step : HookSteps, engine : Engines, round : Rounds, base : Bases,
               start : Heads, head : Heads, held : Passes \cup {None}]

NewHook(e, r, b, h, l) ==
    [step |-> "review", engine |-> e, round |-> r, base |-> b,
     start |-> h, head |-> h, held |-> l]

passVars == <<local, remote, base, expired, journal, results, hooks, validated>>

PassTypeOK ==
    /\ local \in Heads
    /\ remote \in Heads \cup {Foreign}
    /\ base \in Bases
    /\ expired \in BOOLEAN
    /\ journal \in [Engines -> [Rounds -> Journals \cup {None}]]
    /\ results \in [Engines -> [Rounds -> Results \cup {None}]]
    /\ hooks \in [HookIds -> HookStates \cup {NoHook}]
    /\ validated \subseteq Heads

PassInit ==
    /\ local = 0 /\ remote = 0 /\ base = 0 /\ expired = FALSE
    /\ journal = [e \in Engines |-> [r \in Rounds |-> None]]
    /\ results = [e \in Engines |-> [r \in Rounds |-> None]]
    /\ hooks = [i \in HookIds |-> NoHook]
    /\ validated = {0}

-----------------------------------------------------------------------------
At(i, s) == hooks[i].step = s
JournalOf(i) == journal[hooks[i].engine][hooks[i].round]
Move(i, s) == hooks' = [hooks EXCEPT ![i].step = s]
SetJournal(i, j) == journal' = [journal EXCEPT ![hooks[i].engine][hooks[i].round] = j]

ResultOf(h, s) == [engine |-> h.engine, round |-> h.round, base |-> h.base,
                   before |-> h.start, after |-> local, status |-> s]

PassOf(i) == <<hooks[i].engine, hooks[i].round>>

(* The helper holds the journal's flock from its start to its exit; a      *)
(* supervisor started by a wrapper that held one holds it as well.         *)
HeldByHook(p) ==
    \E k \in HookIds : /\ hooks[k] # NoHook
                       /\ \/ hooks[k].held = p
                          \/ PassOf(k) = p /\ hooks[k].step \in {"validated", "pushed"}

(* held is the journal lock that the wrapper alive now has kept open.      *)
JournalFree(i, held) == held # PassOf(i) /\ ~HeldByHook(PassOf(i))

(* The reviewer commits; a second commit after the publication is one the  *)
(* instructions forbid and nothing prevents.                               *)
HookCommit(i) ==
    /\ At(i, "review") \/ At(i, "published")
    /\ local < MaxHead
    /\ local' = local + 1
    /\ Move(i, "committed")
    /\ UNCHANGED <<remote, base, expired, journal, results, validated>>

(* review-push.sh up to its first journal write: the candidate descends    *)
(* from the start, nothing was published in this pass, the remote is still *)
(* at the start, there is time left, and the validation accepts the head.  *)
PublishValidate(i, held) ==
    /\ At(i, "committed")
    /\ JournalFree(i, held)
    /\ JournalOf(i).published = None
    /\ JournalOf(i).start <= local
    /\ remote = JournalOf(i).start
    /\ ~expired
    /\ SetJournal(i, [JournalOf(i) EXCEPT !.validated = local])
    /\ hooks' = [hooks EXCEPT ![i].step = "validated", ![i].head = local]
    /\ validated' = validated \cup {local}
    /\ UNCHANGED <<local, remote, base, expired, results>>

(* The push, under a lease on the start.                                   *)
PublishPush(i) ==
    /\ At(i, "validated")
    /\ remote = JournalOf(i).start
    /\ remote' = hooks[i].head
    /\ Move(i, "pushed")
    /\ UNCHANGED <<local, base, expired, journal, results, validated>>

PublishRecord(i) ==
    /\ At(i, "pushed")
    /\ remote = hooks[i].head
    /\ SetJournal(i, [JournalOf(i) EXCEPT !.published = hooks[i].head])
    /\ Move(i, "published")
    /\ UNCHANGED <<local, remote, base, expired, results, validated>>

(* A repeated call finds the validated candidate already on the remote.    *)
PublishRecover(i, held) ==
    /\ At(i, "committed")
    /\ JournalFree(i, held)
    /\ JournalOf(i).published = None
    /\ remote # JournalOf(i).start
    /\ remote = local
    /\ JournalOf(i).validated = local
    /\ SetJournal(i, [JournalOf(i) EXCEPT !.published = local])
    /\ Move(i, "published")
    /\ UNCHANGED <<local, remote, base, expired, results, validated>>

(* The helper fails after its validation or after its push (the lease, the *)
(* network, a signal); the reviewer may call it again.                     *)
PublishAbort(i) ==
    /\ "helper" \in Faults
    /\ At(i, "validated") \/ At(i, "pushed")
    /\ Move(i, "committed")
    /\ UNCHANGED <<local, remote, base, expired, journal, results, validated>>

(* The ledger's write-result looks at the local head and at the live base: *)
(* an unmoved head is a clean pass, a moved one a fix, and from round 3 on *)
(* a fix is material.  It does not ask whether the fix was published.      *)
HookRecord(i) ==
    LET h == hooks[i] IN
    /\ h.step \in {"review", "committed", "published"}
    /\ base = h.base
    /\ \E s \in Statuses \ {"blocked"} :
        /\ s = "clean" <=> local = h.start
        /\ h.round >= 3 => s # "minor"
        /\ results' = [results EXCEPT ![h.engine][h.round] = ResultOf(h, s)]
    /\ Move(i, "recorded")
    /\ UNCHANGED <<local, remote, base, expired, journal, validated>>

(* write-blocked-result looks at nothing.                                  *)
HookBlock(i) ==
    LET h == hooks[i] IN
    /\ "blocked" \in Faults
    /\ h.step \in {"review", "committed", "published"}
    /\ results' = [results EXCEPT ![h.engine][h.round] = ResultOf(h, "blocked")]
    /\ Move(i, "recorded")
    /\ UNCHANGED <<local, remote, base, expired, journal, validated>>

HookStep(i, held) ==
    \/ HookCommit(i)
    \/ PublishValidate(i, held) \/ PublishPush(i) \/ PublishRecord(i)
    \/ PublishRecover(i, held) \/ PublishAbort(i)
    \/ HookRecord(i) \/ HookBlock(i)
=============================================================================
